------------------------------ MODULE MfaVerify ------------------------------
(***************************************************************************)
(* The second factor of one account: AuthService.mfaSetupInit,             *)
(* mfaSetupComplete and mfaVerify, UsersController.regenerateBackupCodes   *)
(* and disableMfa, and the failed_mfa counter of AuthRateLimitService.     *)
(*                                                                         *)
(* User.mfaBackupCodes is an array that every handler reads as a whole and *)
(* later writes back as a whole; between the two lies a bcrypt comparison  *)
(* per code, so other requests run in between.  Codes are handed out in    *)
(* batches; a code is a pair of its batch and its place in the batch.      *)
(***************************************************************************)
EXTENDS Naturals, FiniteSets, FiniteSetsExt

CONSTANTS
    Request,          \* requests that can be in flight at the same time
    BatchSize,        \* codes in a batch (10 in the code)
    MaxBatch,         \* bound: batches of codes generated
    MaxSecret,        \* bound: TOTP secrets generated
    Limit,            \* LOCKOUT_MAX_ATTEMPTS (5 in the code)
    MaxUse,           \* bound: logins counted per code
    DisableAllowed    \* configuration mfa.disableAllowed

ASSUME SizesAssumption ==
    /\ BatchSize \in Nat \ {0} /\ MaxBatch \in Nat /\ MaxSecret \in Nat
    /\ Limit \in Nat \ {0} /\ MaxUse \in Nat \ {0}
ASSUME DisableAssumption == DisableAllowed \in BOOLEAN
ASSUME RequestAssumption == IsFiniteSet(Request)

VARIABLES
    secret,    \* User.mfaSecret and mfaEnabledAt: a secret, 0 while MFA is off
    codes,     \* User.mfaBackupCodes: the codes whose hashes are stored
    pending,   \* Redis mfa_setup:<userId>: a secret, 0 when absent
    secrets,   \* secrets generated so far
    batches,   \* batches of codes generated so far
    tries,     \* Redis failed_mfa:<userId>, 0 when absent
    setup,     \* is a mfa_setup token (300 s) around?
    challenge, \* is a mfa_challenge token (300 s) around?
    signedIn,  \* has a session been opened, so that the settings can be reached?
    req,       \* req[r] : where the handler in slot r stands
    used,      \* history: used[c] : logins that the code c paid for
    checks     \* history: codes compared since the counter was last cleared

vars == <<secret, codes, pending, secrets, batches, tries, setup, challenge,
          signedIn, req, used, checks>>

Code == (1..MaxBatch) \X (1..BatchSize)
Batch(b) == {b} \X (1..BatchSize)

Pc == {"idle", "setup", "setupDel", "verify", "spend", "issue", "regenerate", "disable"}

NoCode == <<0, 0>>
Idle == [pc |-> "idle", secret |-> 0, code |-> NoCode, seen |-> {}]

TypeOK ==
    /\ secret \in 0..MaxSecret
    /\ codes \subseteq Code
    /\ pending \in 0..MaxSecret
    /\ secrets \in 0..MaxSecret
    /\ batches \in 0..MaxBatch
    /\ tries \in 0..(Limit + 1)
    /\ setup \in BOOLEAN /\ challenge \in BOOLEAN /\ signedIn \in BOOLEAN
    /\ req \in [Request -> [pc : Pc, secret : 0..MaxSecret,
                            code : Code \cup {NoCode}, seen : SUBSET Code]]
    /\ used \in [Code -> 0..MaxUse]
    /\ checks \in Nat

Init ==
    /\ secret = 0 /\ codes = {} /\ pending = 0 /\ secrets = 0 /\ batches = 0
    /\ tries = 0 /\ setup = FALSE /\ challenge = FALSE /\ signedIn = FALSE
    /\ req = [r \in Request |-> Idle]
    /\ used = [c \in Code |-> 0]
    /\ checks = 0

Goto(r, pc) == req' = [req EXCEPT ![r].pc = pc]
Finish(r) == req' = [req EXCEPT ![r] = Idle]

account == <<secret, codes>>
generated == <<secrets, batches>>
tokens == <<setup, challenge, signedIn>>
counter == <<tries, checks>>

-----------------------------------------------------------------------------
(* Login with the right password hands out the token of the next step.     *)

LoginPassed ==
    /\ IF secret = 0 THEN setup' = TRUE /\ UNCHANGED challenge
                     ELSE challenge' = TRUE /\ UNCHANGED setup
    /\ UNCHANGED <<signedIn, account, pending, generated, counter, req, used>>

TokensExpire ==
    /\ setup \/ challenge
    /\ setup' = FALSE /\ challenge' = FALSE
    /\ UNCHANGED <<signedIn, account, pending, generated, counter, req, used>>

(* mfaSetupInit: a fresh secret under the user's Redis key.  Whether MFA is *)
(* on already is not looked at.                                             *)

SetupInit ==
    /\ setup
    /\ secrets < MaxSecret
    /\ secrets' = secrets + 1
    /\ pending' = secrets + 1
    /\ UNCHANGED <<account, batches, counter, tokens, req, used>>

PendingExpires ==
    /\ pending # 0
    /\ pending' = 0
    /\ UNCHANGED <<account, generated, counter, tokens, req, used>>

(* mfaSetupComplete: read the secret, check the TOTP, store secret and a   *)
(* batch of codes, delete the key, open the session.                       *)

SetupStart(r) ==
    /\ req[r].pc = "idle"
    /\ setup /\ pending # 0
    /\ req' = [req EXCEPT ![r] = [Idle EXCEPT !.pc = "setup", !.secret = pending]]
    /\ UNCHANGED <<account, pending, generated, counter, tokens, used>>

SetupStore(r) ==
    /\ req[r].pc = "setup"
    /\ batches < MaxBatch
    /\ batches' = batches + 1
    /\ secret' = req[r].secret
    /\ codes' = Batch(batches + 1)
    /\ Goto(r, "setupDel")
    /\ UNCHANGED <<pending, secrets, counter, tokens, used>>

SetupDelete(r) ==
    /\ req[r].pc = "setupDel"
    /\ pending' = 0
    /\ signedIn' = TRUE
    /\ Finish(r)
    /\ UNCHANGED <<account, generated, counter, setup, challenge, used>>

(* mfaVerify.  rateLimit.register: INCR, refuse when the count exceeds the *)
(* limit, before anything is compared.                                     *)

\* Mutant: the counter is only read here, and incremented on failure.
VerifyPeek(r) ==
    /\ req[r].pc = "idle"
    /\ challenge
    /\ tries <= Limit
    /\ req' = [req EXCEPT ![r] = [Idle EXCEPT !.pc = "verify"]]
    /\ UNCHANGED <<account, pending, generated, counter, tokens, used>>

VerifyAdmit(r) ==
    /\ req[r].pc = "idle"
    /\ challenge
    /\ tries < Limit
    /\ tries' = tries + 1
    /\ req' = [req EXCEPT ![r] = [Idle EXCEPT !.pc = "verify"]]
    /\ UNCHANGED <<account, pending, generated, tokens, used, checks>>

\* Counts above Limit + 1 are all the same: the request is refused.
VerifyRefuse ==
    /\ challenge
    /\ tries = Limit
    /\ tries' = tries + 1
    /\ UNCHANGED <<account, pending, generated, tokens, req, used, checks>>

Compare(r) ==
    /\ req[r].pc = "verify"
    /\ secret # 0
    /\ checks' = checks + 1

VerifyUnconfigured(r) ==
    /\ req[r].pc = "verify"
    /\ secret = 0
    /\ Finish(r)
    /\ UNCHANGED <<account, pending, generated, counter, tokens, used>>

VerifyTotp(r) ==
    /\ Compare(r)
    /\ Goto(r, "issue")
    /\ UNCHANGED <<account, pending, generated, tries, tokens, used>>

VerifyWrong(r) ==
    /\ Compare(r)
    /\ Finish(r)
    /\ UNCHANGED <<account, pending, generated, tries, tokens, used>>

\* One of the stored codes matches; the array read is kept for the update.
VerifyBackup(r, c) ==
    /\ Compare(r)
    /\ c \in codes
    /\ req' = [req EXCEPT ![r].pc = "spend", ![r].code = c, ![r].seen = codes]
    /\ UNCHANGED <<account, pending, generated, tries, tokens, used>>

\* Mutant: the session is opened before the code is dropped.
SpendLater(r) ==
    /\ req[r].pc = "spend"
    /\ used[req[r].code] < MaxUse
    /\ used' = [used EXCEPT ![req[r].code] = @ + 1]
    /\ signedIn' = TRUE
    /\ Finish(r)
    /\ UNCHANGED <<account, pending, generated, counter, setup, challenge>>

\* The array that was read, without the matching code, replaces the column.
Spend(r) ==
    /\ req[r].pc = "spend"
    /\ codes' = req[r].seen \ {req[r].code}
    /\ Goto(r, "issue")
    /\ UNCHANGED <<secret, pending, generated, counter, tokens, used>>

\* rateLimit.reset, then issueSession.
Issue(r) ==
    LET c == req[r].code IN
    /\ req[r].pc = "issue"
    /\ tries' = 0 /\ checks' = 0
    /\ IF c = NoCode THEN UNCHANGED used
       ELSE used[c] < MaxUse /\ used' = [used EXCEPT ![c] = @ + 1]
    /\ signedIn' = TRUE
    /\ Finish(r)
    /\ UNCHANGED <<account, pending, generated, setup, challenge>>

WindowExpires ==
    /\ tries > 0
    /\ tries' = 0 /\ checks' = 0
    /\ UNCHANGED <<account, pending, generated, tokens, req, used>>

(* regenerateBackupCodes and disableMfa, from the settings of a user who is *)
(* signed in: read and check, then update.  Regeneration checks the         *)
(* password and not whether MFA is on.                                      *)

RegenerateStart(r) ==
    /\ req[r].pc = "idle"
    /\ signedIn
    /\ req' = [req EXCEPT ![r] = [Idle EXCEPT !.pc = "regenerate"]]
    /\ UNCHANGED <<account, pending, generated, counter, tokens, used>>

\* Mutant: the user is shown a new batch and the old one stays stored, whole.
RegenerateUnstored(r) ==
    /\ req[r].pc = "regenerate"
    /\ batches < MaxBatch
    /\ batches' = batches + 1
    /\ Finish(r)
    /\ UNCHANGED <<account, pending, secrets, counter, tokens, used>>

Regenerate(r) ==
    /\ req[r].pc = "regenerate"
    /\ batches < MaxBatch
    /\ batches' = batches + 1
    /\ codes' = Batch(batches + 1)
    /\ Finish(r)
    /\ UNCHANGED <<secret, pending, secrets, counter, tokens, used>>

DisableStart(r) ==
    /\ req[r].pc = "idle"
    /\ DisableAllowed
    /\ signedIn
    /\ secret # 0
    /\ req' = [req EXCEPT ![r] = [Idle EXCEPT !.pc = "disable"]]
    /\ UNCHANGED <<account, pending, generated, counter, tokens, used>>

Disable(r) ==
    /\ req[r].pc = "disable"
    /\ secret' = 0 /\ codes' = {}
    /\ Finish(r)
    /\ UNCHANGED <<pending, generated, counter, tokens, used>>

\* The process dies: the rest of the handler never runs.
Crash(r) ==
    /\ req[r].pc # "idle"
    /\ Finish(r)
    /\ UNCHANGED <<account, pending, generated, counter, tokens, used>>

-----------------------------------------------------------------------------

Setup(r) == SetupStart(r) \/ SetupStore(r) \/ SetupDelete(r)

Verify(r) ==
    \/ VerifyAdmit(r) \/ VerifyUnconfigured(r)
    \/ VerifyTotp(r) \/ VerifyWrong(r)
    \/ \E c \in Code : VerifyBackup(r, c)
    \/ Spend(r) \/ Issue(r)

Manage(r) == RegenerateStart(r) \/ Regenerate(r) \/ DisableStart(r) \/ Disable(r)

Next ==
    \/ LoginPassed \/ TokensExpire \/ SetupInit \/ PendingExpires
    \/ VerifyRefuse \/ WindowExpires
    \/ \E r \in Request : Setup(r) \/ Verify(r) \/ Manage(r) \/ Crash(r)

Spec == Init /\ [][Next]_vars

-----------------------------------------------------------------------------
(* Properties.                                                             *)

\* Each backup code can be used only once (backup-codes-display.tsx): no code
\* ever pays for two logins.
SingleUse == \A c \in Code : used[c] <= 1

\* What the account accepts is of the batch handed out last: once that has been
\* stored no code of an older batch comes back (regenerateBackupCodes,
\* mfaSetupComplete, mfaVerify).
OnlyLatestBatch == codes \subseteq Batch(batches)

\* However many requests race, a window of the rate limiter admits no more
\* comparisons than its limit, plus one per request admitted just before the
\* counter was cleared.
GuessBudget == checks <= Limit + Cardinality(Request)

\* What requests that overlap can get out of a batch.  A stored array is read
\* by at most one request per slot before the first of them overwrites it, and
\* each writes an array that is one code shorter: the arrays form a tree of
\* that width and of depth BatchSize.
RaceBudget[n \in 0..BatchSize] ==
    IF n = 0 THEN 0 ELSE Cardinality(Request) * (1 + RaceBudget[n - 1])

\* Backup codes run out: although overlapping requests bring spent codes back,
\* no batch pays for more logins than that, whatever the interleaving
\* (mfaVerify).
BatchBudget ==
    \A b \in 1..MaxBatch :
        MapThenSumSet(LAMBDA c : used[c], Batch(b)) <= RaceBudget[BatchSize]
=============
