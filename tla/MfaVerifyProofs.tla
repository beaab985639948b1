--------------------------- MODULE MfaVerifyProofs ---------------------------
(***************************************************************************)
(* Proofs about MfaVerify for any number of requests, codes, batches and   *)
(* secrets, and for any limit.                                             *)
(*                                                                         *)
(* GuessBudget holds in every interleaving because a request is counted    *)
(* before it compares: comparisons made and still to come stay within the  *)
(* counter, and clearing it leaves at most one to come per request.        *)
(* That a backup code pays once needs that the array of codes is the one   *)
(* which was read: there, requests must not overlap.  BatchBudget says     *)
(* what is left of it when they do: what a batch has paid, and the claims  *)
(* that the requests and the stored array still have on it, never add up   *)
(* to more than RaceBudget.                                                *)
(***************************************************************************)
EXTENDS MCMfaVerify, FiniteSetTheorems, WellFoundedInduction, TLAPS

USE SizesAssumption

ReqState == [pc : Pc, secret : 0..MaxSecret, code : Code \cup {NoCode}, seen : SUBSET Code]

\* What a request looks like at rest, and when it starts.
LEMMA AtRest == Idle \in ReqState /\ Idle.pc = "idle" /\ Idle.code = NoCode
  BY DEF Idle, ReqState, Pc

LEMMA Starts ==
    ASSUME NEW pc \in Pc
    PROVE  /\ [Idle EXCEPT !.pc = pc] \in ReqState
           /\ [Idle EXCEPT !.pc = pc].pc = pc /\ [Idle EXCEPT !.pc = pc].code = NoCode
  BY AtRest DEF ReqState

LEMMA SetupStarts ==
    ASSUME NEW n \in 0..MaxSecret
    PROVE  /\ [Idle EXCEPT !.pc = "setup", !.secret = n] \in ReqState
           /\ [Idle EXCEPT !.pc = "setup", !.secret = n].pc = "setup"
           /\ [Idle EXCEPT !.pc = "setup", !.secret = n].code = NoCode
  BY AtRest DEF ReqState, Pc

\* The record of one request is replaced.
LEMMA Moves ==
    ASSUME req \in [Request -> ReqState], NEW r \in Request, NEW q \in ReqState,
           req' = [req EXCEPT ![r] = q]
    PROVE  /\ req' \in [Request -> ReqState] /\ req'[r] = q
           /\ \A p \in Request \ {r} : req'[p] = req[p]
  OBVIOUS

LEMMA GotoMoves ==
    ASSUME req \in [Request -> ReqState], NEW r \in Request, NEW pc \in Pc, Goto(r, pc)
    PROVE  /\ req' \in [Request -> ReqState]
           /\ req'[r].pc = pc /\ req'[r].code = req[r].code /\ req'[r].seen = req[r].seen
           /\ \A p \in Request \ {r} : req'[p] = req[p]
<1> DEFINE q == [req[r] EXCEPT !.pc = pc]
<1>1. q \in ReqState /\ q.pc = pc /\ q.code = req[r].code /\ q.seen = req[r].seen
  BY DEF ReqState
<1>2. req' = [req EXCEPT ![r] = q]
  BY DEF Goto
<1> HIDE DEF q
<1>3. QED BY <1>1, <1>2, Moves

LEMMA FinishMoves ==
    ASSUME req \in [Request -> ReqState], NEW r \in Request, Finish(r)
    PROVE  /\ req' \in [Request -> ReqState]
           /\ req'[r].pc = "idle" /\ req'[r].code = NoCode
           /\ \A p \in Request \ {r} : req'[p] = req[p]
  BY AtRest, Moves DEF Finish

LEMMA SetupMoves ==
    ASSUME req \in [Request -> ReqState], NEW r \in Request, SetupStart(r), pending \in 0..MaxSecret
    PROVE  /\ req' \in [Request -> ReqState] 
           /\ req'[r].pc = "setup" /\ req'[r].code = NoCode
           /\ \A p \in Request \ {r} : req'[p] = req[p]
<1> DEFINE q == [Idle EXCEPT !.pc = "setup", !.secret = pending]
<1>1. q \in ReqState /\ q.pc = "setup" /\ q.code = NoCode
  BY SetupStarts
<1>2. req' = [req EXCEPT ![r] = q]
  BY DEF SetupStart
<1> HIDE DEF q
<1>3. QED BY <1>1, <1>2, Moves

LEMMA StartMoves ==
    ASSUME req \in [Request -> ReqState], NEW r \in Request, NEW pc \in Pc,
           req' = [req EXCEPT ![r] = [Idle EXCEPT !.pc = pc]]
    PROVE  /\ req' \in [Request -> ReqState] /\ req'[r].pc = pc /\ req'[r].code = NoCode
           /\ \A p \in Request \ {r} : req'[p] = req[p]
<1> DEFINE q == [Idle EXCEPT !.pc = pc]
<1>1. q \in ReqState /\ q.pc = pc /\ q.code = NoCode
  BY Starts
<1>2. req' = [req EXCEPT ![r] = q]
  OBVIOUS
<1> HIDE DEF q
<1>3. QED BY <1>1, <1>2, Moves

LEMMA BackupMoves ==
    ASSUME req \in [Request -> ReqState], codes \subseteq Code,
           NEW r \in Request, NEW c \in Code, VerifyBackup(r, c)
    PROVE  /\ req' \in [Request -> ReqState]
           /\ req'[r].pc = "spend" /\ req'[r].code = c /\ req'[r].seen = codes
           /\ \A p \in Request \ {r} : req'[p] = req[p]
<1> DEFINE q == [[[req[r] EXCEPT !.pc = "spend"] EXCEPT !.code = c] EXCEPT !.seen = codes]
<1>1. q \in ReqState /\ q.pc = "spend" /\ q.code = c /\ q.seen = codes
  BY DEF ReqState, Pc
<1>2. req' = [req EXCEPT ![r] = q]
  BY DEF VerifyBackup
<1> HIDE DEF q
<1>3. QED BY <1>1, <1>2, Moves

-----------------------------------------------------------------------------
(* Types.                                                                  *)

\* All of TypeOK that is not about truth values.
Numbers ==
    /\ secret \in 0..MaxSecret /\ codes \subseteq Code /\ pending \in 0..MaxSecret
    /\ secrets \in 0..MaxSecret /\ batches \in 0..MaxBatch /\ tries \in 0..(Limit + 1)
    /\ req \in [Request -> ReqState] /\ used \in [Code -> 0..MaxUse] /\ checks \in Nat

LEMMA InitType == Init => TypeOK
<1> SUFFICES ASSUME Init PROVE TypeOK
  OBVIOUS
<1>1. req \in [Request -> ReqState]
  BY AtRest DEF Init
<1>2. setup \in BOOLEAN /\ challenge \in BOOLEAN /\ signedIn \in BOOLEAN
  BY Zenon DEF Init
<1>3. used \in [Code -> 0..MaxUse]
  BY DEF Init
<1>4. /\ secret \in 0..MaxSecret /\ codes \subseteq Code /\ pending \in 0..MaxSecret
      /\ secrets \in 0..MaxSecret /\ batches \in 0..MaxBatch /\ tries \in 0..(Limit + 1)
      /\ checks \in Nat
  BY DEF Init
<1>5. QED BY <1>1, <1>2, <1>3, <1>4 DEF TypeOK, ReqState

\* The requests keep their types.
LEMMA ReqStep ==
    ASSUME Numbers, [Next]_vars
    PROVE  req' \in [Request -> ReqState]
<1>1. ASSUME NEW r \in Request, Setup(r) PROVE req' \in [Request -> ReqState]
  BY <1>1, SetupMoves, GotoMoves, FinishMoves
  DEF Setup, SetupStore, SetupDelete, Numbers, Pc
<1>2. ASSUME NEW r \in Request, Verify(r) PROVE req' \in [Request -> ReqState]
  BY <1>2, StartMoves, GotoMoves, FinishMoves, BackupMoves
  DEF Verify, VerifyAdmit, VerifyUnconfigured, VerifyTotp, VerifyWrong, Spend, Issue, Numbers, Pc
<1>3. ASSUME NEW r \in Request, Manage(r) \/ Crash(r) PROVE req' \in [Request -> ReqState]
  BY <1>3, StartMoves, FinishMoves
  DEF Manage, Crash, RegenerateStart, Regenerate, DisableStart, Disable, Numbers, Pc
<1>4. CASE LoginPassed \/ TokensExpire \/ SetupInit \/ PendingExpires \/ VerifyRefuse
           \/ WindowExpires \/ UNCHANGED vars
  BY <1>4 DEF LoginPassed, TokensExpire, SetupInit, PendingExpires, VerifyRefuse, WindowExpires,
     vars, Numbers
<1>5. QED BY <1>1, <1>2, <1>3, <1>4 DEF Next

\* So does everything else.
LEMMA TypeStep == ASSUME TypeOK, [Next]_vars PROVE TypeOK'
<1>0. Numbers
  BY DEF TypeOK, Numbers, ReqState
<1>1. setup' \in BOOLEAN /\ challenge' \in BOOLEAN /\ signedIn' \in BOOLEAN
  <2>0. setup \in BOOLEAN /\ challenge \in BOOLEAN /\ signedIn \in BOOLEAN
    BY Zenon DEF TypeOK
  <2>1. ASSUME NEW r \in Request, Setup(r)
        PROVE  /\ UNCHANGED <<setup, challenge>>
               /\ signedIn' = signedIn \/ signedIn' = TRUE
    BY <2>1, Zenon DEF Setup, SetupStart, SetupStore, SetupDelete, tokens
  <2>2. ASSUME NEW r \in Request, Verify(r)
        PROVE  /\ UNCHANGED <<setup, challenge>>
               /\ signedIn' = signedIn \/ signedIn' = TRUE
    BY <2>2, Zenon DEF Verify, VerifyAdmit, VerifyUnconfigured, VerifyTotp, VerifyWrong,
       VerifyBackup, Spend, Issue, tokens
  <2>3. ASSUME NEW r \in Request, Manage(r) \/ Crash(r)
        PROVE  UNCHANGED <<setup, challenge, signedIn>>
    BY <2>3, Zenon DEF Manage, Crash, RegenerateStart, Regenerate, DisableStart, Disable, tokens
  <2>4. CASE LoginPassed \/ TokensExpire
    BY <2>0, <2>4, Zenon DEF LoginPassed, TokensExpire
  <2>5. CASE SetupInit \/ PendingExpires \/ VerifyRefuse \/ WindowExpires \/ UNCHANGED vars
    BY <2>0, <2>5, Zenon DEF SetupInit, PendingExpires, VerifyRefuse, WindowExpires, tokens, vars
  <2>6. QED BY <2>0, <2>1, <2>2, <2>3, <2>4, <2>5, Zenon DEF Next
<1>2. req' \in [Request -> ReqState]
  BY <1>0, ReqStep
<1> SUFFICES ASSUME req' \in [Request -> ReqState] PROVE Numbers'
  BY <1>1, <1>2 DEF TypeOK, Numbers, ReqState
<1>3. ASSUME NEW r \in Request, Setup(r) PROVE Numbers'
  BY <1>0, <1>3 DEF Setup, SetupStart, SetupStore, SetupDelete, Numbers, ReqState, Batch, Code,
     account, generated, counter
<1>4. ASSUME NEW r \in Request, VerifyAdmit(r) \/ VerifyUnconfigured(r) \/ VerifyTotp(r)
             \/ VerifyWrong(r) \/ \E c \in Code : VerifyBackup(r, c)
      PROVE  Numbers'
  <2>1. UNCHANGED <<secret, codes, pending, secrets, batches, used>>
    BY <1>4 DEF VerifyAdmit, VerifyUnconfigured, VerifyTotp, VerifyWrong, VerifyBackup,
       account, generated
  <2>2. tries' \in 0..(Limit + 1) /\ checks' \in Nat
    <3>1. \/ tries < Limit /\ tries' = tries + 1 /\ checks' = checks
          \/ tries' = tries /\ checks' \in {checks, checks + 1}
      BY <1>4 DEF VerifyAdmit, VerifyUnconfigured, VerifyTotp, VerifyWrong, VerifyBackup,
         Compare, counter
    <3>2. tries \in 0..(Limit + 1) /\ checks \in Nat /\ Limit \in Nat
      BY <1>0 DEF Numbers
    <3>3. QED BY <3>1, <3>2
  <2>3. QED BY <1>0, <2>1, <2>2 DEF Numbers
<1>5. ASSUME NEW r \in Request, Spend(r) \/ Issue(r) PROVE Numbers'
  <2>1. req[r].code \in Code \cup {NoCode} /\ req[r].seen \subseteq Code
    BY <1>0 DEF Numbers, ReqState
  <2>2. CASE Spend(r)
    BY <1>0, <2>1, <2>2 DEF Spend, Numbers, generated, counter
  <2>3. CASE Issue(r)
    <3>1. used' \in [Code -> 0..MaxUse]
      BY <1>0, <2>1, <2>3 DEF Issue, Numbers
    <3>2. QED BY <1>0, <2>3, <3>1 DEF Issue, Numbers, account, generated
  <2>4. QED BY <1>5, <2>2, <2>3
<1>6. ASSUME NEW r \in Request, Manage(r) \/ Crash(r) PROVE Numbers'
  BY <1>0, <1>6 DEF Manage, Crash, RegenerateStart, Regenerate, DisableStart, Disable, Numbers,
     Batch, Code, account, generated, counter
<1>7. CASE LoginPassed \/ TokensExpire \/ SetupInit \/ PendingExpires \/ VerifyRefuse
           \/ WindowExpires \/ UNCHANGED vars
  BY <1>0, <1>7 DEF LoginPassed, TokensExpire, SetupInit, PendingExpires, VerifyRefuse,
     WindowExpires, Numbers, account, generated, counter, vars
<1>8. QED BY <1>3, <1>4, <1>5, <1>6, <1>7 DEF Next, Verify

\* The account, the counter and the requests keep their types.
THEOREM TypeCorrect == Spec => []TypeOK
  BY InitType, TypeStep, PTL DEF Spec

-----------------------------------------------------------------------------
(* The budget of the rate limiter.                                         *)

\* Who was admitted and has yet to compare, and how many the counter admitted.
Comparing == {r \in Request : req[r].pc = "verify"}
Admitted == IF tries <= Limit THEN tries ELSE Limit

GuessInv == checks + Cardinality(Comparing) <= Admitted + Cardinality(Request)

LEMMA Slots ==
    /\ IsFiniteSet(Comparing) /\ Cardinality(Comparing) \in Nat /\ Cardinality(Request) \in Nat
    /\ Cardinality(Comparing) <= Cardinality(Request)
<1>1. Comparing \subseteq Request
  BY DEF Comparing
<1>2. QED BY <1>1, RequestAssumption, FS_Subset, FS_CardinalityType

\* One request moves.
LEMMA SlotMoves ==
    ASSUME NEW r \in Request, \A p \in Request \ {r} : req'[p] = req[p]
    PROVE  /\ Cardinality(Comparing') \in Nat /\ Cardinality(Comparing') <= Cardinality(Request)
           /\ req[r].pc # "verify" /\ req'[r].pc = "verify" =>
                 Cardinality(Comparing') = Cardinality(Comparing) + 1
           /\ req[r].pc = "verify" /\ req'[r].pc # "verify" =>
                 Cardinality(Comparing') = Cardinality(Comparing) - 1
           /\ (req[r].pc = "verify" <=> req'[r].pc = "verify") =>
                 Cardinality(Comparing') = Cardinality(Comparing)
<1>1. Comparing' \subseteq Request
  BY DEF Comparing
<1>2. Cardinality(Comparing') \in Nat /\ Cardinality(Comparing') <= Cardinality(Request)
  BY <1>1, RequestAssumption, FS_Subset, FS_CardinalityType
<1>3. IsFiniteSet(Comparing)
  BY Slots
<1>4. CASE req[r].pc # "verify" /\ req'[r].pc = "verify"
  <2>1. Comparing' = Comparing \cup {r} /\ r \notin Comparing
    BY <1>4 DEF Comparing
  <2>2. QED BY <1>2, <1>3, <1>4, <2>1, FS_AddElement
<1>5. CASE req[r].pc = "verify" /\ req'[r].pc # "verify"
  <2>1. Comparing' = Comparing \ {r} /\ r \in Comparing
    BY <1>5 DEF Comparing
  <2>2. QED BY <1>2, <1>3, <1>5, <2>1, FS_RemoveElement
<1>6. CASE req[r].pc = "verify" <=> req'[r].pc = "verify"
  <2>1. Comparing' = Comparing
    BY <1>6 DEF Comparing
  <2>2. QED BY <1>2, <1>6, <2>1
<1>7. QED BY <1>4, <1>5, <1>6

LEMMA GuessStep == ASSUME TypeOK, GuessInv, [Next]_vars PROVE GuessInv'
<1>0. /\ req \in [Request -> ReqState] /\ codes \subseteq Code /\ pending \in 0..MaxSecret
      /\ tries \in 0..(Limit + 1) /\ checks \in Nat
      /\ Cardinality(Comparing) \in Nat /\ Cardinality(Request) \in Nat
      /\ Cardinality(Comparing) <= Cardinality(Request)
  BY Slots DEF TypeOK, ReqState
<1>1. ASSUME NEW r \in Request, VerifyAdmit(r) PROVE GuessInv'
  <2>1. /\ req[r].pc # "verify" /\ req'[r].pc = "verify"
        /\ \A p \in Request \ {r} : req'[p] = req[p]
        /\ tries < Limit /\ tries' = tries + 1 /\ checks' = checks
    BY <1>0, <1>1, StartMoves DEF VerifyAdmit, Pc
  <2>2. Cardinality(Comparing') = Cardinality(Comparing) + 1
    BY <2>1, SlotMoves
  <2>3. QED BY <1>0, <2>1, <2>2 DEF GuessInv, Admitted
<1>2. ASSUME NEW r \in Request, VerifyUnconfigured(r) \/ VerifyTotp(r) \/ VerifyWrong(r)
             \/ \E c \in Code : VerifyBackup(r, c)
      PROVE  GuessInv'
  <2>1. req[r].pc = "verify" /\ tries' = tries /\ checks' \in {checks, checks + 1}
    BY <1>2 DEF VerifyUnconfigured, VerifyTotp, VerifyWrong, VerifyBackup, Compare, counter
  <2>2. req'[r].pc # "verify" /\ \A p \in Request \ {r} : req'[p] = req[p]
    BY <1>0, <1>2, GotoMoves, FinishMoves, BackupMoves
    DEF VerifyUnconfigured, VerifyTotp, VerifyWrong, Pc
  <2>3. Cardinality(Comparing') = Cardinality(Comparing) - 1
    BY <2>1, <2>2, SlotMoves
  <2>4. QED BY <1>0, <2>1, <2>3 DEF GuessInv, Admitted
<1>3. ASSUME NEW r \in Request, Issue(r) PROVE GuessInv'
  <2>1. \A p \in Request \ {r} : req'[p] = req[p]
    BY <1>0, <1>3, FinishMoves DEF Issue
  <2>2. tries' = 0 /\ checks' = 0
    BY <1>3 DEF Issue
  <2>3. QED BY <1>0, <2>1, <2>2, SlotMoves DEF GuessInv, Admitted
<1>4. CASE WindowExpires
  <2>1. tries' = 0 /\ checks' = 0 /\ Comparing' = Comparing
    BY <1>4 DEF WindowExpires, Comparing
  <2>2. QED BY <1>0, <2>1 DEF GuessInv, Admitted
<1>5. CASE VerifyRefuse
  <2>1. tries = Limit /\ tries' = Limit + 1 /\ checks' = checks /\ Comparing' = Comparing
    BY <1>5 DEF VerifyRefuse, Comparing
  <2>2. QED BY <1>0, <2>1 DEF GuessInv, Admitted
<1>6. ASSUME NEW r \in Request, Crash(r) PROVE GuessInv'
  <2>1. /\ req'[r].pc # "verify" /\ \A p \in Request \ {r} : req'[p] = req[p]
        /\ UNCHANGED <<tries, checks>>
    BY <1>0, <1>6, FinishMoves DEF Crash, counter
  <2>2. Cardinality(Comparing') <= Cardinality(Comparing) /\ Cardinality(Comparing') \in Nat
    BY <1>0, <2>1, SlotMoves
  <2>3. QED BY <1>0, <2>1, <2>2 DEF GuessInv, Admitted
<1>7. ASSUME NEW r \in Request, Setup(r) \/ Spend(r) \/ Manage(r) PROVE GuessInv'
  <2>1. UNCHANGED <<tries, checks>> /\ req[r].pc # "verify"
    BY <1>7 DEF Setup, SetupStart, SetupStore, SetupDelete, Spend, Manage, RegenerateStart,
       Regenerate, DisableStart, Disable, counter
  <2>2. CASE Setup(r)
    BY <1>0, <2>1, <2>2, SetupMoves, GotoMoves, FinishMoves, SlotMoves
    DEF Setup, SetupStore, SetupDelete, GuessInv, Admitted, Pc
  <2>3. CASE Spend(r) \/ Manage(r)
    BY <1>0, <2>1, <2>3, StartMoves, GotoMoves, FinishMoves, SlotMoves
    DEF Spend, Manage, RegenerateStart, Regenerate, DisableStart, Disable, GuessInv, Admitted, Pc
  <2>4. QED BY <1>7, <2>2, <2>3
<1>8. CASE LoginPassed \/ TokensExpire \/ SetupInit \/ PendingExpires \/ UNCHANGED vars
  <2>1. UNCHANGED <<tries, checks, req>>
    BY <1>8 DEF LoginPassed, TokensExpire, SetupInit, PendingExpires, counter, vars
  <2>2. QED BY <2>1 DEF GuessInv, Admitted, Comparing
<1>9. QED
  BY <1>1, <1>2, <1>3, <1>4, <1>5, <1>6, <1>7, <1>8 DEF Next, Verify

\* However many requests race, a window of failed_mfa admits no more comparisons
\* than its limit, and one for each request admitted before it was cleared.
THEOREM GuessTheorem == Spec => []GuessBudget
<1>1. Init => GuessInv
  BY Slots DEF Init, GuessInv, Admitted
<1>2. TypeOK /\ GuessInv => GuessBudget
  BY Slots DEF GuessInv, GuessBudget, Admitted, TypeOK
<1>3. QED BY <1>1, <1>2, GuessStep, TypeCorrect, PTL DEF Spec

-----------------------------------------------------------------------------
(* One request at a time.                                                  *)

\* The stored codes are of the newest batch and unused, and nothing of a batch
\* to come has been used.
CodesAreFresh ==
    /\ \A c \in codes : c[1] = batches /\ used[c] = 0
    /\ \A c \in Code : c[1] > batches => used[c] = 0

\* The array that was read is the one that is stored, until the code at hand
\* is gone from it; then it is paid with.
CodeAtHand ==
    \A r \in Request :
        /\ req[r].pc = "verify" => req[r].code = NoCode
        /\ req[r].pc = "spend" => req[r].code \in codes /\ req[r].seen = codes
        /\ req[r].pc = "issue" /\ req[r].code # NoCode =>
              /\ used[req[r].code] = 0 /\ req[r].code \notin codes
              /\ req[r].code[1] <= batches

AloneInv == AtMostOne /\ CodesAreFresh /\ CodeAtHand /\ SingleUse

\* A step that touches no code, at the end of which nobody else is at work.
LEMMA CodesStay ==
    ASSUME AloneInv, UNCHANGED <<codes, batches, used>>, AtMostOne',
           \A r \in Request : req'[r].pc \in {"verify", "spend", "issue"} =>
               req'[r] = req[r] \/ (req'[r].pc = "verify" /\ req'[r].code = NoCode)
    PROVE  AloneInv'
  BY DEF AloneInv, CodesAreFresh, CodeAtHand, SingleUse

\* A step after which nobody is verifying: a new batch, or none, is stored.
LEMMA NewBatch ==
    ASSUME Numbers, Numbers', AloneInv, used' = used, AtMostOne',
           \/ batches' = batches + 1 /\ codes' = Batch(batches + 1)
           \/ batches' = batches /\ codes' = {},
           \A r \in Request : req'[r].pc \notin {"verify", "spend", "issue"}
    PROVE  AloneInv'
<1>1. CodesAreFresh'
  <2>1. CASE batches' = batches + 1 /\ codes' = Batch(batches + 1)
    <3>1. \A c \in codes' : c \in Code /\ c[1] = batches + 1
      BY <2>1 DEF Numbers, Batch, Code
    <3>2. batches \in Nat /\ \A c \in Code : c[1] \in Nat
      BY DEF Numbers, Code
    <3>3. QED BY <2>1, <3>1, <3>2 DEF AloneInv, CodesAreFresh
  <2>2. CASE batches' = batches /\ codes' = {}
    BY <2>2 DEF AloneInv, CodesAreFresh
  <2>3. QED BY <2>1, <2>2
<1>2. QED BY <1>1 DEF AloneInv, CodeAtHand, SingleUse

LEMMA AloneStep ==
    ASSUME TypeOK, TypeOK', AloneInv, [Next]_vars, AtMostOne'
    PROVE  AloneInv'
<1>0. /\ Numbers /\ Numbers' /\ req \in [Request -> ReqState] /\ codes \subseteq Code
      /\ pending \in 0..MaxSecret /\ used \in [Code -> 0..MaxUse]
      /\ \A q, r \in Request : req[q].pc # "idle" /\ req[r].pc # "idle" => q = r
  BY DEF TypeOK, Numbers, ReqState, AloneInv, AtMostOne
<1>1. ASSUME NEW r \in Request, SetupStart(r) \/ VerifyAdmit(r) \/ RegenerateStart(r) \/ DisableStart(r)
      PROVE  AloneInv'
  <2>1. UNCHANGED <<codes, batches, used>>
    BY <1>1 DEF SetupStart, VerifyAdmit, RegenerateStart, DisableStart, account, generated
  <2>2. /\ \A p \in Request \ {r} : req'[p] = req[p]
        /\ req'[r].pc \in {"verify", "spend", "issue"} =>
              req'[r].pc = "verify" /\ req'[r].code = NoCode
    BY <1>0, <1>1, SetupMoves, StartMoves DEF VerifyAdmit, RegenerateStart, DisableStart, Pc
  <2>3. QED BY <2>1, <2>2, CodesStay
<1>2. ASSUME NEW r \in Request, SetupDelete(r) \/ VerifyUnconfigured(r) \/ VerifyWrong(r) \/ Crash(r)
      PROVE  AloneInv'
  <2>1. UNCHANGED <<codes, batches, used>> /\ Finish(r)
    BY <1>2 DEF SetupDelete, VerifyUnconfigured, VerifyWrong, Crash, account, generated
  <2>2. req'[r].pc = "idle" /\ \A p \in Request \ {r} : req'[p] = req[p]
    BY <1>0, <2>1, FinishMoves
  <2>3. QED BY <2>1, <2>2, CodesStay
<1>3. CASE LoginPassed \/ TokensExpire \/ SetupInit \/ PendingExpires \/ VerifyRefuse
           \/ WindowExpires \/ UNCHANGED vars
  <2>1. UNCHANGED <<codes, batches, used, req>>
    BY <1>3 DEF LoginPassed, TokensExpire, SetupInit, PendingExpires, VerifyRefuse,
       WindowExpires, account, generated, vars
  <2>2. QED BY <2>1, CodesStay
<1>4. ASSUME NEW r \in Request, SetupStore(r) \/ Regenerate(r) \/ Disable(r) PROVE AloneInv'
  <2>1. /\ req[r].pc \in {"setup", "regenerate", "disable"} /\ used' = used
        /\ \/ batches' = batches + 1 /\ codes' = Batch(batches + 1)
           \/ batches' = batches /\ codes' = {}
    BY <1>4 DEF SetupStore, Regenerate, Disable, generated
  <2>2. req'[r].pc \in {"setupDel", "idle"} /\ \A p \in Request \ {r} : req'[p] = req[p]
    BY <1>0, <1>4, GotoMoves, FinishMoves DEF SetupStore, Regenerate, Disable, Pc
  <2>3. \A p \in Request \ {r} : req[p].pc = "idle"
    BY <1>0, <2>1
  <2>4. \A p \in Request : req'[p].pc \notin {"verify", "spend", "issue"}
    BY <2>2, <2>3
  <2>5. QED BY <1>0, <2>1, <2>4, NewBatch
<1>5. ASSUME NEW r \in Request, VerifyTotp(r) PROVE AloneInv'
  <2>1. UNCHANGED <<codes, batches, used>> /\ req[r].pc = "verify"
    BY <1>5 DEF VerifyTotp, Compare, account, generated
  <2>2. /\ req'[r].pc = "issue" /\ req'[r].code = NoCode
        /\ \A p \in Request \ {r} : req'[p] = req[p]
    BY <1>0, <1>5, <2>1, GotoMoves DEF VerifyTotp, Pc, AloneInv, CodeAtHand
  <2>3. QED BY <2>1, <2>2 DEF AloneInv, CodesAreFresh, CodeAtHand, SingleUse
<1>6. ASSUME NEW r \in Request, NEW c \in Code, VerifyBackup(r, c) PROVE AloneInv'
  <2>1. UNCHANGED <<codes, batches, used>> /\ req[r].pc = "verify" /\ c \in codes
    BY <1>6 DEF VerifyBackup, Compare, account, generated
  <2>2. /\ req'[r].pc = "spend" /\ req'[r].code = c /\ req'[r].seen = codes
        /\ \A p \in Request \ {r} : req'[p] = req[p]
    BY <1>0, <1>6, BackupMoves
  <2>3. QED BY <2>1, <2>2 DEF AloneInv, CodesAreFresh, CodeAtHand, SingleUse
<1>7. ASSUME NEW r \in Request, Spend(r) PROVE AloneInv'
  <2> DEFINE c == req[r].code
  <2>1. /\ req[r].pc = "spend" /\ codes' = codes \ {c} /\ c \in codes
        /\ UNCHANGED <<batches, used>>
    BY <1>7 DEF Spend, generated, AloneInv, CodeAtHand
  <2>2. /\ req'[r].pc = "issue" /\ req'[r].code = c /\ \A p \in Request \ {r} : req'[p] = req[p]
    BY <1>0, <1>7, GotoMoves DEF Spend, Pc
  <2>3. \A p \in Request \ {r} : req[p].pc = "idle"
    BY <1>0, <2>1
  <2>4. used[c] = 0 /\ c[1] = batches /\ batches \in Nat
    BY <1>0, <2>1 DEF AloneInv, CodesAreFresh, Numbers
  <2> HIDE DEF c
  <2>5. CodeAtHand'
    BY <2>1, <2>2, <2>3, <2>4 DEF CodeAtHand
  <2>6. QED BY <2>1, <2>5 DEF AloneInv, CodesAreFresh, SingleUse
<1>8. ASSUME NEW r \in Request, Issue(r) PROVE AloneInv'
  <2> DEFINE c == req[r].code
  <2>1. /\ req[r].pc = "issue" /\ c \in Code \cup {NoCode} /\ UNCHANGED <<codes, batches>>
        /\ \/ c = NoCode /\ used' = used
           \/ c # NoCode /\ used' = [used EXCEPT ![c] = used[c] + 1]
    BY <1>0, <1>8 DEF Issue, account, generated, ReqState
  <2>2. \A p \in Request : req'[p].pc = "idle"
    BY <1>0, <1>8, <2>1, FinishMoves DEF Issue
  <2>3. CASE c = NoCode /\ used' = used
    BY <2>1, <2>2, <2>3 DEF AloneInv, CodesAreFresh, CodeAtHand, SingleUse
  <2>4. CASE c # NoCode /\ used' = [used EXCEPT ![c] = used[c] + 1]
    <3>1. c \in Code /\ used[c] = 0 /\ c \notin codes /\ c[1] <= batches
      BY <2>1, <2>4 DEF AloneInv, CodeAtHand
    <3>2. used'[c] = 1 /\ \A d \in Code \ {c} : used'[d] = used[d]
      BY <1>0, <2>4, <3>1
    <3>3. c[1] \in Nat /\ batches \in Nat
      BY <1>0, <3>1 DEF Code, Numbers
    <3> HIDE DEF c
    <3>4. CodesAreFresh'
      BY <1>0, <2>1, <3>1, <3>2, <3>3 DEF AloneInv, CodesAreFresh
    <3>5. SingleUse'
      BY <3>2 DEF AloneInv, SingleUse
    <3>6. CodeAtHand'
      BY <2>2 DEF CodeAtHand
    <3>7. QED BY <3>4, <3>5, <3>6 DEF AloneInv
  <2>5. QED BY <2>1, <2>3, <2>4
<1>9. QED
  BY <1>1, <1>2, <1>3, <1>4, <1>5, <1>6, <1>7, <1>8 DEF Next, Setup, Verify, Manage

\* As long as no two requests overlap, a backup code pays for one login, and only
\* codes of the newest batch are stored (mfaVerify, regenerateBackupCodes).
THEOREM SingleUseTheorem == MCSpec => []AloneSingleUse
<1> DEFINE Inv == TypeOK /\ (mode = "alone" => AloneInv)
<1>1. MCInit => Inv
  BY InitType, AtRest
  DEF MCInit, Init, AloneInv, AtMostOne, CodesAreFresh, CodeAtHand, SingleUse
<1>2. Inv /\ [MCNext]_<<vars, mode>> => Inv'
  <2> SUFFICES ASSUME Inv, [MCNext]_<<vars, mode>> PROVE Inv'
    OBVIOUS
  <2>1. [Next]_vars /\ mode' = mode
    BY DEF MCNext
  <2>2. TypeOK'
    BY <2>1, TypeStep
  <2>3. ASSUME mode = "alone" PROVE AloneInv'
    <3>1. AtMostOne'
      <4>1. CASE MCNext
        BY <2>1, <2>3, <4>1 DEF MCNext, Allowed
      <4>2. CASE UNCHANGED <<vars, mode>>
        BY <2>3, <4>2 DEF vars, AloneInv, AtMostOne
      <4>3. QED BY <4>1, <4>2
    <3>2. QED BY <2>1, <2>2, <2>3, <3>1, AloneStep
  <2>4. QED BY <2>1, <2>2, <2>3
<1>3. Inv => AloneSingleUse
  <2> SUFFICES ASSUME TypeOK, AloneInv PROVE SingleUse /\ OnlyLatestBatch
    BY DEF AloneSingleUse
  <2>1. codes \subseteq Code /\ \A c \in codes : c[1] = batches
    BY DEF TypeOK, AloneInv, CodesAreFresh
  <2>2. codes \subseteq Batch(batches)
    BY <2>1 DEF Code, Batch
  <2>3. QED BY <2>2 DEF AloneInv, OnlyLatestBatch
<1>4. QED BY <1>1, <1>2, <1>3, PTL DEF MCSpec
-----------------------------------------------------------------------------
(* Sums over a finite set.  The provers have no induction over data; that  *)
(* inclusion of finite sets is well founded gives a least counterexample.  *)

Total(f, S) == MapThenSumSet(LAMBDA x : f[x], S)

PickOf(S) == CHOOSE x \in S : TRUE
Adds(g, f, S) ==
    g = [T \in SUBSET S |-> IF T = {} THEN 0 ELSE f[PickOf(T)] + g[T \ {PickOf(T)}]]

\* A set of subsets of a finite set has a least member.
LEMMA LeastSet ==
    ASSUME NEW S, IsFiniteSet(S), NEW W, W \subseteq SUBSET S, W # {}
    PROVE  \E U \in W : \A V \in W : V \subseteq U => V = U
<1> DEFINE less == StrictSubsetOrdering(S)
<1>1. IsWellFoundedOn(less, FiniteSubsetsOf(S)) /\ W \subseteq FiniteSubsetsOf(S)
  BY FS_StrictSubsetOrderingWellFounded, FS_FiniteSubsetsOfFinite
<1>2. \E U \in W : \A V \in W : <<V, U>> \notin less
  <2> HIDE DEF less
  <2> QED BY WFMin, <1>1
<1>3. PICK U \in W : \A V \in W : <<V, U>> \notin less
  BY <1>2
<1>4. ASSUME NEW V \in W, V \subseteq U, V # U PROVE FALSE
  <2>1. <<V, U>> \in (SUBSET S) \X (SUBSET S)
    OBVIOUS
  <2>2. <<V, U>> \in less
    BY <1>4, <2>1 DEF StrictSubsetOrdering
  <2>3. QED BY <1>3, <2>2
<1>5. QED BY <1>3, <1>4

LEMMA TotalUnfolds ==
    ASSUME NEW f, NEW S
    PROVE  Total(f, S) = (CHOOSE g : Adds(g, f, S))[S]
  BY DEF Total, MapThenSumSet, MapThenFoldSet, Adds, PickOf

LEMMA PickIsIn == ASSUME NEW T, T # {} PROVE PickOf(T) \in T
  BY DEF PickOf

\* Two solutions agree where both are defined.
LEMMA AddsAgree ==
    ASSUME NEW f, NEW g, NEW h, NEW S, NEW R, IsFiniteSet(S), Adds(g, f, S), Adds(h, f, R),
           NEW T \in SUBSET S, T \subseteq R
    PROVE  g[T] = h[T]
<1> DEFINE W == {V \in SUBSET S : V \subseteq R /\ g[V] # h[V]}
<1> SUFFICES ASSUME W # {} PROVE FALSE
  OBVIOUS
<1>1. PICK V \in W : \A U \in W : U \subseteq V => U = V
  <2>1. W \subseteq SUBSET S
    OBVIOUS
  <2> HIDE DEF W
  <2>2. QED BY <2>1, LeastSet
<1>2. V # {}
  BY <1>1 DEF Adds
<1> DEFINE U == V \ {PickOf(V)}
<1>3. g[U] = h[U]
  BY <1>1, <1>2, PickIsIn
<1>4. g[V] = f[PickOf(V)] + g[U] /\ h[V] = f[PickOf(V)] + h[U]
  BY <1>1, <1>2 DEF Adds
<1>5. QED BY <1>1, <1>3, <1>4

\* There is a solution, so the sum is one.
LEMMA AddsExists ==
    ASSUME NEW f, NEW S, IsFiniteSet(S)
    PROVE  \E g : Adds(g, f, S)
<1> DEFINE W == {V \in SUBSET S : ~\E g : Adds(g, f, V)}
<1> SUFFICES ASSUME W # {} PROVE FALSE
  OBVIOUS
<1>1. PICK V \in W : \A U \in W : U \subseteq V => U = V
  <2>1. W \subseteq SUBSET S
    OBVIOUS
  <2> HIDE DEF W
  <2>2. QED BY <2>1, LeastSet
<1> DEFINE g == [T \in SUBSET V |-> IF T = {} THEN 0
                                    ELSE f[PickOf(T)] + Total(f, T \ {PickOf(T)})]
<1>2. ASSUME NEW T \in SUBSET V, T # V PROVE Total(f, T) = g[T]
  <2> DEFINE h == CHOOSE h : Adds(h, f, T)
  <2>1. Adds(h, f, T)
    BY <1>1, <1>2
  <2> HIDE DEF h
  <2>2. Total(f, T) = h[T]
    BY TotalUnfolds DEF h
  <2>3. CASE T = {}
    BY <2>1, <2>2, <2>3 DEF Adds
  <2>4. CASE T # {}
    <3> DEFINE U == T \ {PickOf(T)}
    <3>1. U \in SUBSET V /\ U # V /\ U \subseteq T
      BY <2>4, PickIsIn
    <3> DEFINE k == CHOOSE k : Adds(k, f, U)
    <3>2. Adds(k, f, U)
      BY <1>1, <3>1
    <3> HIDE DEF k
    <3>3. Total(f, U) = k[U]
      BY TotalUnfolds DEF k
    <3>4. IsFiniteSet(T)
      BY FS_Subset
    <3>5. k[U] = h[U]
      <4> HIDE DEF U
      <4> QED BY <2>1, <3>1, <3>2, <3>4, FS_Subset, AddsAgree
    <3>6. h[T] = f[PickOf(T)] + h[U]
      BY <2>1, <2>4 DEF Adds
    <3>7. QED BY <2>2, <2>4, <3>3, <3>5, <3>6
  <2>5. QED BY <2>3, <2>4
<1>3. \A T \in SUBSET V : g[T] = IF T = {} THEN 0 ELSE f[PickOf(T)] + g[T \ {PickOf(T)}]
  <2> SUFFICES ASSUME NEW T \in SUBSET V, T # {}
               PROVE  g[T] = f[PickOf(T)] + g[T \ {PickOf(T)}]
    OBVIOUS
  <2>1. T \ {PickOf(T)} \in SUBSET V /\ T \ {PickOf(T)} # V
    BY PickIsIn
  <2>2. Total(f, T \ {PickOf(T)}) = g[T \ {PickOf(T)}]
    BY <1>2, <2>1
  <2>3. QED BY <2>2
<1>4. Adds(g, f, V)
  BY <1>3 DEF Adds
<1>5. QED BY <1>1, <1>4

LEMMA TotalEmpty == ASSUME NEW f PROVE Total(f, {}) = 0
<1>1. PICK g : Adds(g, f, {})
  BY AddsExists, FS_EmptySet
<1>2. Adds(CHOOSE h : Adds(h, f, {}), f, {})
  BY <1>1
<1>3. QED BY <1>2, TotalUnfolds DEF Adds

LEMMA TotalPick ==
    ASSUME NEW f, NEW S, IsFiniteSet(S), S # {}
    PROVE  Total(f, S) = f[PickOf(S)] + Total(f, S \ {PickOf(S)})
<1> DEFINE U == S \ {PickOf(S)}
           h == CHOOSE h : Adds(h, f, S)
           k == CHOOSE k : Adds(k, f, U)
<1>1. IsFiniteSet(U)
  BY FS_Subset
<1>2. Adds(h, f, S) /\ Adds(k, f, U)
  BY <1>1, AddsExists
<1>3. Total(f, S) = h[S] /\ Total(f, U) = k[U]
  BY TotalUnfolds
<1> HIDE DEF h, k
<1>4. k[U] = h[U]
  <2>1. U \in SUBSET S
    OBVIOUS
  <2> HIDE DEF U
  <2>2. QED BY <1>1, <1>2, <2>1, AddsAgree
<1>5. h[S] = f[PickOf(S)] + h[U]
  BY <1>2 DEF Adds
<1>6. QED BY <1>3, <1>4, <1>5

\* f is a number on S.
Counts(f, S) == \A x \in S : f[x] \in Nat

LEMMA TotalType ==
    ASSUME NEW f, NEW S, IsFiniteSet(S), Counts(f, S)
    PROVE  Total(f, S) \in Nat
<1> DEFINE W == {V \in SUBSET S : Total(f, V) \notin Nat}
<1> SUFFICES ASSUME W # {} PROVE FALSE
  OBVIOUS
<1>1. PICK V \in W : \A U \in W : U \subseteq V => U = V
  <2>1. W \subseteq SUBSET S
    OBVIOUS
  <2> HIDE DEF W
  <2>2. QED BY <2>1, LeastSet
<1>2. V # {} /\ IsFiniteSet(V)
  <2>1. Total(f, {}) \in Nat
    BY TotalEmpty
  <2>2. V # {}
    BY <1>1, <2>1, Zenon
  <2>3. QED BY <1>1, <2>2, FS_Subset
<1> DEFINE U == V \ {PickOf(V)}
<1>3. Total(f, U) \in Nat /\ f[PickOf(V)] \in Nat
  BY <1>1, <1>2, PickIsIn DEF Counts
<1>4. Total(f, V) = f[PickOf(V)] + Total(f, U)
  BY <1>2, TotalPick
<1>5. QED BY <1>1, <1>3, <1>4

\* Any element can be taken out of a sum.
LEMMA TotalRemove ==
    ASSUME NEW f, NEW S, IsFiniteSet(S), Counts(f, S), NEW x \in S
    PROVE  Total(f, S) = f[x] + Total(f, S \ {x})
<1> DEFINE W == {V \in SUBSET S : \E y \in V : Total(f, V) # f[y] + Total(f, V \ {y})}
<1> SUFFICES ASSUME W # {} PROVE FALSE
  OBVIOUS
<1>1. PICK V \in W : \A U \in W : U \subseteq V => U = V
  <2>1. W \subseteq SUBSET S
    OBVIOUS
  <2> HIDE DEF W
  <2>2. QED BY <2>1, LeastSet
<1>2. PICK y \in V : Total(f, V) # f[y] + Total(f, V \ {y})
  BY <1>1
<1> DEFINE p == PickOf(V)
<1>3. p \in V /\ V \subseteq S /\ IsFiniteSet(V)
  BY <1>1, PickIsIn, FS_Subset
<1> HIDE DEF W, p
<1>4. Total(f, V) = f[p] + Total(f, V \ {p})
  BY <1>2, <1>3, TotalPick DEF p
<1>5. p # y
  BY <1>2, <1>4
<1>6. ASSUME NEW v \in V, NEW w \in V \ {v}
      PROVE  Total(f, V \ {v}) = f[w] + Total(f, (V \ {v}) \ {w})
  <2>1. V \ {v} \in SUBSET S /\ V \ {v} \subseteq V /\ V \ {v} # V
    BY <1>3
  <2>2. V \ {v} \notin W
    BY <1>1, <2>1
  <2>3. QED BY <1>6, <2>1, <2>2, Zenon DEF W
<1>7. /\ Total(f, V \ {p}) = f[y] + Total(f, (V \ {p}) \ {y})
      /\ Total(f, V \ {y}) = f[p] + Total(f, (V \ {y}) \ {p})
  BY <1>3, <1>5, <1>6
<1>8. (V \ {y}) \ {p} = (V \ {p}) \ {y}
  OBVIOUS
<1>9. f[p] \in Nat /\ f[y] \in Nat /\ Total(f, (V \ {p}) \ {y}) \in Nat
  <2>1. Counts(f, (V \ {p}) \ {y}) /\ IsFiniteSet((V \ {p}) \ {y})
    BY <1>3, FS_Subset DEF Counts
  <2>2. QED BY <1>3, <2>1, TotalType DEF Counts
<1>10. \A i, j, k \in Nat : i + (j + k) = j + (i + k)
  OBVIOUS
<1>11. f[p] + (f[y] + Total(f, (V \ {p}) \ {y})) = f[y] + (f[p] + Total(f, (V \ {p}) \ {y}))
  BY <1>9, <1>10
<1>12. QED BY <1>2, <1>4, <1>7, <1>8, <1>11

\* What exceeds g by at most a everywhere exceeds its sum by at most a for each.
LEMMA TotalWithin ==
    ASSUME NEW f, NEW g, NEW S, IsFiniteSet(S), Counts(f, S), Counts(g, S), NEW a \in Nat,
           \A x \in S : f[x] <= g[x] + a
    PROVE  Total(f, S) <= Total(g, S) + a * Cardinality(S)
<1> DEFINE W == {V \in SUBSET S : ~(Total(f, V) <= Total(g, V) + a * Cardinality(V))}
<1> SUFFICES ASSUME W # {} PROVE FALSE
  OBVIOUS
<1>1. PICK V \in W : \A U \in W : U \subseteq V => U = V
  <2>1. W \subseteq SUBSET S
    OBVIOUS
  <2> HIDE DEF W
  <2>2. QED BY <2>1, LeastSet
<1>2. V # {}
  <2>1. Total(f, {}) <= Total(g, {}) + a * Cardinality({})
    BY TotalEmpty, FS_EmptySet
  <2>2. QED BY <1>1, <2>1, Zenon
<1> DEFINE p == PickOf(V)
           U == V \ {p}
<1>3. /\ p \in V /\ V \subseteq S /\ IsFiniteSet(V) /\ IsFiniteSet(U)
      /\ U \subseteq S /\ U \notin W
  BY <1>1, <1>2, PickIsIn, FS_Subset
<1>4. Total(f, U) <= Total(g, U) + a * Cardinality(U)
  BY <1>3
<1>5. ~(Total(f, V) <= Total(g, V) + a * Cardinality(V))
  BY <1>1
<1> HIDE DEF W, p
<1>6. Total(f, V) = f[p] + Total(f, U) /\ Total(g, V) = g[p] + Total(g, U)
  BY <1>2, <1>3, TotalPick DEF p
<1>7. /\ Total(f, U) \in Nat /\ Total(g, U) \in Nat
      /\ f[p] \in Nat /\ g[p] \in Nat /\ f[p] <= g[p] + a
  BY <1>3, TotalType DEF Counts
<1>8. Cardinality(V) = Cardinality(U) + 1 /\ Cardinality(U) \in Nat
  BY <1>3, FS_RemoveElement, FS_CardinalityType
<1>9. a * Cardinality(V) = a * Cardinality(U) + a /\ a * Cardinality(U) \in Nat
  <2>1. \A n \in Nat : a * (n + 1) = a * n + a /\ a * n \in Nat
    OBVIOUS
  <2>2. QED BY <1>8, <2>1
<1>10. \A fu, gu, fp, gp, au \in Nat :
         fu <= gu + au /\ fp <= gp + a => fp + fu <= gp + gu + (au + a)
  OBVIOUS
<1>11. f[p] + Total(f, U) <= g[p] + Total(g, U) + (a * Cardinality(U) + a)
  BY <1>4, <1>7, <1>9, <1>10
<1>12. QED BY <1>5, <1>6, <1>9, <1>11

LEMMA TotalMonotone ==
    ASSUME NEW f, NEW g, NEW S, IsFiniteSet(S), Counts(f, S), Counts(g, S),
           \A x \in S : f[x] <= g[x]
    PROVE  Total(f, S) <= Total(g, S)
<1>1. \A x \in S : f[x] <= g[x] + 0
  BY DEF Counts
<1>2. Total(f, S) <= Total(g, S) + 0 * Cardinality(S)
  BY <1>1, TotalWithin
<1>3. \A m, n, k \in Nat : m <= n + 0 * k => m <= n
  OBVIOUS
<1>4. QED BY <1>2, <1>3, TotalType, FS_CardinalityType

LEMMA TotalSame ==
    ASSUME NEW f, NEW g, NEW S, IsFiniteSet(S), Counts(f, S), \A x \in S : f[x] = g[x]
    PROVE  Total(f, S) = Total(g, S)
<1>1. Counts(g, S) /\ \A x \in S : f[x] <= g[x] /\ g[x] <= f[x]
  BY DEF Counts
<1>2. Total(f, S) <= Total(g, S) /\ Total(g, S) <= Total(f, S)
  BY <1>1, TotalMonotone
<1>3. QED BY <1>1, <1>2, TotalType

\* The same number everywhere.
LEMMA TotalConstant ==
    ASSUME NEW f, NEW S, IsFiniteSet(S), NEW a \in Nat, \A x \in S : f[x] = a
    PROVE  Total(f, S) = Cardinality(S) * a
<1> DEFINE W == {V \in SUBSET S : Total(f, V) # Cardinality(V) * a}
<1> SUFFICES ASSUME W # {} PROVE FALSE
  OBVIOUS
<1>1. PICK V \in W : \A U \in W : U \subseteq V => U = V
  <2>1. W \subseteq SUBSET S
    OBVIOUS
  <2> HIDE DEF W
  <2>2. QED BY <2>1, LeastSet
<1>2. V # {}
  <2>1. Total(f, {}) = Cardinality({}) * a
    BY TotalEmpty, FS_EmptySet
  <2>2. QED BY <1>1, <2>1, Zenon
<1> DEFINE p == PickOf(V)
           U == V \ {p}
<1>3. /\ p \in V /\ V \subseteq S /\ IsFiniteSet(V) /\ IsFiniteSet(U) /\ U \notin W
  BY <1>1, <1>2, PickIsIn, FS_Subset
<1>4. Total(f, U) = Cardinality(U) * a /\ Total(f, V) # Cardinality(V) * a
  BY <1>1, <1>3
<1> HIDE DEF W, p
<1>5. Total(f, V) = a + Total(f, U)
  BY <1>2, <1>3, TotalPick DEF p
<1>6. Cardinality(V) = Cardinality(U) + 1 /\ Cardinality(U) \in Nat
  BY <1>3, FS_RemoveElement, FS_CardinalityType
<1>7. \A n \in Nat : (n + 1) * a = a + n * a
  OBVIOUS
<1>8. QED BY <1>4, <1>5, <1>6, <1>7
-----------------------------------------------------------------------------
(* How much overlapping requests can get out of a batch.                   *)

\* A set of numbers has a least member.
LEMMA LeastNumber ==
    ASSUME NEW W, W \subseteq Nat, W # {}
    PROVE  \E m \in W : \A n \in W : ~(n < m)
<1> DEFINE less == {ss \in Nat \X Nat : ss[1] < ss[2]}
<1>1. IsWellFoundedOn(less, Nat)
  BY NatLessThanWellFounded DEF OpToRel
<1>2. \E m \in W : \A n \in W : <<n, m>> \notin less
  <2> HIDE DEF less
  <2> QED BY WFMin, <1>1
<1>3. PICK m \in W : \A n \in W : <<n, m>> \notin less
  BY <1>2
<1>4. ASSUME NEW n \in W, n < m PROVE FALSE
  <2>1. n \in Nat /\ m \in Nat
    OBVIOUS
  <2>2. <<n, m>> \in less
    BY <1>4, <2>1
  <2>3. QED BY <1>3, <2>2
<1>5. QED BY <1>3, <1>4

Width == Cardinality(Request)

LEMMA WidthType == Width \in Nat
  BY RequestAssumption, FS_CardinalityType DEF Width

\* g is RaceBudget on 0..k.
Races(g, k) == g = [n \in 0..k |-> IF n = 0 THEN 0 ELSE Width * (1 + g[n - 1])]

LEMMA RacesExists == \A k \in Nat : \E g : Races(g, k)
<1> DEFINE W == {k \in Nat : ~\E g : Races(g, k)}
<1> SUFFICES ASSUME W # {} PROVE FALSE
  OBVIOUS
<1>1. PICK k \in W : \A n \in W : ~(n < k)
  <2>1. W \subseteq Nat
    OBVIOUS
  <2> HIDE DEF W
  <2>2. QED BY <2>1, LeastNumber
<1>2. k \in Nat /\ ~\E g : Races(g, k)
  BY <1>1
<1>3. k # 0
  <2> SUFFICES ASSUME k = 0 PROVE FALSE
    OBVIOUS
  <2> DEFINE g == [n \in 0..k |-> 0]
  <2>1. g = [n \in 0..k |-> IF n = 0 THEN 0 ELSE Width * (1 + g[n - 1])]
    BY <1>2
  <2>2. Races(g, k)
    BY <2>1 DEF Races
  <2>3. QED BY <1>2, <2>2
<1>4. PICK h : Races(h, k - 1)
  <2>1. k - 1 \in Nat /\ k - 1 < k
    BY <1>2, <1>3
  <2>2. QED BY <1>1, <2>1
<1> DEFINE g == [n \in 0..k |-> IF n = 0 THEN 0 ELSE Width * (1 + h[n - 1])]
<1>5. \A n \in 0..(k - 1) : g[n] = h[n]
  BY <1>2, <1>3, <1>4 DEF Races
<1>6. \A n \in 0..k : n # 0 => n - 1 \in 0..(k - 1)
  BY <1>2, <1>3
<1>7. g = [n \in 0..k |-> IF n = 0 THEN 0 ELSE Width * (1 + g[n - 1])]
  <2>1. \A n \in 0..k : n # 0 => g[n - 1] = h[n - 1]
    BY <1>5, <1>6
  <2>2. QED BY <2>1
<1>8. Races(g, k)
  BY <1>7 DEF Races
<1>9. QED BY <1>2, <1>8

LEMMA RaceBudgetUnfolds ==
    /\ RaceBudget[0] = 0
    /\ \A n \in 1..BatchSize : RaceBudget[n] = Width * (1 + RaceBudget[n - 1])
<1>1. PICK g : Races(g, BatchSize)
  BY RacesExists
<1>2. RaceBudget = CHOOSE h : Races(h, BatchSize)
  BY DEF RaceBudget, Races, Width
<1>3. Races(RaceBudget, BatchSize)
  BY <1>1, <1>2
<1>4. QED BY <1>3 DEF Races

LEMMA RaceBudgetType == \A n \in 0..BatchSize : RaceBudget[n] \in Nat
<1> DEFINE W == {n \in 0..BatchSize : RaceBudget[n] \notin Nat}
<1> SUFFICES ASSUME W # {} PROVE FALSE
  OBVIOUS
<1>1. PICK k \in W : \A n \in W : ~(n < k)
  <2>1. W \subseteq Nat
    OBVIOUS
  <2> HIDE DEF W
  <2>2. QED BY <2>1, LeastNumber
<1>2. k # 0 /\ k \in 0..BatchSize
  BY <1>1, RaceBudgetUnfolds
<1>3. k - 1 \in 0..BatchSize /\ k - 1 < k
  BY <1>2
<1>4. RaceBudget[k - 1] \in Nat
  BY <1>1, <1>3
<1>5. \A w, n \in Nat : w * (1 + n) \in Nat
  OBVIOUS
<1>6. RaceBudget[k] \in Nat
  BY <1>2, <1>4, <1>5, RaceBudgetUnfolds, WidthType
<1>7. QED BY <1>1, <1>6

\* What a stored array of k codes can still pay for, once it has been read.
Worth(k) == IF k = 0 THEN 0 ELSE 1 + RaceBudget[k - 1]

LEMMA WorthType == \A k \in 0..BatchSize : Worth(k) \in Nat
  BY RaceBudgetType DEF Worth

\* A request spends one code and leaves an array, one shorter, to all of them.
LEMMA WorthStep ==
    /\ \A k \in 0..BatchSize : Width * Worth(k) = RaceBudget[k]
    /\ \A k \in 1..BatchSize : Worth(k) = 1 + Width * Worth(k - 1)
<1>1. \A k \in 0..BatchSize : Width * Worth(k) = RaceBudget[k]
  <2>1. Width * 0 = 0
    BY WidthType
  <2>2. QED BY <2>1, RaceBudgetUnfolds DEF Worth
<1>2. \A k \in 1..BatchSize : k - 1 \in 0..BatchSize /\ Worth(k) = 1 + RaceBudget[k - 1]
  BY DEF Worth
<1>3. QED BY <1>1, <1>2

\* What request q can still get out of batch b of which n codes are stored: the
\* login it is about to open, the array it is about to write, the one stored.
Larger(m, n) == IF m < n THEN n ELSE m
Slice(C, b) == Cardinality(C \cap Batch(b))
Claim(q, n, b) ==
    IF q.code \notin Batch(b) THEN Worth(n)
    ELSE IF q.pc = "issue" THEN 1 + Worth(n)
    ELSE Larger(Worth(Slice(q.seen, b)), Worth(n))

Claims(b) == [r \in Request |-> Claim(req[r], Slice(codes, b), b)]
Paid(b) == Total(used, Batch(b))
WithinBudget(b) == Paid(b) + Total(Claims(b), Request) <= RaceBudget[BatchSize]

\* Requests that overlap may bring an older batch back, but never a mixture.
OneBatch == \A c, d \in codes : c[1] = d[1]

\* Arrays hold codes of one batch, that has been handed out, and a code at hand
\* is one of the array that it was found in.
Handed ==
    /\ OneBatch /\ \A c \in codes : c[1] <= batches
    /\ \A c \in Code : c[1] > batches => used[c] = 0
    /\ \A r \in Request :
        /\ req[r].code # NoCode => /\ req[r].pc \in {"spend", "issue"}
                                   /\ req[r].code[1] <= batches
        /\ req[r].pc = "spend" => /\ req[r].code \in req[r].seen
                                  /\ \A c \in req[r].seen : c[1] = req[r].code[1]

BudgetInv == Handed /\ \A b \in 1..MaxBatch : WithinBudget(b)

LEMMA BatchFacts ==
    ASSUME NEW b \in 1..MaxBatch
    PROVE  /\ Batch(b) \subseteq Code /\ NoCode \notin Batch(b)
           /\ \A c \in Code : c \in Batch(b) <=> c[1] = b
           /\ IsFiniteSet(Batch(b)) /\ Cardinality(Batch(b)) = BatchSize
<1>1. /\ Batch(b) \subseteq Code /\ NoCode \notin Batch(b)
      /\ \A c \in Code : c \in Batch(b) <=> c[1] = b
  <2>1. Batch(b) \subseteq Code
    BY DEF Batch, Code
  <2>2. NoCode \notin Batch(b)
    BY DEF Batch, NoCode
  <2>3. \A c \in Code : c \in Batch(b) <=> c[1] = b
    BY DEF Batch, Code
  <2>4. QED BY <2>1, <2>2, <2>3
<1>2. IsFiniteSet({b}) /\ Cardinality({b}) = 1
  BY FS_Singleton
<1>3. IsFiniteSet(1..BatchSize) /\ Cardinality(1..BatchSize) = BatchSize
  <2>1. 1 \in Int /\ BatchSize \in Int /\ ~(1 > BatchSize) /\ BatchSize - 1 + 1 = BatchSize
    OBVIOUS
  <2>2. QED BY <2>1, FS_Interval
<1>4. IsFiniteSet(Batch(b)) /\ Cardinality(Batch(b)) = 1 * BatchSize
  <2> DEFINE I == {b}
             J == 1..BatchSize
  <2>1. IsFiniteSet(I) /\ IsFiniteSet(J) /\ Cardinality(I) = 1 /\ Cardinality(J) = BatchSize
    BY <1>2, <1>3
  <2>2. Batch(b) = I \X J
    BY DEF Batch
  <2> HIDE DEF I, J
  <2>3. IsFiniteSet(I \X J) /\ Cardinality(I \X J) = 1 * BatchSize
    BY <2>1, FS_Product
  <2>4. QED BY <2>2, <2>3, Zenon
<1>5. 1 * BatchSize = BatchSize
  OBVIOUS
<1>6. QED BY <1>1, <1>4, <1>5

LEMMA SliceType ==
    ASSUME NEW C, NEW b \in 1..MaxBatch
    PROVE  Slice(C, b) \in 0..BatchSize /\ IsFiniteSet(C \cap Batch(b))
<1>1. C \cap Batch(b) \subseteq Batch(b)
  OBVIOUS
<1>2. IsFiniteSet(C \cap Batch(b)) /\ Cardinality(C \cap Batch(b)) <= BatchSize
  BY <1>1, BatchFacts, FS_Subset
<1>3. QED BY <1>2, FS_CardinalityType DEF Slice

\* A claim is at least what is stored; storing something else adds at most that.
LEMMA ClaimFacts ==
    ASSUME NEW q, NEW b \in 1..MaxBatch, NEW m \in 0..BatchSize, NEW n \in 0..BatchSize
    PROVE  /\ Claim(q, n, b) \in Nat /\ Worth(n) <= Claim(q, n, b)
           /\ Claim(q, m, b) <= Claim(q, n, b) + Worth(m)
<1>1. Worth(m) \in Nat /\ Worth(n) \in Nat /\ Worth(Slice(q.seen, b)) \in Nat
  BY SliceType, WorthType
<1>2. QED BY <1>1 DEF Claim, Larger

LEMMA WorthOfNone == Worth(0) = 0
  BY DEF Worth

LEMMA BudgetTypes ==
    ASSUME Numbers, NEW b \in 1..MaxBatch
    PROVE  /\ Counts(used, Batch(b)) /\ Paid(b) \in Nat
           /\ Counts(Claims(b), Request) /\ Total(Claims(b), Request) \in Nat
<1>1. Counts(used, Batch(b))
  BY BatchFacts DEF Numbers, Counts
<1>2. Counts(Claims(b), Request)
  BY SliceType, ClaimFacts DEF Counts, Claims
<1>3. QED BY <1>1, <1>2, BatchFacts, RequestAssumption, TotalType DEF Paid

\* Nothing is paid and no claim grows.
LEMMA ClaimsKeep ==
    ASSUME Numbers, Numbers', NEW b \in 1..MaxBatch, WithinBudget(b), used' = used,
           \A r \in Request : Claim(req'[r], Slice(codes', b), b) <= Claim(req[r], Slice(codes, b), b)
    PROVE  WithinBudget(b)'
<1> DEFINE old == Claims(b)
           new == Claims(b)'
<1>1. Counts(old, Request) /\ Counts(new, Request)
  <2>1. Slice(codes', b) \in 0..BatchSize
    BY SliceType
  <2>2. QED BY <2>1, BudgetTypes, ClaimFacts DEF Counts, Claims
<1>2. \A r \in Request : new[r] <= old[r]
  BY DEF Claims
<1> HIDE DEF old, new
<1>3. Total(new, Request) <= Total(old, Request)
  BY <1>1, <1>2, RequestAssumption, TotalMonotone
<1>4. Total(new, Request) \in Nat /\ Total(old, Request) \in Nat
  BY <1>1, RequestAssumption, TotalType
<1>5. Paid(b) \in Nat /\ Paid(b)' = Paid(b)
  BY BudgetTypes DEF Paid
<1>6. Paid(b) + Total(old, Request) <= RaceBudget[BatchSize]
  BY DEF WithinBudget, old
<1>7. RaceBudget[BatchSize] \in Nat
  BY RaceBudgetType
<1>8. Paid(b) + Total(new, Request) <= RaceBudget[BatchSize]
  BY <1>3, <1>4, <1>5, <1>6, <1>7
<1>9. QED BY <1>5, <1>8 DEF WithinBudget, new

\* A request that has no code at hand any more, or is where it was.
Calm(p) == req'[p] = req[p] \/ (req'[p].code = NoCode /\ req'[p].pc # "spend")

LEMMA CalmClaims ==
    ASSUME Numbers, NEW b \in 1..MaxBatch, NEW p \in Request, Calm(p), NEW n \in 0..BatchSize,
           n = Slice(codes, b) \/ n = 0
    PROVE  Claim(req'[p], n, b) <= Claim(req[p], Slice(codes, b), b)
<1> DEFINE m == Slice(codes, b)
<1>1. m \in 0..BatchSize /\ 0 \in 0..BatchSize
  <2>1. 0 \in 0..BatchSize
    OBVIOUS
  <2>2. QED BY <2>1, SliceType
<1>2. /\ Claim(req[p], n, b) \in Nat /\ Claim(req[p], m, b) \in Nat
      /\ Worth(n) <= Claim(req[p], n, b)
      /\ n = 0 => Claim(req[p], n, b) <= Claim(req[p], m, b) + Worth(n)
  BY <1>1, ClaimFacts
<1>3. Claim(req[p], n, b) <= Claim(req[p], m, b)
  <2>1. CASE n = 0
    BY <1>2, <2>1, WorthOfNone
  <2>2. CASE n = m
    BY <1>2, <2>2
  <2>3. QED BY <2>1, <2>2
<1>4. CASE req'[p] = req[p]
  BY <1>3, <1>4
<1>5. CASE req'[p].code = NoCode
  <2>1. Claim(req'[p], n, b) = Worth(n)
    BY <1>5, BatchFacts DEF Claim
  <2>2. Worth(n) \in Nat
    BY WorthType
  <2>3. \A i, j, k \in Nat : i <= j /\ j <= k => i <= k
    OBVIOUS
  <2>4. QED BY <1>2, <1>3, <2>1, <2>2, <2>3
<1>6. QED BY <1>4, <1>5 DEF Calm

\* Nothing is stored and nothing is paid.
LEMMA QuietKeeps ==
    ASSUME Numbers, Numbers', BudgetInv, UNCHANGED <<codes, batches, used>>,
           \A p \in Request : Calm(p)
    PROVE  BudgetInv'
<1>1. Handed'
  BY DEF BudgetInv, Handed, OneBatch, Calm
<1>2. ASSUME NEW b \in 1..MaxBatch PROVE WithinBudget(b)'
  <2>1. Slice(codes', b) = Slice(codes, b) /\ Slice(codes, b) \in 0..BatchSize
    BY SliceType
  <2>2. \A p \in Request : Claim(req'[p], Slice(codes', b), b) <= Claim(req[p], Slice(codes, b), b)
    BY <2>1, CalmClaims
  <2>3. QED BY <2>2, ClaimsKeep DEF BudgetInv
<1>3. QED BY <1>1, <1>2 DEF BudgetInv

\* A new batch replaces the codes, or they are removed.
LEMMA StoreKeeps ==
    ASSUME Numbers, Numbers', BudgetInv, used' = used, \A p \in Request : Calm(p),
           \/ batches' = batches + 1 /\ codes' = Batch(batches + 1)
           \/ batches' = batches /\ codes' = {}
    PROVE  BudgetInv'
<1>0. batches \in 0..MaxBatch /\ batches' \in 0..MaxBatch /\ codes' \subseteq Code
  BY DEF Numbers
<1>1. Handed'
  <2>1. OneBatch' /\ \A c \in codes' : c[1] <= batches'
    BY <1>0 DEF OneBatch, Batch
  <2>2. batches <= batches' /\ \A c \in Code : c[1] > batches' => c[1] > batches
    BY <1>0 DEF Code
  <2>3. \A c \in Code : c[1] > batches' => used'[c] = 0
    BY <2>2 DEF BudgetInv, Handed
  <2>4. ASSUME NEW p \in Request
        PROVE  /\ req'[p].code # NoCode => /\ req'[p].pc \in {"spend", "issue"}
                                           /\ req'[p].code[1] <= batches'
               /\ req'[p].pc = "spend" => /\ req'[p].code \in req'[p].seen
                                          /\ \A c \in req'[p].seen : c[1] = req'[p].code[1]
    <3>1. CASE req'[p] = req[p]
      <4>1. req[p].code \in Code \cup {NoCode}
        BY DEF Numbers, ReqState
      <4>2. req[p].code # NoCode => req[p].code[1] \in Nat /\ req[p].code[1] <= batches
        BY <4>1 DEF BudgetInv, Handed, Code
      <4>3. req[p].code # NoCode => req[p].code[1] <= batches'
        BY <1>0, <2>2, <4>2
      <4>4. QED BY <3>1, <4>3 DEF BudgetInv, Handed
    <3>2. CASE req'[p].code = NoCode /\ req'[p].pc # "spend"
      BY <3>2
    <3>3. QED BY <3>1, <3>2 DEF Calm
  <2>5. QED BY <2>1, <2>3, <2>4 DEF Handed
<1>2. ASSUME NEW b \in 1..MaxBatch, codes' \cap Batch(b) = {} PROVE WithinBudget(b)'
  <2>1. Slice(codes', b) = 0 /\ 0 \in 0..BatchSize
    BY <1>2, FS_EmptySet DEF Slice
  <2>2. \A p \in Request : Claim(req'[p], Slice(codes', b), b) <= Claim(req[p], Slice(codes, b), b)
    BY <2>1, CalmClaims
  <2>3. QED BY <2>2, ClaimsKeep DEF BudgetInv
<1>3. ASSUME NEW b \in 1..MaxBatch, codes' = Batch(b), b = batches + 1 PROVE WithinBudget(b)'
  <2>1. Slice(codes', b) = BatchSize /\ BatchSize \in 0..BatchSize
    <3>1. codes' \cap Batch(b) = Batch(b)
      BY <1>3
    <3>2. Slice(codes', b) = BatchSize
      BY <3>1, BatchFacts DEF Slice
    <3>3. BatchSize \in 0..BatchSize
      OBVIOUS
    <3>4. QED BY <3>2, <3>3
  <2>2. ASSUME NEW p \in Request PROVE Claim(req'[p], BatchSize, b) = Worth(BatchSize)
    <3>1. req'[p].code # NoCode => req[p].code = req'[p].code
      BY DEF Calm
    <3>2. req[p].code \in Code => req[p].code[1] \in Nat
      BY DEF Code
    <3>3. req[p].code \in Code /\ req[p].code # NoCode => req[p].code[1] # b
      BY <1>0, <1>3, <3>2 DEF BudgetInv, Handed
    <3>4. req[p].code \in Code \cup {NoCode}
      BY DEF Numbers, ReqState
    <3>5. req'[p].code \notin Batch(b)
      BY <3>1, <3>3, <3>4, BatchFacts
    <3>6. QED BY <3>5 DEF Claim
  <2>3. \A p \in Request : Claims(b)'[p] = Worth(BatchSize)
    BY <2>1, <2>2 DEF Claims
  <2> DEFINE new == Claims(b)'
  <2>4. Total(new, Request) = Width * Worth(BatchSize)
    <3> HIDE DEF new
    <3>1. Worth(BatchSize) \in Nat
      BY <2>1, WorthType
    <3>2. \A p \in Request : new[p] = Worth(BatchSize)
      BY <2>3 DEF new
    <3>3. QED BY <3>1, <3>2, RequestAssumption, TotalConstant DEF Width
  <2>5. \A c \in Batch(b) : used[c] = 0
    BY <1>0, <1>3, BatchFacts DEF BudgetInv, Handed
  <2>6. Paid(b)' = 0
    <3>1. Total(used, Batch(b)) = Cardinality(Batch(b)) * 0
      BY <2>5, BatchFacts, TotalConstant
    <3>2. QED BY <3>1, BatchFacts DEF Paid
  <2>7. RaceBudget[BatchSize] \in Nat /\ Width * Worth(BatchSize) = RaceBudget[BatchSize]
    BY <2>1, RaceBudgetType, WorthStep
  <2>8. QED BY <2>4, <2>6, <2>7 DEF WithinBudget
<1>4. ASSUME NEW b \in 1..MaxBatch PROVE WithinBudget(b)'
  <2>1. CASE batches' = batches /\ codes' = {}
    BY <1>2, <2>1
  <2>2. CASE batches' = batches + 1 /\ codes' = Batch(batches + 1)
    <3>1. CASE b = batches + 1
      BY <1>3, <2>2, <3>1
    <3>2. CASE b # batches + 1
      <4>1. Batch(batches + 1) \cap Batch(b) = {}
        BY <3>2 DEF Batch
      <4>2. QED BY <1>2, <2>2, <4>1
    <3>3. QED BY <3>1, <3>2
  <2>3. QED BY <2>1, <2>2
<1>5. QED BY <1>1, <1>4 DEF BudgetInv

\* A stored code matches: the array is remembered.
LEMMA BackupKeeps ==
    ASSUME Numbers, Numbers', BudgetInv, UNCHANGED <<codes, batches, used>>,
           NEW r \in Request, NEW c \in codes,
           req'[r].pc = "spend" /\ req'[r].code = c /\ req'[r].seen = codes,
           \A p \in Request \ {r} : req'[p] = req[p], req[r].code = NoCode
    PROVE  BudgetInv'
<1>1. Handed'
  <2>1. c \in Code /\ c[1] <= batches /\ \A d \in codes : d[1] = c[1]
    BY DEF BudgetInv, Handed, OneBatch, Numbers
  <2>2. OneBatch' /\ (\A d \in codes' : d[1] <= batches')
        /\ \A d \in Code : d[1] > batches' => used'[d] = 0
    BY DEF BudgetInv, Handed, OneBatch
  <2>3. ASSUME NEW p \in Request
        PROVE  /\ req'[p].code # NoCode => /\ req'[p].pc \in {"spend", "issue"}
                                           /\ req'[p].code[1] <= batches'
               /\ req'[p].pc = "spend" => /\ req'[p].code \in req'[p].seen
                                          /\ \A d \in req'[p].seen : d[1] = req'[p].code[1]
    <3>1. CASE p = r
      BY <2>1, <3>1
    <3>2. CASE p # r
      BY <3>2 DEF BudgetInv, Handed
    <3>3. QED BY <3>1, <3>2
  <2>4. QED BY <2>2, <2>3 DEF Handed
<1>2. ASSUME NEW b \in 1..MaxBatch PROVE WithinBudget(b)'
  <2> DEFINE n == Slice(codes, b)
  <2>1. n \in 0..BatchSize /\ Slice(codes', b) = n
    BY SliceType
  <2>2. Worth(n) \in Nat
    BY <2>1, WorthType
  <2>3. Claim(req[r], n, b) = Worth(n)
    BY BatchFacts DEF Claim
  <2>4. Claim(req'[r], n, b) = Worth(n)
    BY DEF Claim, Larger
  <2>5. \A p \in Request : Claim(req'[p], n, b) <= Claim(req[p], n, b)
    BY <2>1, <2>2, <2>3, <2>4, ClaimFacts
  <2>6. QED BY <2>1, <2>5, ClaimsKeep DEF BudgetInv
<1>3. QED BY <1>1, <1>2 DEF BudgetInv

\* The code pays: the request gives up one login of its claim.
LEMMA IssueKeeps ==
    ASSUME Numbers, Numbers', BudgetInv, UNCHANGED <<codes, batches>>,
           NEW r \in Request, NEW c \in Code, req[r].pc = "issue", req[r].code = c,
           used' = [used EXCEPT ![c] = used[c] + 1],
           req'[r].pc = "idle" /\ req'[r].code = NoCode,
           \A p \in Request \ {r} : req'[p] = req[p]
    PROVE  BudgetInv'
<1>0. /\ used \in [Code -> 0..MaxUse] /\ c # NoCode
      /\ used'[c] = used[c] + 1 /\ \A d \in Code \ {c} : used'[d] = used[d]
  BY DEF Numbers, Code, NoCode
<1>1. Handed'
  <2>1. c[1] <= batches /\ c[1] \in Nat /\ batches \in Nat
    BY <1>0 DEF BudgetInv, Handed, Code, Numbers
  <2>2. OneBatch' /\ \A d \in codes' : d[1] <= batches'
    BY DEF BudgetInv, Handed, OneBatch
  <2>3. \A d \in Code : d[1] > batches => d # c
    BY <2>1
  <2>4. \A d \in Code : d[1] > batches' => used'[d] = 0
    BY <1>0, <2>3 DEF BudgetInv, Handed
  <2>5. ASSUME NEW p \in Request
        PROVE  /\ req'[p].code # NoCode => /\ req'[p].pc \in {"spend", "issue"}
                                           /\ req'[p].code[1] <= batches'
               /\ req'[p].pc = "spend" => /\ req'[p].code \in req'[p].seen
                                          /\ \A d \in req'[p].seen : d[1] = req'[p].code[1]
    BY DEF BudgetInv, Handed
  <2>6. QED BY <2>2, <2>4, <2>5 DEF Handed
<1>2. ASSUME NEW b \in 1..MaxBatch, c \notin Batch(b) PROVE WithinBudget(b)'
  <2>1. Slice(codes', b) = Slice(codes, b) /\ Slice(codes, b) \in 0..BatchSize
    BY SliceType
  <2>2. \A p \in Request : Calm(p)
    BY DEF Calm
  <2>3. \A p \in Request : Claim(req'[p], Slice(codes, b), b) <= Claim(req[p], Slice(codes, b), b)
    BY <2>1, <2>2, CalmClaims
  <2> DEFINE old == Claims(b)
             new == Claims(b)'
  <2>4. Counts(old, Request) /\ Counts(new, Request) /\ \A p \in Request : new[p] <= old[p]
    <3>1. Counts(new, Request)
      BY <2>1, ClaimFacts DEF Counts, Claims
    <3>2. QED BY <2>1, <2>3, <3>1, BudgetTypes DEF Claims
  <2>5. Total(new, Request) <= Total(old, Request)
    <3> HIDE DEF old, new
    <3>1. QED BY <2>4, RequestAssumption, TotalMonotone
  <2>6. Paid(b)' = Paid(b)
    <3> DEFINE now == used'
    <3>1. \A d \in Batch(b) : used[d] = now[d]
      BY <1>0, <1>2, BatchFacts
    <3>2. IsFiniteSet(Batch(b)) /\ Counts(used, Batch(b))
      BY BatchFacts, BudgetTypes
    <3> HIDE DEF now
    <3>3. Total(used, Batch(b)) = Total(now, Batch(b))
      BY <3>1, <3>2, TotalSame
    <3>4. QED BY <3>3 DEF Paid, now
  <2>7. Total(new, Request) \in Nat
    <3> HIDE DEF old, new
    <3>1. QED BY <2>4, RequestAssumption, TotalType
  <2>8. /\ Paid(b) \in Nat /\ Total(old, Request) \in Nat /\ RaceBudget[BatchSize] \in Nat
        /\ Paid(b) + Total(old, Request) <= RaceBudget[BatchSize]
    BY BudgetTypes, RaceBudgetType DEF BudgetInv, WithinBudget
  <2> HIDE DEF old
  <2>9. QED BY <2>5, <2>6, <2>7, <2>8 DEF WithinBudget
<1>3. ASSUME NEW b \in 1..MaxBatch, c \in Batch(b) PROVE WithinBudget(b)'
  <2> DEFINE n == Slice(codes, b)
             old == Claims(b)
             new == Claims(b)'
             S == Request \ {r}
  <2>1. n \in 0..BatchSize /\ Slice(codes', b) = n /\ Worth(n) \in Nat
    BY SliceType, WorthType
  <2>2. old[r] = 1 + Worth(n) /\ new[r] = Worth(n)
    BY <1>3, <2>1, BatchFacts DEF Claims, Claim
  <2>3. \A p \in S : old[p] = new[p]
    BY <2>1 DEF Claims
  <2>4. Counts(old, Request) /\ Counts(new, Request) /\ IsFiniteSet(S) /\ Counts(old, S)
    <3>1. Counts(new, Request)
      BY <2>1, ClaimFacts DEF Counts, Claims
    <3>2. Counts(old, Request) /\ IsFiniteSet(S)
      BY BudgetTypes, RequestAssumption, FS_Subset
    <3>3. QED BY <3>1, <3>2 DEF Counts
  <2> HIDE DEF old, new
  <2>5. Total(old, Request) = old[r] + Total(old, S) /\ Total(new, Request) = new[r] + Total(new, S)
    BY <2>4, RequestAssumption, TotalRemove
  <2>6. Total(old, S) = Total(new, S) /\ Total(old, S) \in Nat
    <3> HIDE DEF S
    <3>1. QED BY <2>3, <2>4, TotalSame, TotalType
  <2>7. Paid(b)' = 1 + Paid(b)
    <3> DEFINE now == used'
               D == Batch(b) \ {c}
    <3>1. IsFiniteSet(Batch(b)) /\ Counts(used, Batch(b)) /\ Counts(now, Batch(b))
      BY BatchFacts, BudgetTypes DEF Numbers, Counts
    <3>2. IsFiniteSet(D) /\ Counts(used, D)
      BY <3>1, FS_Subset DEF Counts
    <3>3. now[c] = used[c] + 1 /\ used[c] \in Nat /\ \A d \in D : used[d] = now[d]
      BY <1>0, BatchFacts
    <3> HIDE DEF now
    <3>4. /\ Total(used, Batch(b)) = used[c] + Total(used, D)
          /\ Total(now, Batch(b)) = now[c] + Total(now, D)
      BY <1>3, <3>1, TotalRemove
    <3>5. Total(used, D) = Total(now, D) /\ Total(used, D) \in Nat
      <4> HIDE DEF D
      <4>1. QED BY <3>2, <3>3, TotalSame, TotalType
    <3>6. Total(now, Batch(b)) = 1 + Total(used, Batch(b))
      BY <3>3, <3>4, <3>5
    <3>7. QED BY <3>6 DEF Paid, now
  <2>8. /\ Paid(b) \in Nat /\ RaceBudget[BatchSize] \in Nat
        /\ Paid(b) + Total(old, Request) <= RaceBudget[BatchSize]
    BY BudgetTypes, RaceBudgetType DEF BudgetInv, WithinBudget, old
  <2>9. \A i, j, k \in Nat : (1 + i) + (j + k) = i + ((1 + j) + k)
    OBVIOUS
  <2>10. Paid(b)' + Total(new, Request) = Paid(b) + Total(old, Request)
    BY <2>1, <2>2, <2>5, <2>6, <2>7, <2>8, <2>9
  <2>11. QED BY <2>8, <2>10 DEF WithinBudget, new
<1>4. QED BY <1>1, <1>2, <1>3 DEF BudgetInv

\* The array that was read comes back without one code: everybody may read it
\* now, but the request gives up the claim to write it.
LEMMA SpendKeeps ==
    ASSUME Numbers, Numbers', BudgetInv, UNCHANGED <<batches, used>>,
           NEW r \in Request, NEW c, req[r].code = c, req[r].pc = "spend",
           codes' = req[r].seen \ {c}, req'[r].pc = "issue" /\ req'[r].code = c,
           \A p \in Request \ {r} : req'[p] = req[p]
    PROVE  BudgetInv'
<1>0. /\ c \in Code /\ c # NoCode /\ c[1] <= batches
      /\ req[r].seen \subseteq Code /\ c \in req[r].seen
      /\ \A d \in req[r].seen : d[1] = c[1]
  <2>1. c \in req[r].seen /\ \A d \in req[r].seen : d[1] = c[1]
    BY DEF BudgetInv, Handed
  <2>2. req[r].seen \subseteq Code
    BY DEF Numbers, ReqState
  <2>3. c \in Code /\ c # NoCode
    BY <2>1, <2>2 DEF Code, NoCode
  <2>4. QED BY <2>1, <2>2, <2>3 DEF BudgetInv, Handed
<1>1. Handed'
  <2>1. /\ OneBatch' /\ (\A d \in codes' : d[1] <= batches')
        /\ \A d \in Code : d[1] > batches' => used'[d] = 0
    BY <1>0 DEF BudgetInv, Handed, OneBatch
  <2>2. ASSUME NEW p \in Request
        PROVE  /\ req'[p].code # NoCode => /\ req'[p].pc \in {"spend", "issue"}
                                           /\ req'[p].code[1] <= batches'
               /\ req'[p].pc = "spend" => /\ req'[p].code \in req'[p].seen
                                          /\ \A d \in req'[p].seen : d[1] = req'[p].code[1]
    <3>1. CASE p = r
      BY <1>0, <3>1
    <3>2. CASE p # r
      BY <3>2 DEF BudgetInv, Handed
    <3>3. QED BY <3>1, <3>2
  <2>3. QED BY <2>1, <2>2 DEF Handed
<1>2. ASSUME NEW b \in 1..MaxBatch, c[1] # b PROVE WithinBudget(b)'
  <2>1. codes' \cap Batch(b) = {} /\ c \notin Batch(b)
    BY <1>0, <1>2, BatchFacts
  <2>2. Slice(codes', b) = 0 /\ 0 \in 0..BatchSize
    BY <2>1, FS_EmptySet DEF Slice
  <2>3. Slice(codes, b) \in 0..BatchSize
    BY SliceType
  <2>4. ASSUME NEW p \in Request
        PROVE  Claim(req'[p], 0, b) <= Claim(req[p], Slice(codes, b), b)
    <3>1. CASE p = r
      <4>1. Claim(req'[r], 0, b) = 0
        BY <2>1, WorthOfNone DEF Claim
      <4>2. Claim(req[r], Slice(codes, b), b) \in Nat
        BY <2>2, <2>3, ClaimFacts
      <4>3. QED BY <3>1, <4>1, <4>2
    <3>2. CASE p # r
      <4>1. Calm(p)
        BY <3>2 DEF Calm
      <4>2. QED BY <2>2, <4>1, CalmClaims
    <3>3. QED BY <3>1, <3>2
  <2>5. QED BY <2>2, <2>4, ClaimsKeep DEF BudgetInv
<1>3. ASSUME NEW b \in 1..MaxBatch, c[1] = b PROVE WithinBudget(b)'
  <2> DEFINE m == Slice(req[r].seen, b)
             n == Slice(codes, b)
             w == Worth(m - 1)
             old == Claims(b)
             new == Claims(b)'
             S == Request \ {r}
  <2>1. c \in Batch(b)
    BY <1>0, <1>3, BatchFacts
  <2>2. m \in 0..BatchSize /\ n \in 0..BatchSize
    BY SliceType
  <2>3. Slice(codes', b) = m - 1 /\ m # 0
    <3> DEFINE T == req[r].seen \cap Batch(b)
    <3>1. codes' \cap Batch(b) = T \ {c} /\ c \in T
      BY <1>0, <2>1
    <3>2. IsFiniteSet(T)
      BY SliceType
    <3>3. Cardinality(T) = m
      BY DEF Slice
    <3>4. Cardinality(T \ {c}) = Cardinality(T) - 1
      <4> HIDE DEF T
      <4>1. QED BY <3>1, <3>2, FS_RemoveElement
    <3>5. IsFiniteSet(T \ {c})
      BY <3>2, FS_Subset
    <3>6. Cardinality(T \ {c}) \in Nat
      BY <3>5, FS_CardinalityType
    <3>7. Slice(codes', b) = Cardinality(T \ {c})
      BY <3>1 DEF Slice
    <3> HIDE DEF T
    <3>8. QED BY <2>2, <3>3, <3>4, <3>6, <3>7
  <2>4. m - 1 \in 0..BatchSize /\ m \in 1..BatchSize
    BY <2>2, <2>3
  <2>5. w \in Nat /\ Worth(m) \in Nat /\ Worth(n) \in Nat /\ Worth(m) = 1 + Width * w
    BY <2>2, <2>4, WorthType, WorthStep
  <2>6. new[r] = 1 + w
    BY <2>1, <2>3 DEF Claims, Claim
  <2>7. Worth(m) <= old[r]
    BY <2>1, <2>5 DEF Claims, Claim, Larger
  <2>8. \A p \in S : new[p] <= old[p] + w
    <3>1. \A p \in S : Claim(req[p], m - 1, b) <= Claim(req[p], n, b) + Worth(m - 1)
      BY <2>2, <2>4, ClaimFacts
    <3>2. \A p \in S : new[p] = Claim(req[p], m - 1, b) /\ old[p] = Claim(req[p], n, b)
      BY <2>3 DEF Claims
    <3>3. QED BY <3>1, <3>2
  <2>9. Counts(old, Request) /\ Counts(new, Request)
    <3>1. \A p \in Request : Claim(req'[p], m - 1, b) \in Nat
      BY <2>4, ClaimFacts
    <3>2. Counts(new, Request)
      BY <2>3, <3>1 DEF Counts, Claims
    <3>3. QED BY <3>2, BudgetTypes
  <2>10. IsFiniteSet(S) /\ Counts(old, S) /\ Counts(new, S)
    BY <2>9, RequestAssumption, FS_Subset DEF Counts
  <2>11. Width = Cardinality(S) + 1 /\ Cardinality(S) \in Nat
    <3>1. Cardinality(S) = Cardinality(Request) - 1
      BY RequestAssumption, FS_RemoveElement
    <3>2. Cardinality(S) \in Nat /\ Cardinality(Request) \in Nat
      BY <2>10, RequestAssumption, FS_CardinalityType
    <3> HIDE DEF S
    <3>3. QED BY <3>1, <3>2 DEF Width
  <2> HIDE DEF old, new, w, m, n
  <2>12. Total(old, Request) = old[r] + Total(old, S) /\ Total(new, Request) = new[r] + Total(new, S)
    BY <2>9, RequestAssumption, TotalRemove
  <2> HIDE DEF S
  <2>13. Total(new, S) <= Total(old, S) + w * Cardinality(S)
    BY <2>5, <2>8, <2>10, TotalWithin
  <2>14. Total(new, S) \in Nat /\ Total(old, S) \in Nat /\ old[r] \in Nat
    BY <2>9, <2>10, TotalType DEF Counts
  <2>15. Width * w = w * Cardinality(S) + w /\ w * Cardinality(S) \in Nat
    <3>1. \A i, j \in Nat : (j + 1) * i = i * j + i /\ i * j \in Nat
      OBVIOUS
    <3>2. QED BY <2>5, <2>11, <3>1
  <2>16. Total(new, Request) <= Total(old, Request) /\ Total(new, Request) \in Nat
    <3>1. \A i, j, k, v, u \in Nat : i <= j + u /\ 1 + (u + v) <= k => (1 + v) + i <= k + j
      OBVIOUS
    <3>2. 1 + (w * Cardinality(S) + w) <= old[r]
      BY <2>5, <2>7, <2>15
    <3>3. (1 + w) + Total(new, S) <= old[r] + Total(old, S)
      BY <2>5, <2>13, <2>14, <2>15, <3>1, <3>2
    <3>4. QED BY <2>5, <2>6, <2>12, <2>14, <3>3
  <2>17. /\ Paid(b) \in Nat /\ Paid(b)' = Paid(b) /\ Total(old, Request) \in Nat
         /\ RaceBudget[BatchSize] \in Nat
         /\ Paid(b) + Total(old, Request) <= RaceBudget[BatchSize]
    BY BudgetTypes, RaceBudgetType DEF BudgetInv, WithinBudget, Paid, old
  <2>18. Paid(b) + Total(new, Request) <= RaceBudget[BatchSize]
    BY <2>16, <2>17
  <2>19. QED BY <2>17, <2>18 DEF WithinBudget, new
<1>4. QED BY <1>1, <1>2, <1>3 DEF BudgetInv

LEMMA BudgetStep == ASSUME TypeOK, TypeOK', BudgetInv, [Next]_vars PROVE BudgetInv'
<1>0. /\ Numbers /\ Numbers' /\ req \in [Request -> ReqState] /\ codes \subseteq Code
      /\ pending \in 0..MaxSecret
      /\ \A r \in Request : req[r].code # NoCode => req[r].pc \in {"spend", "issue"}
  BY DEF TypeOK, Numbers, ReqState, BudgetInv, Handed
<1>1. ASSUME NEW r \in Request,
             \/ SetupStart(r) \/ SetupDelete(r) \/ VerifyAdmit(r) \/ VerifyUnconfigured(r)
             \/ VerifyTotp(r) \/ VerifyWrong(r) \/ RegenerateStart(r) \/ DisableStart(r) \/ Crash(r)
      PROVE  BudgetInv'
  <2>1. UNCHANGED <<codes, batches, used>>
    BY <1>1 DEF SetupStart, SetupDelete, VerifyAdmit, VerifyUnconfigured, VerifyTotp, VerifyWrong,
       RegenerateStart, DisableStart, Crash, account, generated
  <2>2. CASE SetupStart(r) \/ SetupDelete(r)
    BY <1>0, <2>1, <2>2, SetupMoves, FinishMoves, QuietKeeps DEF SetupDelete, Calm
  <2>3. CASE VerifyAdmit(r) \/ RegenerateStart(r) \/ DisableStart(r)
    BY <1>0, <2>1, <2>3, StartMoves, QuietKeeps
    DEF VerifyAdmit, RegenerateStart, DisableStart, Calm, Pc
  <2>4. CASE VerifyTotp(r)
    BY <1>0, <2>1, <2>4, GotoMoves, QuietKeeps DEF VerifyTotp, Compare, Calm, Pc
  <2>5. CASE VerifyUnconfigured(r) \/ VerifyWrong(r) \/ Crash(r)
    BY <1>0, <2>1, <2>5, FinishMoves, QuietKeeps DEF VerifyUnconfigured, VerifyWrong, Crash, Calm
  <2>6. QED BY <1>1, <2>2, <2>3, <2>4, <2>5
<1>2. CASE LoginPassed \/ TokensExpire \/ SetupInit \/ PendingExpires \/ VerifyRefuse
           \/ WindowExpires \/ UNCHANGED vars
  <2>1. UNCHANGED <<codes, batches, used, req>>
    BY <1>2 DEF LoginPassed, TokensExpire, SetupInit, PendingExpires, VerifyRefuse,
       WindowExpires, account, generated, vars
  <2>2. QED BY <1>0, <2>1, QuietKeeps DEF Calm
<1>3. ASSUME NEW r \in Request, SetupStore(r) \/ Regenerate(r) \/ Disable(r) PROVE BudgetInv'
  <2>1. /\ req[r].pc \in {"setup", "regenerate", "disable"} /\ used' = used
        /\ \/ batches' = batches + 1 /\ codes' = Batch(batches + 1)
           \/ batches' = batches /\ codes' = {}
    BY <1>3 DEF SetupStore, Regenerate, Disable, generated
  <2>2. \A p \in Request : Calm(p)
    BY <1>0, <1>3, <2>1, GotoMoves, FinishMoves DEF SetupStore, Regenerate, Disable, Calm, Pc
  <2>3. QED BY <1>0, <2>1, <2>2, StoreKeeps
<1>4. ASSUME NEW r \in Request, NEW c \in Code, VerifyBackup(r, c) PROVE BudgetInv'
  <2>1. UNCHANGED <<codes, batches, used>> /\ c \in codes /\ req[r].pc = "verify"
    BY <1>4 DEF VerifyBackup, Compare, account, generated
  <2>2. /\ req'[r].pc = "spend" /\ req'[r].code = c /\ req'[r].seen = codes
        /\ \A p \in Request \ {r} : req'[p] = req[p]
    BY <1>0, <1>4, BackupMoves
  <2>3. QED BY <1>0, <2>1, <2>2, BackupKeeps
<1>5. ASSUME NEW r \in Request, Spend(r) PROVE BudgetInv'
  <2> DEFINE c == req[r].code
  <2>1. /\ req[r].pc = "spend" /\ codes' = req[r].seen \ {c} /\ UNCHANGED <<batches, used>>
    BY <1>5 DEF Spend, generated
  <2>2. /\ req'[r].pc = "issue" /\ req'[r].code = c /\ \A p \in Request \ {r} : req'[p] = req[p]
    BY <1>0, <1>5, GotoMoves DEF Spend, Pc
  <2>3. QED BY <1>0, <2>1, <2>2, SpendKeeps
<1>6. ASSUME NEW r \in Request, Issue(r) PROVE BudgetInv'
  <2> DEFINE c == req[r].code
  <2>1. /\ req[r].pc = "issue" /\ c \in Code \cup {NoCode} /\ UNCHANGED <<codes, batches>>
        /\ \/ c = NoCode /\ used' = used
           \/ c # NoCode /\ used' = [used EXCEPT ![c] = used[c] + 1]
    BY <1>0, <1>6 DEF Issue, account, generated, ReqState
  <2>2. /\ req'[r].pc = "idle" /\ req'[r].code = NoCode /\ \A p \in Request \ {r} : req'[p] = req[p]
    BY <1>0, <1>6, FinishMoves DEF Issue
  <2>3. CASE c = NoCode /\ used' = used
    BY <1>0, <2>1, <2>2, <2>3, QuietKeeps DEF Calm
  <2>4. CASE c # NoCode /\ used' = [used EXCEPT ![c] = used[c] + 1]
    <3>1. c \in Code
      BY <2>1, <2>4
    <3>2. QED BY <1>0, <2>1, <2>2, <2>4, <3>1, IssueKeeps
  <2>5. QED BY <2>1, <2>3, <2>4
<1>7. QED
  BY <1>1, <1>2, <1>3, <1>4, <1>5, <1>6 DEF Next, Setup, Verify, Manage

LEMMA BudgetInit == ASSUME Init PROVE BudgetInv
<1>1. Numbers
  BY InitType DEF TypeOK, Numbers, ReqState
<1>2. \A r \in Request : req[r].pc = "idle" /\ req[r].code = NoCode
  BY AtRest DEF Init
<1>3. Handed
  BY <1>2 DEF Init, Handed, OneBatch
<1>4. ASSUME NEW b \in 1..MaxBatch PROVE WithinBudget(b)
  <2>1. Slice(codes, b) = 0
    <3>1. codes \cap Batch(b) = {}
      BY DEF Init
    <3>2. QED BY <3>1, FS_EmptySet DEF Slice
  <2>2. \A r \in Request : Claims(b)[r] = 0
    BY <1>2, <2>1, BatchFacts, WorthOfNone DEF Claims, Claim
  <2>3. Total(Claims(b), Request) = Width * 0
    <3> DEFINE old == Claims(b)
    <3>1. \A r \in Request : old[r] = 0
      BY <2>2
    <3> HIDE DEF old
    <3>2. Total(old, Request) = Width * 0
      BY <3>1, RequestAssumption, TotalConstant DEF Width
    <3>3. QED BY <3>2 DEF old
  <2>4. Paid(b) = BatchSize * 0
    <3>1. \A c \in Batch(b) : used[c] = 0
      BY BatchFacts DEF Init
    <3>2. QED BY <3>1, BatchFacts, TotalConstant DEF Paid
  <2>5. RaceBudget[BatchSize] \in Nat
    BY RaceBudgetType
  <2>6. Width * 0 = 0 /\ BatchSize * 0 = 0
    BY WidthType
  <2>7. QED BY <2>3, <2>4, <2>5, <2>6 DEF WithinBudget
<1>5. QED BY <1>3, <1>4 DEF BudgetInv

\* Backup codes run out (mfaVerify): whatever overlaps, a batch pays for no
\* more logins than RaceBudget[BatchSize], for any number of requests.
THEOREM BudgetTheorem == Spec => []BatchBudget
<1>1. TypeOK /\ BudgetInv => BatchBudget
  <2> SUFFICES ASSUME TypeOK, BudgetInv, NEW b \in 1..MaxBatch
               PROVE  Paid(b) <= RaceBudget[BatchSize]
    BY DEF BatchBudget, Paid, Total
  <2>1. Numbers
    BY DEF TypeOK, Numbers, ReqState
  <2>2. /\ Paid(b) \in Nat /\ Total(Claims(b), Request) \in Nat /\ RaceBudget[BatchSize] \in Nat
        /\ Paid(b) + Total(Claims(b), Request) <= RaceBudget[BatchSize]
    BY <2>1, BudgetTypes, RaceBudgetType DEF BudgetInv, WithinBudget
  <2>3. QED BY <2>2
<1>2. QED BY <1>1, BudgetInit, BudgetStep, TypeCorrect, PTL DEF Spec
============================
