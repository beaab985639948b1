# metaflow in TLA+

metaflow is a monorepo for managing Meta (Facebook) ads: a NestJS API
(`apps/api`), a Next.js front end (`apps/web`), a Prisma schema
(`packages/database`) and Zod schemas (`packages/shared-types`). This directory
holds TLA+ models of the parts of API and front end where state lives in more
than one place and requests run into each other, the TLC configurations that
check them on small instances, and TLAPS proofs about fourteen of them. Paths below
are under `apps/api/src/` unless they say otherwise; `web/` is `apps/web/src/`.

## The system

State is kept in five places that no transaction spans:

* **Postgres**, through Prisma. Most handlers read a row, do something slow
  (bcrypt, a call to Meta) and write the row by its id. A `$transaction` with an
  array or a callback is atomic; two statements outside one are not. Isolation
  is Read Committed.
* **Redis**, through ioredis with a key prefix: the access-token blacklist, the
  counters of failed logins and failed MFA, pending MFA secrets, OAuth states,
  cached permissions.
* **BullMQ** queues (also in Redis) for mail and audit records, three attempts.
* **The Meta Graph API**, the truth about campaigns and tokens. It fails, answers
  late, and is changed by people who use Meta's own tools.
* **The browser**: a refresh cookie that all tabs share, an access token in the
  memory of each tab, and the query cache of react-query.

Every `await` lets other requests in, and there may be several API processes. A
process may die between any two awaits. So in the models a handler is a *request
slot* `req[r]` with a program counter; one action is what happens between two
awaits that matter, and a `Crash(r)` action drops the rest of a handler.

### Components

| component | state | operations | what is hard | what makes it correct |
|---|---|---|---|---|
| Sessions (`auth/services/session.service.ts`, `auth.service.ts`, `jwt.strategy.ts`, `session/`) | `Session` rows, `access_blacklist:` keys | create, rotate, revoke, revoke all, logout, reset, change, cleanup cron | replayed and overlapping refreshes, sids that are out of date, pruning under running handlers | spent tokens stay spent; ended logins stay ended; rows are reclaimed |
| MFA (`auth.service.ts`, `mfa.service.ts`, `users.controller.ts`) | `User.mfaSecret`, `mfaBackupCodes`, `mfa_setup:`, `failed_mfa:` | set up, verify, regenerate, disable | an array read, compared for a second and written back as a whole | a code pays once; guesses are bounded |
| Login lockout (`auth.service.ts`, `auth-rate-limit.service.ts`) | `failed_login:` counter, `User.lockedUntil` | login, reset | two stores, two clocks, logins in flight | the overshoot is bounded; a lock that ends gives a full set of attempts |
| Onboarding (`auth.service.ts`, `organizations/`, `invitations/`) | users, organizations, memberships, invitations | register, accept, invite | racing transactions, failures half way | one organization per user, an owner per organization, no seat without invitation |
| Permission cache (`permissions/`) | `perm:` keys over memberships | resolve, invalidate | fills in flight, invalidation that finds nothing | what is cached is what the memberships give |
| Meta connections (`meta/meta-connections.service.ts` and controllers) | `MetaConnection`, `meta_oauth_state:` keys, tokens at Meta | OAuth callback, rotate, disconnect, ad-account sync | single-use states, calls of Meta between read and write | REVOKED stays until OAuth; ACTIVE means usable |
| Campaign cache (`meta/campaigns.service.ts`, `real-meta-api-client.ts`) | `Campaign` rows against Meta | sync, create, update, delete | old listings, answers out of order, cascades | DELETED means deleted; a sync repairs |
| Ad sets, ads, creatives (`meta/adsets.service.ts`, `ads.service.ts`, `creatives.service.ts`) | their rows against Meta, the creative of an ad in both places | sync, create, update, delete | as campaigns; no handler sees both references of an ad at once | DELETED means deleted; a sync repairs; no running ad loses its creative |
| Insights (`meta/insights.service.ts`) | daily snapshots | three syncs, lists, totals | corrections of past days, pages of an answer, snapshots under rows that go away | a sync leaves Meta's figures; ranges add up |
| Roles, guards, routes (`packages/database/src/data/`, `auth/guards/`, the controllers) | none of their own: tables that must fit together | who may call what | three lists of permissions: catalogue, roles, routes | duties stay split |
| Pages (`web/app`, `web/components`) | the query cache | queries, controls, invalidations | a fourth list, in `useCan`; answers older than what has been done | a page works for whoever sees it; what has been done shows |
| Account tokens and mail (`auth.service.ts`, `email/`) | token columns of `User`, mail jobs | verify, resend, forgot, reset; queue, retry | lookup and clearing are two steps, the mail is queued after the commit, mail is repeated or lost | a used link is dead; nobody is cut off from verifying |
| Session of the browser (`web/lib/api/client.ts`, `web/lib/auth/use-auth.ts`, `web/stores/`, `web/middleware.ts`) | access token per tab, refresh cookie | calls with silent refresh, bootstrap, sign-in, logout | several refreshes with one cookie, calls that hear of it late | a storm is one refresh; every call ends; logout leaves nothing |
| Audit trail, crypto, health, configuration | – | – | – | not modelled; see the end |

Interactions: onboarding writes the memberships that the permission cache is
computed from; MFA and lockout stand in front of the creation of a session; a
reset clears the lock and ends the sessions; a connection's account rows carry
the campaigns, which carry ad sets, ads and insights (cascading foreign keys); the
web client drives the refresh endpoint, and its pages ask the routes that the
roles decide about.

## The modules

| module | what it is |
|---|---|
| `Sessions` | The session table. A row, its refresh token and its access token are one `SessionId`, because they are made together. `life[s]` is the row with its `revokedAt` ("aged": revoked more than 14 days ago), `expired` those past `expiresAt`, `access` the unexpired JWTs, `blacklisted` the keys in Redis. `RefreshLive`/`RotateCommit` are the read and the transaction of `rotate`; `SetPassword`/`RevokeAll` the two writes of a reset or change; `LogoutRevoke`/`LogoutBlacklist` the two of a logout; `Cleanup` the cron job. History: `lineage` (which login and which slot a row comes from), `ended` (which families of logins someone asked to end, for the reasons in `Watched`). |
| `AtomicSessions` | What `SessionService` promises, without requests: every token is exchanged at most once, in one step, while it is live. |
| `SessionsProps` | The properties, the fairness and the refinement mapping from `Sessions` to `AtomicSessions`. |
| `MfaVerify` | One account's second factor. A backup code is a pair of batch and place; `VerifyAdmit` counts and admits, `VerifyTotp`/`VerifyBackup`/`VerifyWrong` compare against the array that was read, `Spend` writes the array back, `Issue` opens the session. |
| `LoginLockout` | One account's counter and lock, with a clock in ticks. `Read`, `Wrong`, `Expire`, `Record`, `Right`, `Clear` are the awaits of `login` and `recordFailedLogin`. |
| `Onboarding` | Registrations and invitations. The unique index on e-mail is modelled as Postgres does it (`Insert`); an organization bears its founder's e-mail. |
| `AccountTokens` | The verification and reset links of one account: `column` has the two token columns of the user's row, tokens numbered in the order of writing, `queue` and `mail` what is on its way and what has arrived. `WriteToken`/`Enqueue` are the two round trips of asking for a link, `Use`/`Commit` those of using one. |
| `PermissionCache` | Memberships, the cache, and the handlers that touch both, with the key prefix of ioredis (`Name`, `Stored`). |
| `MetaConnection` | OAuth states, connection rows in the order of their creation (`created`; `Surfaced` is the row that a workspace shows), and the tokens that Meta issues and accepts (`owner`, `live`). |
| `CampaignCache` | Campaigns at Meta (`remote`) and in the table (`local`) under the current ad-account row (`acct`); `touched` is history for `SyncIsExact`. |
| `AdHierarchy` | Ad sets, ads and creatives: `remote`/`local` as before, `uses[a]` and `ref[a]` the creative of an ad at Meta and in its row. Every handler is cut at its calls of Meta and at its statements; what a sync of ads looks up (`AdResolve`) and writes (`AdUpsert`) are two steps. |
| `Insights` | Figures at Meta and snapshots by object and day, the three syncs with one page per answer, and as operators the range check (`Accepted`), the lists (`Found`) and the totals (`TotalOf`). |
| `AccessControl` | The permission catalogue, the roles, `WorkspaceAccessGuard` and `PermissionGuard`, and every route with its permission and the tables it reads and writes. No state: operators. |
| `WebPages` | Every signed-in page as the set of its queries (key, route, permission, what must be there before) and of its controls (route, permission, keys invalidated). No state: operators. |
| `WebCache` | react-query over `WebPages`: one query at a time, the page that is open, and the uses of controls (`change`). `lacks` are the changes that the data shown do not have, `misses` those that the answer under way does not. Keys that other pages write are found through the tables of `AccessControl`. |
| `WebSession` | The cookie `jar`, per tab the store and the two kinds of refresh (`flight`, `boot`), and the calls of `apiFetch`. Of the API it has what `Sessions` has in detail: `live` refresh tokens, `good` access tokens, and the answer to a spent one. |
| `SessionsProofs`, `MfaVerifyProofs`, `PermissionCacheProofs`, `MetaConnectionProofs`, `CampaignCacheProofs`, `AdHierarchyProofs` | TLAPS proofs about the module (and its wrapper) of that name; `AdHierarchyProofs` also about `Insights`, `PermissionCacheProofs` also about `AccessControl` and `WebPages`. |
| `AccountsProofs` | TLAPS proofs about `AccountTokens`, `Onboarding` and `LoginLockout`, as the instances that `MCAccounts` makes of them. |
| `WebProofs` | TLAPS proofs about `WebCache` and, as the instance that `MCWeb` makes of it, `WebSession`. |
| `MC…` | Instances for TLC: symmetry, and for some a wrapper (next section). |

Definitions marked "Mutant:" in a comment are not part of any specification. Each
is a plausible bug in the action that follows it; with the action replaced by it,
TLC finds a property violated. They show that the properties can fail.

### Kinds of behaviours in one run

Several properties are promised only of requests that do not overlap, or as long
as no process dies. Rather than one instance per condition, a wrapper module adds
a constant-valued variable that is chosen in the initial state and restricts the
behaviours: `mode` in `MCMfaVerify`, `MCCampaignCache`, `MCMetaConnection`,
`MCAdHierarchy` and `MCWeb`, `part` and `alone` in `MCAccounts`, `calm` in
`MCSessionsAlone`. Components without common state share a run in this way
(`MCAccounts`, `MCAdHierarchy`, `MCWeb`): a behaviour belongs to one of them, and
the others stand still. A property whose name
begins with `Alone`, `Calm`, `Ours` or `Uncrashed` speaks of those behaviours; all
others of every behaviour. The condition is part of the statement, and where the
code breaks the property without it, that is listed under the divergences.

## The runs

| run | instance | shows |
|---|---|---|
| `sessions_concurrent` | 3 rows, 1 user, 2 slots | Whatever overlaps or dies: an exchanged token is never live again (`SpentStaysSpent`), a slot gets one session out of a token (`OneSessionPerPresenter`), a blacklisted jti has no live refresh token (`BlacklistedIsRevoked`), nothing is un-revoked (`RevocationIsFinal`). |
| `sessions_alone` | 3 rows, 1 user, 1 slot | One request at a time `Sessions` implements `AtomicSessions` (`Atomic`), crashes included; without crashes a reset and a theft response end every login of the user and what was rotated from it. |
| `sessions_liveness` | 2 rows, 2 slots, `FairSpec`, no symmetry | Every row is deleted in the end (`RowsAreReclaimed`), although each new revocation restarts its 14 days. |
| `mfa` | 2 slots; "overlap": 2 batches of 2 codes; "alone": 3 batches, 2 secrets; "batch": 1 batch, 7 logins per code | The limiter bounds the comparisons of a window (`GuessBudget`); a batch pays for a bounded number of logins although overlapping requests bring codes back (`BatchBudget`: the stored arrays form a tree of width `Request` and depth `BatchSize`); one at a time, a code pays once and the stored codes are of the batch handed out last (`AloneSingleUse`). |
| `accounts` | links: 3 slots, 2 of each kind; lock: 3 slots, limit 2, window 2, 5 ticks, 1 reset, 1 death; seats: 4 e-mails, 2 invitations, 3 slots of which 2 at once | A link that has done its work is dead (`SpentLinkIsDead`); an unverified account has its newest token in its column (`UnverifiedLinkIsLive`), whichever step dies; one request at a time the newest reset link works until it is used. How far the counter overshoots (`OvershootIsBounded`), and that a lock that has run out leaves a full set of attempts, a counter without TTL being the work of a death (`FreshAfterLock`). A user sits in one organization and founders keep theirs (`OneOrganizationEach`), seats and invitations go together (`AcceptedIsSeated`); registrations that do not overlap never share an invitation. |
| `permission_cache` | 2 users, 2 workspaces, 2 slots, the default prefix | A cached permission set is what the memberships give (`CacheIsExact`). With the roles that users come to have: every page works for whoever is let in, with the exception listed below (`PagesWork`), deletions at Meta, the connection and edits stay with those who run things, and a manager cannot make a sync replace the ad accounts, though a viewer can (`DutiesAreSplit`). |
| `meta` | 2 users, 1 workspace, 2 Meta users, 2 OAuth states, 2 slots, 3 tokens, `MCFairSpec` | Only a callback makes a REVOKED row ACTIVE, also when a rotate overlaps; a disconnect that goes to Meta ends REVOKED; one request at a time, an ACTIVE row at rest has a token Meta accepts. |
| `campaigns` | 3 campaigns (2 when requests overlap), 2 slots, 2 ad-account rows, pages of 4 | A sync that reaches its end has made exact every campaign nobody else changed meanwhile (`SyncIsExact`), whatever crashes left behind; one request at a time DELETED means deleted, for good; without crashes and others the cache is exact at rest. |
| `ad_hierarchy` | 1 ad set, 2 ads and 2 creatives (1 and 1 but for "ours"), 2 slots; insights: 2 campaigns or the ad set or an ad, 2 days, pages of 3 | What a sync guarantees at its end (`SyncIsExact`, `InsightsAreExact`), whatever overlaps, dies or is changed at Meta; foreign keys hold (`RowsAreWellFormed`); one request at a time DELETED means deleted and no running ad whose row knows its creative loses it (`AloneAdsKeepCreative`); without crashes and others the rows are exact at rest (`OursIsExact`); totals of adjacent ranges add up (`RangesAddUp`). |
| `web` | calm: 1 tab, 3 calls; alone: 1 tab; wild: 2 tabs with a call each, 1 stray; 4 tokens. Cache: each query of the pages, 2 uses of controls | A storm of 401s is one refresh and fails nobody (`CalmStormIsHarmless`); after a logout cookie, store and API have nothing left (`AloneLogoutEnds`); every call ends, whatever is lost (`EveryCallEnds`); what has been done shows (`OwnChangeShows`). |
| `sessions_one_rotation` | violation | `OneRotation`, below. |
| `campaign_insights` | violation | `InsightsStay`, below. |

### Bounds

* *Slots.* Two slots give every pairwise interleaving of handlers; the lockout
  has three because its overshoot counts logins. The proofs hold for any number.
* *Rows.* Three session rows: a login and two rotations of it, or two logins and
  a rotation, the least in which a replay, its victim and a bystander exist.
  Users of the session table do not interact; one is enough, and the proofs have
  any number.
* `MaxBatch`, `MaxSecret`, `MaxUse` (MFA): three batches let a batch be replaced
  twice. `MaxUse` bounds the logins counted per code. `BatchBudget` with two
  codes and two slots is 6, and `MaxUse` is 7: the bound can be exceeded within
  the instance.
* `MaxNow`, `MaxResets`, `MaxDeaths` (lockout): five ticks are two windows and
  one tick. `Limit` is 2 instead of 5: the first increment, which sets the TTL,
  and the last, which locks, are still different.
* `MaxToken` 2 (account tokens): a link and the one that replaces it. The attempts
  of a job are not counted: any attempt may be the last.
* `MaxToken` 3 (Meta): connect, rotate, and connect again after a disconnect.
  OAuth states are drawn once each.
* `MaxRow` 2 (campaigns): a row and its replacement. `PageSize` 4 is larger than
  the number of campaigns; what happens beyond a page is listed below.
* `PageSize` 3 (insights): a sync of two campaigns over two days does not fit a
  page, all others do. `MaxFigure` 1 and at most one corrected day: a figure and
  its correction. Ranges reach one day beyond the last, where nothing is found.
* Overlapping requests of `ad_hierarchy` are those on ads and creatives, below an
  ad set that has been synced; those on ad sets have the shape of the campaigns',
  whose overlaps the run `campaigns` has.
* `MaxToken` 4 (web): "calm" and "alone" start with the first token, "wild" with
  the third. The last token expires unused, so that a behaviour can end with
  nobody signed in. In "calm" tokens run out only while there are tokens left for
  the calls, or else the bound would fail them.
* `Change` 2 (web): a change, and one more while its refetch is under way. Pages
  that are the same to a query count as one (`Alike`).
* Where a run says CHECK_DEADLOCK FALSE it is because a bound stops the model,
  or because a run of the system may have nothing to do.

### Fairness

`SessionsProps!FairSpec`: time passes for every row (`AccessExpires`, `Expires`),
the cron job runs every hour (`Cleanup`), and a handler that has started goes on
(`Step`), because Node runs every continuation and Prisma's calls return or throw.
Nobody is obliged to send a request, so logins, refreshes and logouts are not
fair. `Expires` covers both the row's own date and the 14 days of a revoked row.

`MetaConnection!FairSpec` (and `MCFairSpec` of the wrapper): a handler that has
started goes on; a call of Meta answers or fails (`MetaFails`), since `fetch`
gives up by itself. There is no fairness of deaths, and `UncrashedLocalRevocation`
is stated of behaviours without them: a handler whose process dies does not end.

`WebSession!Fairness`: a call and a refresh that are under way go on, since `fetch`
comes back with an answer or throws, and what waits for it runs. Nothing is fair
about users, loads or losses. `EveryCallEnds` would fail if a call waited for a
refresh that never resolves.

## The proofs

Eight modules hold theorems, each for any values of the constants: any sets of
rows, users, campaigns, slots, tabs and calls, any limits and page sizes. Where a theorem has a
hypothesis (`ASSUME ... PROVE`), it is named here with what justifies it.

| module | theorems | of |
|---|---|---|
| `SessionsProofs` | `TypeCorrect`, `SpentTheorem`, `OneSessionPerPresenterTheorem`, `BlacklistTheorem`, `RevocationTheorem` | `Spec` |
| | `AtomicTheorem`, `CalmTheorem` | `CalmSpec`, with `OneSlot` |
| `MfaVerifyProofs` | `TypeCorrect`, `GuessTheorem`, `BudgetTheorem` | `Spec` |
| | `SingleUseTheorem` | `MCSpec` |
| `AccountsProofs` | `TypeCorrect`, `SpentTheorem`, `LiveTheorem` | `Spec` of `AccountTokens` |
| | `NewestResetTheorem`, `OneOrganizationTheorem`, `AcceptedTheorem`, `OneUserTheorem`, `OvershootTheorem`, `FreshTheorem` | `MCSpec` |
| | the lemmas `SeatsAlways`, `DatesAlways` | `Spec` of `Onboarding` and of `LoginLockout` |
| `PermissionCacheProofs` | `TypeCorrect`, `CacheTheorem`, `PagesTheorem`, `DutiesTheorem` | `Spec` |
| `MetaConnectionProofs` | `TypeCorrect`, `RevokedTheorem` | `Spec` |
| | `AloneTheorem` | `MCSpec`, with `OneWorkspace` |
| `CampaignCacheProofs` | `TypeCorrect` | `Spec` |
| | `SyncTheorem` | `Spec`, with `OnePage` |
| | `DeletedTheorem`, `FinalTheorem`, `SettledTheorem` | `MCSpec`, with `OnePage` |
| `AdHierarchyProofs` | `TypeCorrect`, `SyncTheorem` | `Spec` |
| | `DeletedTheorem`, `ExactTheorem`, `KeepsTheorem`, `RowsTheorem`, `InsightsTheorem`, `RangesTheorem` | `MCSpec` |
| | the lemma `FiguresAlways` | `Insights` by itself |
| `WebProofs` | `OwnChangeTheorem` | `Spec` of `WebCache` |
| | `SessionTypeTheorem`, `StormTheorem`, `LogoutTheorem`, `OwnChangeBesideTheorem` | `MCSpec` |

A property that the code keeps only of requests that do not overlap is proved of
the wrapper's specification (`MCSpec`, `CalmSpec`), where the condition is part of
the behaviour; these theorems too hold for any constants.

**Sessions.** `RevocationTheorem` follows from the lemma `LifeStep` about what a
step can do to the life of one row. `SpentTheorem`,
`OneSessionPerPresenterTheorem` and `BlacklistTheorem` come from an inductive
invariant `IInv`. None of the three is inductive as it stands. That a
child's parent is not live needs that unused rows have no lineage (a row that
is created must not already be a parent), that the row a request is rotating
was stored at some time, and that stamping is never undone. That a slot makes
one child per token needs to know where the slot was when it read the token:
the row was live, and had no child of this slot, or else it would be spent.
The blacklist needs that a request between the two writes of a logout has
stamped its row. `OneSlot` (all slots are the same) is the condition of
`sessions_alone`: two exchanges that overlap do break what follows.
`AtomicTheorem` is the refinement `CalmSpec => Atomic`: a step of a handler is a
step of `AtomicSessions` or a stutter, because the row that a rotation has read
live is live when it commits, or gone (`RotatingStep`), crashes included.
`CalmTheorem` follows the roots of the families: who owns them, which have been
ended, and that a handler between the new password and the sweep is the only one
at work, so that the sweep meets every row that grew out of them.

**MFA.** `GuessBudget` is an invariant over the comparisons made, those admitted
and the slots (`GuessInv`): each slot can be past the counter at most once when a
success deletes it. `SingleUseTheorem` says of one request at a time that the
stored array holds only unspent codes of the newest batch, and that the one
handler in flight has read exactly that array.

`BudgetTheorem` is about requests that do overlap. An array of `k` codes of a batch
is `Worth(k)` logins to a request that may still spend one: the one it pays for,
and what all slots together can get out of the array, one code shorter, that it
leaves (`RaceBudget[k - 1]`). `Claim` is what a slot may still get: the worth of
what is stored, which it could read next; of what it has read, if that is more and
a code of it is about to be spent; and one login more between the spending and the
session. The invariant `BudgetInv` says that the logins a batch has paid for and the
claims of all slots are at most `RaceBudget[BatchSize]`; it was checked on the
instance of the run before it was proved. A request that spends brings a longer
array back or not, but its own claim shrinks by what the stored array adds to those
of the others. `Handed` goes with it: arrays hold codes of one batch that has been
handed out (`OneBatch`: an older one can come back, a mixture cannot), and no later
code has paid for anything.

**Lockout.** `FreshTheorem` rests on the order of two dates in two stores: as long
as a lock holds, the counter expires no later than the lock, since whoever is in
flight when the lock falls ends within the tick. `OvershootTheorem` counts who
can still increment: while the account is open every increment beyond the limit
leaves a login about to lock; while it is locked, only logins that had read the
row before. `LockAssumption` says what the numbers are (naturals, limit and
window not 0) and that the slots are finite.

**Onboarding.** The unique index keeps an open transaction away from an e-mail
that has a row or is being inserted (`EmailsAreUnique`); an invitation names an
organization with its owner from the moment it is sent (`InvitationsLead`).
With these the two properties are inductive. `SeatsAssumption` says that `None`
is no e-mail, invitation or seat. The invariants of this part and of the lockout
are proved of the part by itself (`SeatsAlways`, `DatesAlways`), however many of
its requests overlap; a step of `MCNext` is a step of the part that moves and a
stutter of the others.

**Account tokens.** Tokens are numbered in the order of writing; the invariant
adds that what a request carries or a spent link names has been issued
(`RequestsKnow`, `SpentWasIssued`), so that what is written is new. One request
at a time, the reset column has the newest token or none, and the token that a
request is about to clear is that one (`NewestInColumn`).

**Permission cache.** `CacheTheorem` holds for *any prefix*. The
invariant says of every fill in flight that what it has read is still what the
memberships say (`FillsAreExact`), and of every entry that it is about a user
with an organization and a scope that exists (`EntriesAreExact`). The proof never
uses that `invalidate` deletes anything: in the code as it is, a membership is
committed together with the user or the workspace that it is about, and is never
changed, so no entry can get stale. The moment a handler changes a role, the
proof breaks, and so does the program, because of the finding about the prefix.

**Roles, guards and pages.** `PagesTheorem` and `DutiesTheorem` say of every state
that `PermissionCache` reaches, with any number of users and workspaces, what the
tables give for the two roles of a user. `GoodPanel` (every query and control of a
panel, if shown, calls a route that is granted) is kept by putting panels side by
side and below what must be there first, so a page is good if its queries and
controls are (`GoodRead`, `GoodUse`), one by one. Those without a `useCan` need a
permission that everybody inside has (`InsideReads`); with one, it is the one that
the route asks for (`ShownPasses`); the queries of the ad accounts are neither, and
are the exception (`LacksAccounts`). `FewerAre` says which permissions only those
who run things have, which managers have besides, and that those who are neither
administrators nor viewers lack `adaccount:read`; `WorkspaceRoute` says that the
two guards ask for exactly the permission of the route. `PermissionsAssumption`
says that `None` is no permission.

**Meta connections.** The invariant says what a handler carries: a row that
exists, and a token that was issued for the row's Meta user (`HandlerOK`). With it
`RevokedTheorem` is an action property of single steps. `AloneTheorem` adds that
nobody else is between a read and a write, and `OneWorkspace`, because a
disconnect in one workspace ends the tokens that another one stores (a
divergence, below).

**Campaigns.** The invariant of `Spec` is about what a handler holds in its record
while others work (`FlightOK`): the account row it read may be gone, and then it
writes nothing; the campaign it read may have changed at Meta, but one that is
known there stays known and one that is deleted stays deleted. `SyncOK` says of a
sync that it is right about every campaign nobody else has touched: its snapshot
is what Meta has, and so is what it has written. With one request at a time
(`AloneOK`) a row that says DELETED is of a campaign that Meta has deleted, and no
step takes that back. Without crashes and others (`OursOK`), every row is exact,
or its campaign is the one that the handler in flight is about to write. `OnePage`
(`Cardinality(Campaign) <= PageSize`) is what the code takes for granted when it
asks for one page of 250; beyond it the properties fail (below).

**Ad sets, ads and creatives.** The argument is that of the campaigns, with rows
that refer to each other. `FlightOK` has four parts: of what kind the object in
the record is (`KindOK`), which rows the handler may count on (`ParentOK`), what
it knows of Meta (`KnownOK`) and what its listing may hold (`ListingOK`). Rows go
away under a handler in two ways, which it finds out when it writes: a replaced
account row makes it `lost`, and `ParentOK` then promises nothing; a dropped
creative is missed by the foreign key. `SyncOK` has besides the status the creative
of each ad, which is the one at Meta, or none if that was not in the library when
it was looked up (`Chosen`): the lookup and the write of `AdsService` are two
steps. The part `Exact(o) \/ Carries(r, o)` of `OursOK` says that a row is exact or
about to be written by the one handler in flight, whose record then agrees with
Meta (`OursFlight`). `KindsAssumption` (three tables share no row) is needed to
tell the rows that a sync writes from the creatives that it looks up.

**Insights.** `ReadingsOK` says of a sync under way that, if one answer of Meta
holds all it asked for, it is right about every day that nobody else has written
or corrected since: it has read Meta's figure, and written it unless it has yet
to. That an answer that fits is complete (`AnswerIsAll`) is a fact about
cardinalities, for which the sets that are asked for must be finite:
`FiguresAssumption` (finitely many campaigns, and bounds that are naturals).
`FiguresAlways` proves it of the insights by themselves, for syncs of all levels
at once, where the runs have one level at a time. `RangesTheorem` needs of a state
only its types: the days of a range are those up to a cut and those after it
(`FoundSplits`), the rows of the workspace likewise, and a sum over disjoint sets is
the sum of the sums (`TotalUnion`).

**Sums.** Totals and budgets are folds over finite sets, which pick one element after
the other. That a sum does not depend on the order (`TotalRemove`) is an induction
over the set. It is done by contradiction: inclusion of finite sets is well founded,
so among the subsets for which a claim fails there is one of which no part fails
(`LeastSet`). The recursive function `RaceBudget` is unfolded in the same way, with a
least number (`LeastNumber`). These lemmas are stated where they are used, in
`MfaVerifyProofs` and in `AdHierarchyProofs`, and each of the two stands alone.

**The query cache.** A change is owed to the page (`Owed`) once its success has been
told and its control invalidates the key. The invariant `CacheInv` says that an
answer under way never lacks what is owed, that data which lack it are marked
(`Marked`), and that marked data on a page are being fetched unless that has failed
(`Held`). What remains is a control that invalidates nothing and leaves nothing
though it changes what the page shows. There is none: `PagesAssumption` says so of
the tables of `WebPages` and `AccessControl`, which are constants, and TLC
evaluates it over all of them. A page that forgets an invalidation makes it false.

**The session of the browser.** `SessionTypes` orders the tokens: none is anywhere
before it has been issued. For the storm, `OneExchange` says that a refresh under
way is the only one and carries the only live token, and `DeniedOnce` that a call
which was sent again has a token that will do. That no refresh is refused for want
of tokens, an artefact of the bound, is a count (`CalmInv`): the tokens issued, the
calls that have yet to hear that theirs ran out, and the refresh under way are at
most `MaxToken`. For the logout, `CookieIsTokens` says that as long as the API
accepts the token of the store, a live cookie is of the same session, and
`CallIsTokens` that a logout goes out with the token of the store; so the session
that it revokes is the one of the cookie. This is what a tab loses that refreshes
while it logs out (a divergence, below), and `OneCall` and `OneRefresh` rule that
out. `SessionAssumption` says that the tabs and calls that `MCWeb` names are
there, that the calls are finite, and that more than one token can be issued.

Apart from these hypotheses the proofs use the assumptions of the modules, each
of which TLC evaluates: `None` is none of the other constants and no permission, the
tables of the hierarchy share no row, campaigns are finitely many, `Watched` are reasons, `Prefix` is a string, bounds are naturals, and the slots of `MfaVerify`
and `LoginLockout`, which are counted, are finite.

### Only model-checked

* *Liveness* and everything under fairness: `RowsAreReclaimed`,
  `UncrashedLocalRevocation`, `EveryCallEnds` and the like. The prover does not do
  `ENABLED`.
* `InsightsStay` and `OneRotation`, which do not hold.
* Where the tables of `WebPages` are turned around (which control changes what which
  query reads), the proofs about the query cache take the outcome as
  `PagesAssumption`, which TLC evaluates: it is about constants of the source.

Every other property of the runs, that is each invariant and each action property
that holds, is proved.

## Where code and documents disagree

With a run:

* `sessions_one_rotation`: `session.service.ts:17-19` says that of two
  presentations of a refresh token only one succeeds. `rotate` updates by id, so
  two that overlap both succeed. What holds is `OneSessionPerPresenter`.
* `campaign_insights`: an ad-account sync deletes and re-creates the account
  rows, and the cascade takes the campaigns and insights that PROGRESS.md:168
  wants to stay.

Found while modelling, without a run of their own. Each is a definition in its
module that an instance of that module refutes at once:

* `SessionsProps!LogoutEndsFamily` (`Watched = {"logout"}`, one slot): a logout
  with an access token older than the last refresh revokes the spent row; the
  refresh token that took its place lives on (`auth.service.ts:374`,
  docs/02-auth-user-management.md:28).
* `SessionsProps!ChangeKeepsCurrent` (`Watched = {"change"}`, one slot): the same
  with a password change, which then ends the session it was made from
  (`auth.service.ts:524`, docs/module-02-resume.md:133).
* `SessionsProps!ChangeBlacklists`: a password change writes no jti to Redis
  (`jwt.strategy.ts:39`).
* `SessionsProps!ResetEndsFamilies` with two slots: a rotation that read its row
  before a reset commits after it (`auth.service.ts:490`).
* `MfaVerify!SingleUse` with two slots: two verifications that overlap log in
  with one code (`auth.service.ts:304`,
  apps/web/src/components/auth/backup-codes-display.tsx:33). `OnlyLatestBatch` with
  two slots: a verification that read its array before a new batch was stored writes
  the rest of the old batch over it.
* `LoginLockout!LimitLocks`: the sixth failure locks, not the fifth
  (`auth-rate-limit.service.ts:34`, docs/02-auth-user-management.md:31).
* `LoginLockout!CounterExpires`: a death between INCR and EXPIRE leaves a counter
  without TTL (`auth-rate-limit.service.ts:28`).
* `Onboarding!OneUserPerInvitation` with two slots (`auth.service.ts:667`,
  docs/module-02-resume.md:121).
* `PermissionCache!InvalidateClears` with the default prefix: `invalidate` sends
  `KEYS perm:<id>:*` without the prefix that GET and SETEX have, and deletes
  nothing (`permission-resolver.service.ts:104`, docs/module-02-resume.md:113).
* `AccountTokens!LinkUsedOnce` and `NewestResetWorks` with two slots: two requests
  look a link up before either clears it, and the clearing by the user's id takes
  a newer token with it (`auth.service.ts:403`, `:480`).
* `MetaConnection!OneExchange` with two slots: GET and DEL of the state are two
  calls (`meta-callback.controller.ts:63`, PROGRESS.md:205).
* `MetaConnection!ConnectSurfaces` with two Meta users and three states: a row
  that is revived keeps its `createdAt`, so the workspace goes on showing the
  other one (`meta-connections.service.ts:105`,
  apps/api/test/integration/meta-connection.spec.ts:81).
* `MetaConnection!ActiveWorks` with two workspaces, or with two slots: a
  disconnect ends all tokens of the Meta user, wherever they are stored.
* `WebSession!StormIsHarmless` when a page loads or with two tabs, and
  `OneRefreshPerTab`: the bootstrap does not go through `singleFlightRefresh`
  (`web/lib/auth/use-auth.ts:59`, web/lib/api/client.ts:22-26). Page and calls then
  present one cookie twice, and the server revokes every session.
* `CampaignCache!DeletedIsGone` with two slots (a campaign created while a sync is
  under way is marked DELETED, `campaigns.service.ts:109`) and with `PageSize`
  below the number of campaigns (`real-meta-api-client.ts:171`: one page of 250).

Seen while reading, and reflected in the models or in a condition of a property:

* *Creatives.* The deletion of a creative looks for ads through the local key only
  (`creatives.service.ts:145-153`); ads that were synced before the library have
  none, and it is deleted under them. The comment there lets paused ads be, the
  code refuses them too. An ad update that does not choose a creative writes back
  the key that it read (`ads.service.ts:169`). The sync of creatives never removes
  a row.
* *Insights.* Ranges of 400 days are accepted, and one page of at most 500 rows is
  asked for (`real-meta-api-client.ts`, fetchInsights). A sync that asks for more
  leaves the rest as it was; `InsightsAreExact` speaks of the others.
* *Permissions.* Managers lack `adaccount:read`, but the dialog that creates a
  campaign and the page of creatives ask for the ad accounts: a manager cannot
  create a campaign in the browser (the exception in `PagesWork`). An
  administrator of the organization who is no member of a workspace is shown its
  permissions by `users/me/permissions` and refused by `WorkspaceAccessGuard`. The
  sync routes ask for read permissions only. That of the ad accounts asks for
  `adaccount:read` (`meta.controller.ts:195`), which viewers have and managers lack,
  and it deletes the account rows with all campaigns, ad sets, ads, creatives and
  insights below them (`meta-connections.service.ts:209`): a viewer, who may not
  delete a campaign, can throw away the rows of all. `DutiesAreSplit` says so: of
  what destroys it leaves this one to viewers, and none to managers. The OAuth callback
  at the fixed address asks for no permission; it needs a state that `initConnect`
  has issued to the same user. `budget:edit` is asked for nowhere.
* *The session of the browser.* The bootstrap aborts itself: setting the token runs
  its clean-up, so the answer of `users/me` is dropped (`use-auth.ts:74-83`). A
  refresh whose answer is lost costs the session, since the cookie is spent. A
  refresh that is refused leaves the cookie, so the middleware goes on letting in.
  A logout while a refresh is under way leaves the token of that refresh. A wrong
  MFA code is a 401 too: with a cookie of an earlier session `apiFetch` refreshes
  and sends the code again, which counts it twice.
* *The query cache.* Two answers can stay stale after a success has been told: a
  first load that was read before the change is joined by the refetch, not
  replaced; and a request of a page that was left is joined when its page comes
  back, and its success clears the invalidation. `Cancellable` is the condition
  that leaves both out. The key of connection and accounts is another one on the
  page of creatives; the panels never invalidate the detail of their parent; a
  sync of ad accounts invalidates no campaigns; a deleted campaign's detail is
  shown by Back for the next 30 seconds; `permissions` are kept for a minute after
  a change. `useLogout` leaves the query cache of the user, and since the API never
  answers a login with `success`, signing in does not invalidate it either
  (`use-auth.ts:23-27`, `:38-41`).
* *Wording.* The button for all *other* sessions calls logout-all, which ends this
  one too. The dialog of the disconnect says that the list of accounts is cleared;
  the rows stay. The dialog for editing a campaign sends PAUSED for one that is
  archived when its name is edited.

## What the models take from outside

Code that is not in the repository is modelled from how it is used: the Graph API
lists campaigns that are not deleted, a deleted campaign stays deleted and cannot
be changed, `DELETE /me/permissions` ends every token of the Meta user, and a
token is issued for the user who consented. ioredis puts `keyPrefix` in front of
key arguments and leaves patterns alone. Postgres has unique indexes, cascades and
Read Committed. react-query (version 5) refetches what is mounted and stale, joins
a request under way unless it is told to cancel one that has data, and marks what
is not mounted; a browser sends the cookie of the moment in which a request leaves
and takes a new one with the headers of its answer. Left out: that a token runs out at Meta (the EXPIRED status is
never written), encryption (an identity for rows that stay in their workspace),
TOTP arithmetic (a nondeterministic answer), names, budgets, figures.

Not modelled, or partly:

* the audit trail: records are queued and inserted, and read by nothing;
* password, token and encryption primitives: functions of libraries, no state;
* health, configuration, the wrapping of answers, headers and the throttler;
* the mock Meta client: it keeps seeded data of its own for development and tests,
  and would only be compared with the Graph API that the models assume;
* of the pages, layout, wording and the checks of the forms; the pages before
  sign-in, which make one request each; and that in `WebCache` a key has one value
  of its parts (one campaign, one workspace);
* of workspaces and profiles, the values that are edited: single-row updates;
* of registration, slugs, and workspaces beyond the default one.

## Plan

Done: all modules of the list above, with proofs about `Sessions` (and that it
implements `AtomicSessions`), `MfaVerify`, `LoginLockout`, `Onboarding`,
`AccountTokens`, `PermissionCache`, `MetaConnection`, `CampaignCache`,
`AdHierarchy`, `Insights`, `AccessControl`, `WebPages`, `WebSession` and `WebCache`.

To come, in the order of importance:

1. `WebSession` over `Sessions` by INSTANCE, in place of the few lines that stand for
   the API: two tabs whose refreshes run into the theft response.
2. The password itself, for a change that overlaps a reset, and the invitation mail.
