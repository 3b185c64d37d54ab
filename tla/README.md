# A formal model of 123gym-media-mcp

This directory is a verification project for the program in this repository: TLA+ modules translated
from the code, TLC configurations that check them on small instances, and proofs, checked by TLAPS, of
their main properties for every value of the constants. `PROJECT.json` is the machine-readable index: for
every definition the lines it models, for every run its properties, for every property a mutation of the
code that violates it, and the list of hazards the properties are for. Paths below are relative to the
repository root.

Run a check with `tlc -workers 2 -config <name>.cfg <module>.tla` and a proof with
`tlapm <name>Proofs.tla`. The proofs are about `OAuthTokens` and `CredentialRefresh` in the module of that
name with `Proofs`; about `EmailLogin` and `SocialPosts` in `ServerProofs`, about `Provisioning` and
`InstallTokens` in `ProvisioningProofs`, about `ReportAccess` and `ReportBulkhead` in `ReportProofs`, about
`ZaloToken` and `ZaloMessages` in `ZaloProofs`, about `ServiceOrders` in `ServiceProofs` and about
`CenterClasses` in `ClassProofs`. These two models share `Fields`, JavaScript's objects and maps as functions.

## 1. Inventory

The program is a Node.js service (Express, PostgreSQL through `pg`, HighLevel and Zalo as upstream
services). Several processes may run over one database (the comments speak of several Render instances,
and a deployment overlaps the old process with the new one). Each process is one event loop: what happens
between two `await`s is atomic in that process and nothing else is. There are no background workers; every
activity starts with an HTTP request. The three servers below share processes and database.

| Component | State | Operations | Hard behaviour |
|---|---|---|---|
| **Built-in OAuth server** `src/oauth-server.js`, `src/tenant-services.js` 410-560, migration 007 | `oauth_clients`, `oauth_login_requests`, `oauth_auth_codes`, `oauth_tokens` | `POST /oauth/token`: redeem a code, rotate a refresh token, revoke a family; cleanup | two requests with the same code or token; a retry that looks like a replay; failure between consuming and inserting |
| **Login requests, email login, invites** the same files, migration 011 | login requests, email tokens, completions, team invites | HighLevel callback, email form, verification, poll, invite | two ways to finish the same request, a completion polled once, crash between consume and store |
| **Credential provider** `src/credential-provider.js`, `src/highlevel-location-token.js`, `withCredentialLock` | `tenant_credentials`, `connections`, a promise per credential in each process | `getAccess`, refresh, mint a location token, mark the connection | rotating refresh tokens shared by processes, a row lock held across upstream calls, the credential replaced meanwhile |
| **Provisioning and onboarding** `src/tenant-services.js` 130-410, `src/highlevel-onboarding.js` | tenants, memberships, connections | login, connect, invite | concurrent first logins, one tenant per location, one active connection |
| **MCP server** `server.js` | usage counters, rate limiter, audit events | media and social tools, plan limits | check-then-act duplicate and limit checks, a post that succeeded although its call failed |
| **Report gateway** `src/report/gateway.js`, `src/report/packs.js` | slot counter, queue of waiters, cached pause switch | `POST /report/mcp` | slots at their limit, permissions read before queueing |
| **Report OAuth server, store, admin** `src/report/{oauth,store,admin,provision}.js` | report customers, tokens, grants | login, approve, suspend, provision | suspension racing a login, a refresh or a provisioning |
| **Zalo OA connector** `src/center/app/zalo-oa.mjs` | `zalo_connections`, a cache and a promise per location in each process, message log | connect, disconnect, `getOaAccessToken`, forward messages both ways | rotating refresh tokens without a lock, reconnect and disconnect during a refresh, retries |
| **Center app** `src/center/app/{server,ghl-write}.mjs` | a state object per tenant, rebuilt from HighLevel | classes, enrolment, attendance, make-up lessons, resync | handlers keep an object across awaits while a resync drops it |
| **Service module** `src/center/app/modules/service/*` | records in HighLevel, cache and overlay of recent writes, notification claims | work orders, maintenance generation, notifications | idempotence over a store that lags behind its writes, claim-send-release |
| **Company tokens** `src/center/app/{ghl-company,ghl-apps,oauth-onboarding}.mjs` | `ghl_company_tokens`, a cache per process | refresh, save on install | an agency token shared by tenants, refreshed without a lock |
| Sessions, cryptography, signatures | signed cookies, encrypted rows | one statement or pure computation each | nothing to interleave |
| Admin panel, front ends, migrations, scripts | - | single statements, user interface, run once | - |

How they interact: a login request ends in an authorization code (`EmailLogin`), logins and connects
decide which tenant it and the credential belong to (`Provisioning`), and the client turns the code into a
session of rotating tokens (`OAuthTokens`). Each MCP call presents an access token, meets the rate limit and
the plan (`SocialPosts`), and its tool asks the credential provider for a HighLevel token
(`CredentialRefresh`). Report calls meet the customer's permissions (`ReportAccess`) and then the bulkhead
(`ReportBulkhead`). The center app's modules ask for the token of their sub-account (`InstallTokens`); its
pages keep classes (`CenterClasses`), the service module keeps work orders (`ServiceOrders`), and a centre's
messages go through the Zalo connector (`ZaloMessages`), which sends with the token of `ZaloToken`. The parts
share state only in the database, and each process's caches beside it.

What makes each part correct:

* token endpoint: a login gives one session, a straight line of token pairs that belong to that login, and
  an ended or replayed session is dead;
* credential provider, installs and Zalo connector: the stored refresh token is always one the upstream service
  still takes, unless an answer or a write was lost; concurrent callers share a refresh and are answered;
* bulkhead: no slot is lost, invented, or idle beside a waiting call; the queue is fair;
* logins: a login request yields one code, and its window is sent back with it once;
* provisioning: a tenant with members has an owner, a location has one tenant, a connected tenant keeps
  its location and leaves no stale credentials behind;
* posts and limits: an accepted post is not repeated and a plan that is used up stays closed (the checks are
  check-then-act, so this is where the code promises little);
* report access: a suspended customer's tokens do not work and nothing but an administrator reactivates it;
* messages: what reached the server is in a conversation or can be sent again, a customer is one contact;
* center app and service module: no overfilled class, no attendance for a student of another class or recorded
  twice, no doubled work order or notice, no finished order without its report.

## 2. Plan

In the order in which they were written; all of it exists.

1. `OAuthTokens` with its abstract specification `SessionChain`: the token endpoint, the most important
   protocol of the program. Refinement checked and proved.
2. `ReportBulkhead`: the only counting semaphore of the program.
3. `CredentialRefresh`: single flight in a process, row lock between processes, rotation upstream.
4. `ZaloToken`: the same task solved without a lock.
5. `Provisioning`: concurrent logins to a location and connects of a tenant, roles, the row locks and
   unique keys they meet at. Its `Commit` is what `CredentialRefresh` sees as `Connect`.
6. `EmailLogin` with its abstract specification `LoginOnce`: login requests with their two ways in, the
   emailed link, the completion taken once by the poll, team invites. The code it issues is what
   `OAuthTokens` redeems.
7. `SocialPosts`: admission of a tool call, duplicate check, plans and their limits, counters of a month,
   restarts.
8. `ReportAccess`: sign-in, approval, suspension, provisioning and tokens of a report customer, the pause
   switch, the rate limit and the permissions in front of the bulkhead, the customer's credential.
9. `ZaloMessages`: both webhooks, contacts, replies, notices, the button "send again".
10. `ServiceOrders`: records in HighLevel behind a lagging index, a cache and an overlay; generation,
    reports, claims of notices.
11. `CenterClasses`: the per-tenant object, resync, enrolment, attendance, make-up lessons, timetable.
12. `InstallTokens`: the token of a sub-account and the agency's, cached and stored.

The `MC` modules that put two or three components together run one of them per behaviour, chosen by the
variable `part`. The parts of one run share no state, so this checks each of them completely and says so in
one place; the values they share are model values, so that one symmetry serves all. Of `SocialPosts` two parts
run, the same actions under two sets of bounds. `MCWaiting` puts together the two components whose requests wait
in a queue, because a run with fairness takes no symmetry; they share nothing else.

Every safety property that a run expects to hold is also proved, each with an inductive invariant of its
module; liveness stays with TLC.
Runs: two processes, two or three requests, the fewest tokens with which a value can go
round twice; symmetry only in runs without liveness.

## 3. The models

Conventions of all modules. A step is one SQL statement (PostgreSQL evaluates the `WHERE` of an `UPDATE` on the
row as it is when the row lock is granted, so a conditional single-row update is atomic), one upstream call, or
the code between two `await`s. A failing statement, a lost answer or a dying process is an action of its own.
Secrets and identifiers are small sets; the codes and tokens that get fresh values are numbered and minted in
ascending order, which only breaks the symmetry between unused names. `Nil` stands for null or undefined.
History variables (`origin`, `replayed`, `lost`, `dropped`, `unseen`, `excused`, `astray`, `wasted`, `broken`,
and fields named so in a comment) record what happened for the properties and are read by no guard. The
time-outs of tokens are actions that may happen at any moment (`Expire...`), so no clock is modelled. The first
eight modules of the plan state a type invariant; no run spends time on them: seven are theorems, the eighth,
`PostTypeOK`, was checked by itself, and its module's proof states the types it needs, as do the proofs about
the other modules.

### OAuthTokens, SessionChain

`code` and `token` are the rows of `oauth_auth_codes` and `oauth_tokens`; `req` holds what each request
in flight has in its variables and where it stands. `RedeemCode` is `consumeAuthCode` together with the
checks of client and redirect that follow without an await, `ConsumeRefresh` and `MissRefresh` the first
statement of `consumeRefreshToken`, `RevokeFamily` its second, `InsertAccess` and `InsertRefresh` the two
inserts of `issueTokens`, `Respond` the answer, `Abandon` an exception or a crash at any of them.
`Environment` issues and expires codes, expires tokens and runs `deleteExpiredOAuthArtifacts`.

| Property | Says | Run | Proved |
|---|---|---|---|
| `OneSessionPerLogin` | a code starts one family and is used up | two_logins | `OneSession` |
| `TokensSpeakForTheirLogin` | client and owner survive every rotation | two_logins | `TokensBound` |
| `RotationIsLinear` | at most one unspent refresh token or one request replacing it per family | session | `RotationLinear` |
| `QuietReplayIsFinal` | a replay noticed while nobody extends the family kills it for good | session | `QuietReplayFinal` |
| `SessionsFollowTheChain` | refinement of `SessionChain`: an ended session never returns | session | `ImplementsSessionChain` |
| `SessionsAreDecided` | every session being issued is issued or ends | session | TLC only |
| `ReplayRevokesFamily` | what the comment and README promise of a replay | replay_race: **violated** | - |

Bounds. Four tokens are two pairs: one rotation and a replay of its first token. A fifth (`session`)
allows a second rotation to be half issued at the replay. Two codes and two families are what a mix-up of
logins needs; two requests what a race of a rotation with a replay or a retry needs, and a request that
has ended serves again. Deadlock checking is off: a
model that has used up its tokens and codes stops.

Fairness: a request that has begun to serve goes on or fails (`WF` on `Advance \/ Abandon`). The handler
is one chain of promises; each await is a query, of which it is assumed that it succeeds or fails. The
`pg` pool is configured without time-outs, so this is an assumption on the network, not a guarantee of
the code. No request is assumed to arrive.

Proof (`OAuthTokensProofs`). `IndInv` = types, references, `RotationIsLinear`, `OneSessionPerLogin`,
`TokensSpeakForTheirLogin` and `QuietFamiliesAreRevoked`. The last one is the reason why
`QuietReplayIsFinal` is not inductive by itself: it has to say that every stored row of the family is
revoked, also an expired one. The refinement maps a family to the phase its rows and requests give it;
the proof shows that each action moves at most one family and only along `SessionChain`. It uses
`RotationIsLinear`: without it a family could be ready and issuing at once.

### ReportBulkhead

`active` and `waiters` are the variables of the gateway, `pc` the stage of each call. `Enter`, `Join` and
`Refuse` are the three outcomes of `acquire`; `Release` runs in the `finally` of the handler after the
audit and hands the slot to the first waiter without lowering the counter; a call that is granted a slot
that way resumes later (`Start`). `Finish` covers a tool that answers and one that throws.

| Property | Says | Run | Proved |
|---|---|---|---|
| `SlotsAreCounted` | the counter is the number of holders and within the limit | waiting | `SlotsCounted` |
| `NoSlotIdlesWhileCallersWait` | a waiter means that every slot is taken | waiting | `NoIdleSlot` |
| `NobodyOvertakes` | slots go to the head of the queue | waiting | `FirstComeFirstServed` |
| `EveryWaiterRuns` | every queued call gets to run | waiting | TLC only |

Bounds: two slots, a queue of three and one caller more than fit, so that the queue fills, overflows and
drains. A caller may come again: each is a client that sends calls for ever.
Deadlock is checked. Assumption: the limit is a positive number, the queue's a natural one;
`REPORT_MAX_CONCURRENT=0` would queue every call for ever. Fairness: tools and audits end, because
upstream calls of the report tools are aborted after 20 seconds (`src/report/ghl.js`) and queries are
assumed to end.

Proof: the invariant adds `QueueIsExact` (each waiting call is in the queue once and nobody else), without
which a hand-over could grant a slot to a call that is not waiting and the count would be off.

### CredentialRefresh

One tenant. `row` holds the rows of `tenant_credentials` that come and go, `conn` the connection that
names one of them, `lock` the row locks, `call` the calls of `getAccess` in every process, `flight` the
promise of each process and credential (`#inflight`), `grant`, `spent` and `expired` HighLevel's side.
`Connect` is `#saveConnection` (one transaction that inserts the new credential and deletes the old),
`TakeLock` the `SELECT ... FOR UPDATE`, which finds no row when the credential has been replaced and then
locks nothing; `FindFresh`, `FindExpired`, `FindNothing` the three cases of `#refreshLocked`; `Exchange`,
`Reject`, `Mint`, `Save`, `Fail`, `MarkError` the rest. `Save` is the UPDATE with its COMMIT, `Fail` any
failure, a crash included: the connection ends and PostgreSQL releases the lock.

| Property | Says | Run | Proved |
|---|---|---|---|
| `RefreshesAreExclusive` | a stored credential is refreshed by one process, with the stored token | credential | `Exclusive` |
| `StoredTokenIsAlive` | the stored token is live or its successor is about to be stored, unless one was lost | credential | `TokenAlive` |
| `RejectedOnlyAfterLoss` | HighLevel rejects a stored credential only after a loss | credential | `RejectedAfterLoss` |
| `EveryCallIsAnswered` | every waiting call is answered | credential | TLC only |

Bounds: two processes, two calls (they share a promise, or one waits for the row lock the other holds), two
credentials (one replacement), four tokens (both credentials and two rotations). Fairness: a call resumes, an
exchange or statement succeeds or fails, and the lock is granted to a process that keeps asking (`SF`):
PostgreSQL queues the waiters of a row.

Left out: the environment backend (no state), a stored location that disagrees with the binding (an error
before anything is read), an answer without a new refresh token (the code keeps the old one; modelled
upstream always rotates), HighLevel rejecting a token that is not spent, audit events.

Proof: beside the properties `IndInv` says that whoever refreshes a stored credential holds its lock and
that a successor not yet stored is unspent; the exclusion is a consequence of the first, the liveness of
the stored token of the second.

### ZaloToken

One centre. `row` is its row in `zalo_connections`; `cache` and `inflight` are the two maps of each process; `call`
and `refresh` are the callers and the promises. `Hit`, `Select`, `Load` lead a caller to a credential, `Decide` is
what it does with it: return, join, start. `Exchange`, `Refuse`, `LoseAnswer` are Zalo's part, `Keep`, `Persist`,
`PersistFails`, `MarkError`, `Settle` the promise. `Connect`, `Disconnect` with `Forget`, `Expire` and `Crash` come
in between at any point. The model keeps what is unusual in the code: `persistCred` writes whatever the row has
become, `finally` drops the entry although it may name another refresh, a reconnect leaves the caches alone.

| Property | Says | Run | Proved |
|---|---|---|---|
| `StoredTokenIsAlive` | nothing ever writes a dead token back; a dead one has its successor on the way, or it was lost | zalo | `TokenAlive` |
| `OneRefreshPerProcess` | one refresh at a time per process until a disconnect drops its entry | zalo | `SingleFlight` |
| `NobodyWaitsForNothing` | a caller that waits, waits for a refresh under way in its process | zalo | `WaitersAreServed` |

It is checked in the run `zalo`, beside `ZaloMessages`. Bounds: two processes, two callers and two refreshes
(the most in which one joins or races the other), three tokens (a rotation and a reconnect, or two rotations).
The pool of refreshes is a bound: a caller that would start a third waits. No fairness is assumed: that callers
are answered is stated as the invariant `NobodyWaitsForNothing`, which leaves only the end of the refresh itself
to its upstream call and statements (`fetch` has no explicit time-out here). Assumption: an access token (an
hour) outlives the refresh that brought it, in `Expire`. Abstractions: the three attempts of `persistCred` are
one success or one failure, at any time; a write that succeeded but was reported as failed is not distinguished
from a success. Checks of the OA's owner, the sync log and the custom field made on connecting are left out.

Proof: `IndInv` adds that names refer to something, that what a refresh sends has expired, and that what
it carries has not and replaces a spent token, and that an entry of the single flight names a refresh
under way in its process. This is why a late write is harmless: a refresh that still
carries its token is the only holder of it, so nobody can have spent it.

### Provisioning

`tenant`, `member`, `conn` and `cred` are what is committed in `tenants`, `memberships`, `connections` and
`tenant_credentials`; `req` holds what a login or a connect knows and where it stands. The two kinds of
request share `#saveConnection` and therefore their last three steps:

* a connect: `Ask` (`start`), `CheckCurrent` and `CheckOwner` (the two reads of `assertConnectable`),
  `Callback`, the two reads again;
* a login: `Login`, `UpsertUser`, `FindTenant` or `CreateTenant` or `RefuseSignup`, `CountMembers`;
* both: `LockConnection` (`SELECT ... FOR UPDATE`), `WriteConnection` or `ViolateKey` (insert the
  credential, upsert the connection), `Commit`.

The transactions run at PostgreSQL's default READ COMMITTED. The model gives a transaction's writes to the
tables at `Commit` and lets them act before that only the way the database does: others wait for the row
of a user (`HoldsUser`), the row or the key of a connection (`HoldsConnection`), the key of a location
(`HoldsLocation`), and a lock that was waited for reads the row as it has become. A row that does not
exist cannot be locked: `LockConnection` then takes nothing, which is what makes first connections
interesting. Credentials have one number each and the smallest free one is taken.

| Property | Says | Run | Proved |
|---|---|---|---|
| `OneTenantPerLocation` | two tenants are never connected to one location | provisioning | `OneTenant` |
| `SomebodyOwns` | a tenant with members has an owner, whatever logins race | provisioning | `OwnerExists` |
| `ReplacedCredentialsAreDeleted` | a replaced credential stays only if its replacer had found no row to lock | provisioning | `CredentialsDeleted` |
| `SettledForGood` | connected, with nobody under way to another location, a tenant keeps its location for ever | provisioning | `SettledKept` |
| `EveryRequestEnds` | every login and connect ends: no endless wait, no deadlock among the locks | waiting | TLC only |

Bounds. Two requests of either kind over two users, tenants and locations: every race named above is one of two
requests, and both sequences of any length and failures in between are covered because a request slot is used
again. Six credentials are more than two tenants and two requests can hold, with two stray ones; when strays use
them up, `Fail` is all that is left. Three requests with one tenant were checked by hand. The initial states are
what migration 002 seeds: connected tenants nobody is a member of. Deadlock is checked in
`waiting`; in `provisioning` the tokens of `InstallTokens` may run out. Fairness: a statement ends
(`WF` on `Proceed`), and a lock is granted to a request that keeps waiting for it (`SF` on `Wait`), because
PostgreSQL queues the waiters of a row or a key.

Left out: invitations to a team, the sub-account an invitation may fix (`findInvitedLocationId`), choosing a
principal's tenant, roles other than owner and administrator, and the seeding by hand of suspended users,
tenants and memberships, whose refusal is one of the reasons for `Fail`. So are the abort of a deadlock by
the database and a slug that cannot be allocated. HighLevel's answers are what the request asked for: a
different location ends the connect.

Proof: besides the properties `IndInv` says that every connection has a credential of its own
(`References`), that at most one request holds a row or a key, that a request which has written meets no
other tenant at its location, that what was read under a lock is still so (`KeysAreHeld`), and that a login
which does not make an owner has seen a member (`RolesAreDecided`). Every step up to the lock is one lemma
(`RequestKeeps`); the commit needs all of it.

### EmailLogin, LoginOnce

`request`, `link`, `invite`, `member` are the rows of `oauth_login_requests`, `email_login_tokens`,
`team_invites` and `memberships`; `handler` holds what each HTTP request has in its variables and its next
await, `page` the waiting page of a login, `codes` the codes issued for it, in order, and `given` how often the
window that began it was sent back with one. `Authorize` stores the request.
The HighLevel way is `CallbackConsume`, `CallbackExchange`, `CallbackProvision`, `IssueCode`, `Redirect`; the
email way
`FormConsume`, `FormLookup`, `FormToken`, `FormMail`, `FormRespond` on the sender's side and
`VerifyConsume`, `VerifyPrincipal`, `IssueCode`, `StoreCompletion` where the link is opened, with `Poll` and
`PageStops` for the page, of which several tabs may be open (a page that has returned goes on polling).
`IssueWithoutCompletion` and `ConsumeLinkAgain` are mutants'. Invites are `EnforceUserLimit`,
`CreateInvite` and `AcceptInvite`; an operator ends memberships, everything expires at any time, and
`HandlerFails` ends a handler at any await.

| Property | Says | Run | Proved |
|---|---|---|---|
| `LoginsAreAnsweredOnce` | refinement of `LoginOnce`: a login request is spent once, at most one code is ever issued for it, and its window is sent back with it at most once | server | `LoginImplementsOnce` |
| `WaitingHasReason` | a page that waits although its link was opened has a handler at work or a redirect to collect, unless a handler died, access ended or the poll's answer was lost | server | `WaitingPagesHaveReason` |

`LoginOnce` keeps a sequence of codes for each login, so a second one is a step it does not have, also when it
is for the same user and tenant: without `used_at IS NULL` in the statement that takes the link
(`src/tenant-services.js:697`) TLC finds two codes. `given` counts the window that began the login. The page
behind the emailed link shows the same redirect as a fallback ("continue here", `src/oauth-server.js:458`), which
carries the same code, and the token endpoint takes a code once (`OneSessionPerLogin`).

Bounds: two login requests, two handlers, one address shared by an invited teammate and a HighLevel user (so
that the lookup by address finds several memberships), two tenants, one invite, a plan of one user.

Proof: `LoginInv` says that a spent request and an opened link have one handler or one code each
(`RequestsAreSpentOnce`, `LinksAreOpenedOnce`): two handlers past the same conditional UPDATE is what would give two
codes. `CodeTypes` says whose codes they are, and `GivenOnce` that a window was sent back only when its one code is
neither in a handler's hands nor in the link as a completion; the completion is taken and cleared by one statement.
From these follows that every handler's step is a step of `LoginOnce` for at most one login. The waiting page needs
two facts more, that a link and a page come from a form which consumed the request, and that an opened link is
settled: its handler is at work, its completion is stored, or something was recorded as broken.

### SocialPosts

`call` holds each tools/call, `posts` what HighLevel accepted, `recent` and `window` the memory of the
process (`recentCreates`, `rateLimitWindows`), `plan` and `limit` the tenant's plan and what each plan holds
(null is `NoLimit`), `used` the counter row of the current month, `owed` the increments that run on their own
after `recordUsage`. A call is authenticated in one of three ways (`Bearer`): a token of the built-in server
(`FindToken`, `ResolvePrincipal`), whose principal carries the tenant's plan of that moment; a token of Auth0
(`ResolveUser`), whose principal has no field `plan`; the administrator's key, whose principal has no tenant
either and is counted by its address (`RateKey`). It passes `authorizeTool` and `checkRateLimit` (`Admit`), gets
its context and access, and then does what its tool does: `ReadPlan` to `Record` for `create_social_post`,
`LoadPost` and `PutPost`, `RemovePost`, or `Read` for every tool that changes nothing. `enforcePostLimit` does
not look at the administrator at all (`GetAccess`), stops where the caller's plan, or the lack of one, gives no
limit (`LimitFor`, `ReadPlan`), and else compares the limit it has read with the counter it reads next
(`EnforcePostLimit`). `Fail` is an exception at any await, `Restart` loses the memory, `ShowInList` is
HighLevel's list catching up, `Forget` the time-to-live of the memory, `Tick` the next minute, `NextMonth` one
with which `currentUsagePeriod` changes: the new row starts at none, and increments of the old one no longer
matter. `SetPlanLimit` and `SetTenantPlan` are the administration page. The fields `after`, `saw`, `full` and
`tally` of a call are history: `tally` says whether its posts are due to be counted in this month's row or
have been.

| Property | Says | Run | Proved |
|---|---|---|---|
| `RetriesDoNotRepeat` | of two equal posts, one by a call admitted after the other's had ended, the earlier one was neither remembered nor listed | server | `RetriesAreNotRepeated` |
| `FullPlanStaysFull` | a plan whose posts of the month are used up and counted admits no post of a caller who carries it, until its limit is raised or the month ends | server | `FullPlansStayFull` |
| `UsageNeverOverstates` | nobody is charged in a month for more than the posts HighLevel accepted and whose count began in it | server | `UsageIsNotOverstated` |

Overlapping calls do post twice and do exceed the plan: the checks are check-then-act, no comment promises
otherwise, and the first two properties say what is left. The tenant's plan may change under a call: it is held
to the plan it was authenticated with, at the limit that plan has when it is read.

The run exercises posts or plans in a behaviour (`MCServer`). Posts: two calls with every tool, one content on two
platforms (the second platform fails after the first was posted), no limit, one restart, one minute. Plans: two
calls of editors who create posts, two contents (so that the duplicate check does not hide the limit) on one
platform, two plans with a limit of one or none that the administrator changes at any time, one further
minute, which may begin a month; the list does not show the posts and the memory keeps them. The
limit needs no more: the first call's post, counted, uses it up, and the second meets it. The theorems are about
all of it together.

Proof: `PostInv` relates the counter to the posts (`UsageIsEarned`: the posts of calls whose increment has landed
are exactly what the row has, and what a call still owes are its own posts, counted nowhere yet) and the memory to
the posts (`PostsAreMarked`: a post that was answered is remembered, listed, or marked as forgotten), and follows a
call from what it read to what it does with it: one with a token of the built-in server carries a plan
(`PlanIsCarried`); one that was admitted when that plan was full (`Stopped`) still finds a limit that the row has
reached, read or not, and does not get to create (`FullCallStops`); a call that searched without a hit
(`SearchIsDone`) had every earlier post of its key hidden from it. The proof found that `Forget` has to mark every
answered post of a key, not the remembered one alone: a later post of the key has replaced the entry of an earlier
one.

### ReportAccess

One customer of the report server. `req` holds each HTTP request; `customer`, `member`, `grants`, `matrix`,
`invite`, `login`, `codes`, `tokens` are the tables, `setting` the pause switch and `pausedCache`, `rate` the
caches of the process, `stored`, `fresh`, `issued`, `alive` the customer's credential here and at HighLevel.
Sign-in is `Callback`, `ExchangeHighLevel`, `LockTenant`, `InsertTenant`, `RankMember`, `CommitLogin`
(`provisionLogin` is one transaction: `rowLock` is the row or the key it holds) or `Form`, `ClaimInvite`,
`AcceptInvite`, `Renew`; then `CreateCode`, `ExchangeCode`, `ConsumeRefresh`, `RevokeFamily`, `CheckOwner`,
`InsertToken`. A call is `Call`, `Authenticate`, `CheckPause` or `ReadSetting` and `CachePause`,
`CheckPacks`, then the slot, `ReadConnection`, `Rotate`, `StoreCredential`, `Send`. The dashboard's forms
read the customer and write statement by statement (`WriteGrant`, `WriteCell`, `SwitchTenant`,
`SwitchMember`, `RevokeTokens`). `LockTenantNot`, `RankMemberAny` and `StoreCredentialHalf` are mutants.

| Property | Says | Run | Proved |
|---|---|---|---|
| `RevokedForGood` | no sign-in, refresh or call that begins after a revocation succeeds | report | `RevokedPeopleStayOut` |
| `OneOwnerByLogin` | overlapping first logins make one owner; a second one comes from the dashboard only | report | `LoginsMakeOneOwner` |
| `StoredCredentialWorks` | the stored credential is one HighLevel takes, unless its successor is under way or was lost | report | `StoredCredentialIsAlive` |

`RevokedForGood` is about members; a suspended customer can be switched on again, also by the webhook (see
section 4). Bounds: three requests (each is served once), two installers and an invited person, two login
states, one pack, three credentials, one call a minute. Two initial states: an unknown customer, and one in
use with an open invite.

Proof: `AccessInv` says of each request that began after its user was revoked that it is not past the check
that refuses it (`LateStaysOut`), that the one login which holds the customer's row or key is alone with
what it read there (`LoginIsAlone`), and that a credential on its way to the table belongs to one request and
HighLevel still takes it (`CredentialIsPrivate`), which is why overlapping refreshes without a lock overwrite
each other without harm. `RevocationIsFinal` states the step: no handler gives a revoked membership back.

### ZaloMessages

One centre. `mapping`, `named`, `field` and `log` are `zalo_contacts`, the connection's UID field and
`zalo_sync_log`; `contact` and `shown` are HighLevel's contacts and conversations, `sent` counts what reached
a customer. A webhook call begins with `Deliver`, `Reply` or `Notice` (the answer to the sender has already
gone out), finds the customer's contact by `Lookup`, `RefreshProfile`, `FindContact`, `MakeContact`,
`SaveMapping`, or after a shared phone by `LinkFind` and `LinkMake`, and then `Touch` and `Push`; a reply is
`Send` of its attachment and of its text. What fails is a row (`Log`); `Retry` begins with one and ends with
`Resolve`. `Throw` says where an exception of each handler goes. `MailCrash` ends everything under way.

| Property | Says | Run | Proved |
|---|---|---|---|
| `MessagesAreKept` | a message that reached the server is shown, at work, or in a row that can be sent again, unless the process died, the failure came before the handler's guard, or the row could not be written | zalo | `MessagesAreNotLost` |
| `OneContactPerCustomer` | a customer gets one contact, unless two handlers looked for it at once or an answer or a statement was lost | zalo | `CustomersGetOneContact` |
| `TextReachesOnce` | the text of a reply or a notice reaches the customer once, unless an answer was lost, retries overlapped or the row could not be marked | zalo | `RepliesReachOnce` |

Bounds. A behaviour sees one of the `Mixes`: two events (two messages of a customer at once), an event and a
reply, an event alone, a notice; the number of failures goes down as the number of items goes up
(`ConnectorInit`), two for a single item. Two contacts are one more than a customer should have.

Proof (`ZaloProofs`, with `ZaloToken`): `MailInv` places every item. A row that was resolved has its message
shown, astray or in a push row that is still open; a customer whose contact was made, and not excused, has it
in the mapping or in the handler that is about to save it; the text of a reply is in one place, a handler or a
row, until it is sent. Losing a message, making a contact twice and sending twice are each the absence of one
of these.

### InstallTokens

`grant` and `company` are `app_installs`, the credentials in `platform.tenants` and `ghl_company_tokens`;
`known`, `renewing`, `served`, `serving`, `held` the caches and promises of `ghl-company.mjs`,
`ghl-apps.mjs` and `ghl-write.mjs`; `issued`, `used`, `aged` HighLevel's side. `AskToken` joins or starts a
request, `Read` takes the row or the copy in memory, `RefreshGrant`, `KeepGrant`, `SaveGrant` refresh a
token of a sub-account; `LoadCompany`, `Loaded`, `Renew`, `Renewed`, `PersistCompany`, `Mint` get one from
the agency's. `Install` buys what an installation brings, `StoreConnector` and `StoreCenter` store it.
`Ends` is the end of a task with everybody who shares its promise.

| Property | Says | Run | Proved |
|---|---|---|---|
| `ConnectorsRefreshLiveTokens` | a connector never presents a spent refresh token, unless its successor was lost | provisioning | `ConnectorsNeverReplay` |
| `StoredTokensCanRefresh` | every stored credential, late writes included, can be refreshed or its successor is on the way, unless it was lost | provisioning | `StoredTokensStayGood` |

For centres only the second holds (section 4). Bounds: two connectors and one centre, two tasks, four tokens
(an install, a mint and two refreshes), one mishap. Assumption: an access token (a day) outlives the task
that was given it, in `Age`. The check runs connectors and centres apart: they have different agency tokens
(`App`), so they share nothing.

Proof (`ProvisioningProofs`, with `Provisioning`): `GrantInv` says who may hold which token: each belongs to one
sub-account or agency (`TokensHaveOneOwner`, and as a theorem of its own `TokensStayWithTheirOwner`), a request
that serves a connector is the only one between its read and its save (`ServedAlone`), and a spent token in a
row has its successor in a task that is about to store it (`SuccessorsAreComing`). It assumes that connectors
and centres are different (`GrantAssumption`): the code keeps them in different tables.

### ServiceOrders

One sub-account. `rec` are the records in HighLevel and `shown` what its search index has of them; `cache` is
`listAll`'s, `recent` the overlay of the process's own writes. A request lists what it needs (`Search`,
`Merge`), decides on that view (`Generate`, `Simple`, `Task`, `Update`, `Open`, `FindOrder`: each operation
of `service.mjs`, `logic.mjs` and `index.mjs`) and writes (`Post`, `Answered`, `AnswerLost`, `Rejected`).
The report of an order is a document of its own: `GuardComplete`, `GetReport`, `PutReport`, `Finish`. A
notice is `Claim`, `SendZns`, `ZnsAnswered`, `Release`. `IndexCatchesUp`, `CacheGone`, `RecentGone` and
`Restart` may come at any time; the overlay outlives the lag of the index, as its comment assumes.

| Property | Says | Run | Proved |
|---|---|---|---|
| `OneRecordPerKey` | one order per unit, contract and month, one task per template item, one unit per name, one open inspection, unless requests overlapped, an answer was lost or the process restarted ahead of the index | center | `OneRecordPerKeyHolds` |
| `NoticeGoesOutOnce` | a customer hears of an order's state once per template, except where an answer was lost | center | `NoticesGoOutOnce` |
| `FinishedHasReport` | a finished order has a complete report, unless the check was skipped, the report edited meanwhile, or two requests changed the order at once | center | `FinishedOrdersKeepReports` |

Proof (`ServiceProofs`). For notices: a key that is being sent is claimed, and one request sends
it; it was heard no more often than answers to it were lost. For reports: only a request that checked the
report, and found nobody editing it, finishes an order (`ClosingIsSound`); what was sent is in the record
(`SentIsSound`); and every view of orders that will be used shows a finished order as finished (`ViewsShow`:
the overlay if it has the order's state, else the index and every list being merged, and the cache in any
case), because a view that shows it open lets a request edit its report.

For keys (`KeyInv`): a request that checks a key must see every record of it. A record is `Due` unless its key
is excused or its creator still waits for the answer (`Awaited`). A due record is in the index or whole in the
overlay, in the cache if its list is cached (`ViewKeys`), and in every list a request is merging or will find
in the overlay when it does (`MergeKeys`); lists taken from the cache at the start of a search are complete up
to `Settled`, which is why `StartWriting` excuses what was created after that. What any view says of a key, a
unit or a closed inspection is true of the record (`Fits`), partial entries of the overlay included. From
these a key that passed its check is `Fresh`, and `PlansAreApart` says that nobody else is about to create it.
`SettledBelow` needs that a set of ids has a least one, which `LeastOf` gets from the library's well-founded
order of finite sets. The proof assumes that the records of the sub-account keep to the property when the process
starts, and that a key names the object it is of, an inspection's the unit (`OneEachAssumption`).

The proof for reports changed the model. With two requests `FinishedHasReport` held without its last excuse; the
induction did not go through, and TLC found why with three: the finishing and a start of one order overlap,
their answers come in the other order, and the overlay keeps the older state over the newer record. For two
minutes the app shows the order open and takes edits of its report. `Post` therefore records two changes of
one record at once (`muddled`). It also assumes what the run's values satisfy: the records of the
sub-account have every field (`RecordsAssumption`), and an order is changed in one of four ways
(`RequestsAssumption`).

### CenterClasses

`gd`, `room`, `lesson`, `mark`, `pupil` are HighLevel's records, `listed` what its search shows. `app` are
the `AppState` objects built so far and `now` the current one: a request keeps the one it began with. `store`
is the snapshot with the overlay documents, `saving` the saves that are under way in the background,
`writer` the state of `ghl-write.mjs`. A request (`Ask`) gets or builds an object (`GetAppState`,
`LoadSnapshot`, `LoadOverlays`), passes its check on it (`May`, `Check`) and then makes its `Calls` one by
one. `Webhook`, `ResyncReads`, `ResyncStores` rebuild the snapshot under it.

A class page lists the numbers of the class's rows and shows for each the first row that has the number; a mark
comes back with the number and is written for the first row that has it (`Student`, in `OpenRoster` and `About`, as
`students.find` at `src/center/app/server.mjs:481` and 912). `page` is the object the page was made from, and a
record is `own` when it is still the one the request holds. What a request for attendance could not write, it leaves
out of the day's marks; these it stores at its end in any case, as they were at its start (`Fails`, `Dismiss`,
`NoteMark`). `past.overlap` says that requests overlapped, or that a state was built before a save had landed.

| Property | Says | Run | Proved |
|---|---|---|---|
| `ClassKeepsToItsSize` | the app never overfills a class, unless requests overlapped, staff enrolled at HighLevel ahead of the resync or beyond the size, or a save or an answer was lost | center | `ClassKeepsToItsSizeHolds` |
| `MarkStaysInItsClass` | attendance made from the page of a class is recorded for an enrolment in that class, as long as the object is the one the page was made from and the centre has fewer than a thousand enrolments | center | `MarkStaysInItsClassHolds` |
| `MarkIsWrittenOnce` | a student's attendance at a lesson is recorded once, even one request after the other | marking: **violated** | - |
| `TeacherInOnePlace` | a teacher never has two classes at one hour, even one request after the other | teachers: **violated** | - |

Proof (`ClassProofs`): `ClassInv == ShapeInv /\ MarkInv /\ SizeInv`, a theorem of its own (`ClassesAreSound`).
`ShapeInv`: a request knows an object and enrolments that exist; a snapshot numbers its rows from 1 and the overlay
its own from 1000; overrides change the state of a row and nothing else. `MarkInv` is the shape
of the attendance records. A request that has seen a page knows a number which, in the object the page was made
from, is a row's of the page's class; as long as the two numberings stay apart (`Few`) an object has one row of a
number, and rows are only ever appended, so the number goes on meaning that row. That the row's class is the
enrolment's is a second invariant, `TrueInv`, proved from `ClassInv`: wherever a row is, in the index, in the
store, in a save under way, in a snapshot being read, or in an object, its class is that of its enrolment at
HighLevel, where no step changes it (`IndexIsTrue`, `ObjectsAreTrue`, `SavesAreTrue`, `TimerIsTrue`, `ReadIsTrue`);
and the enrolment a request is going to write a record for is in the class of the page (`IdIsTrue`). `TrueInv`
rests on the part of `StartAssumption` that says so of the rows there are at the start. With the numbers given
class by class (`NextEnrollNOfClass`) TLC finds a mark made in one class on a student of another.

`SizeInv` is about the classes that are not in `past.blind`: the newest object's enrolments are what is stored or
about to be (`NewestIsStored`), so an object built from the store misses none; every seat the app gave away is a row
of the newest object or of a request about to add it, the others are the snapshot's or staff's (`SeatsAreSeen`); and
who has passed the check, and is to take a seat, finds one left (`SeatsAreLeft`). It assumes that the requests are
those the model knows, about classes that exist (`WishesAssumption`), that sizes are numbers (`SizeAssumption`), and
that the enrolments of the centre are in its snapshot, in the overlay, or were made by staff (`StartAssumption`).

This proof changed the model too: with two requests `ClassKeepsToItsSize` held, the induction failed at an
enrolment that is opened again, and four requests overfill a class (section 4). An enrolment that staff make
beyond the size of a class is excused now, as one made ahead of the resync was before (`LinkClass`).

Bounds of both: two requests at once out of one of the menus (`SomeMenus`, `SomeWishes` in `MCCenter`: each a
group of requests that meet at a record), one lost answer, failed save or restart, two `AppState` objects and
two saves under way. Records: a contract of three months over a unit, an order, a project, a finished
inspection; a class of three seats with two students of whom one is known from the overlay only, a class at
the same hour. The menu `{}` leaves the part idle. `marking` has the two requests of a teacher who marks class A
twice, one save under way and no trouble; `teachers` three requests about teachers and hours.

## 4. Disagreements between the code and what it says

Three runs find a counterexample; TLC prints the trace.

* `replay_race`. `src/tenant-services.js:470` and `README.md:23` say that replaying a used refresh token revokes its
  whole family. The revocation is an UPDATE of the rows there are; a request that has consumed the current token and
  not yet inserted the new pair adds two live tokens afterwards. What remains true, `QuietReplayIsFinal`, is proved.
* `teachers`. `src/center/app/server.mjs:624-626` checks a teacher's timetable before it writes. Saving a class's
  hours (line 640) replaces its whole override and drops the teacher that assigning one had put there (line 752).
  The app knows a teacher from that override alone, no snapshot holds teachers: from then on the check does not see
  the teacher in that class, until one is assigned to it again.
* `marking`. `src/center/app/server.mjs:910` says "never re-write an already-confirmed real record". Marks are kept
  by the number of a row; a resync numbers the rows anew, gives an enrolment the app made a second row beside its
  own, and empties what the snapshot knew of attendance (`ghl-write.mjs:545`): under its other number the student is
  unmarked, and is recorded and counted a second time.

The models show more, without a run each: places where the code does not keep what a comment says, and
others where no comment promises anything and the behaviour is still worth knowing. The properties above are
worded around them: what a property excuses or leaves out is one of these.

* `tenant-services.js:210` says that concurrent instances never refresh with the same token. A login deletes the
  credential row it replaces; calls that had read it find nothing to lock and refresh without exclusion (`Connect`,
  `FindNothing`).
* `highlevel-onboarding.js:28-30` says that a second location is refused instead of silently replacing the first.
  The check is a read, the upsert comes several calls later: two connects started while the tenant had none both get
  through (`CheckCurrent`, `Commit`).
* `README.md:23` says that the first member is the owner and later ones administrators. Overlapping first logins to
  a seeded tenant both count no members (`CountMembers`).
* `server.js:782-783` says that once HighLevel has accepted a post nothing may throw any more. The list read of the
  verification (line 789), a later platform or the audit still may, and the agent retries (`Fail` after `Remember`).
* `server.js:106-107` says that plan limits hold "real OAuth tenants", with the administrator's key exempt, and
  `README.md:39` that the checks do nothing for that key and for plans without a limit. The principal of an Auth0
  token carries no plan (`src/tenant-services.js:801-811`), `limits[undefined]` has no limit, and its user posts
  past the plan of the tenant (`ResolveUser`, `LimitFor`); the limit on team members is looked up in the same way
  (`EnforceUserLimit`). `FullPlanStaysFull` is therefore about callers who carry a plan.
* `report/provision.js:23-25` keeps a suspended customer suspended. Its check is a read; a suspension that comes
  after it is overwritten (`Provision`, `SwitchTenant`). The pause switch counts as off when it cannot be read, and
  a slow read puts an older answer into its cache (`CachePause`).
* `zalo-oa.mjs:7-8` says that a new refresh token is stored before it is used. Line 216 caches it before line 217
  stores it, and says so in its own comment (`Keep`, `Persist`).
* A failed token refresh marks the Zalo connection `error`, and webhooks look for connected ones only: until it is
  connected again, messages that come in leave a line on the console and no row to send again (`Deliver`;
  `zalo-oa.mjs:13` wants nothing skipped in silence). A retry that overlaps another one sends twice (`Retry`), a
  reply whose text failed sends its attachment again (`Send`).
* `ghl-company.mjs:72`: after a restart with an expired agency token, the slower of two reads puts the token the
  other has exchanged back into the cache; until the next restart every refresh presents it (`Loaded`).
* `ghl-write.mjs:88`: the centre's `getAccessToken` has no single flight, so two requests exchange the same token
  (`AskToken`). Reinstalling an existing centre leaves the old credential in memory, from where it is written back
  over the new one, although the error it leads to asks for a reinstall (`oauth-onboarding.mjs:143-147`;
  `StoreCenter`, `SaveGrant`). A connector's refresh that was under way may overwrite a new install in the same way.
* `index.mjs:261-262` reads an order twice: once to decide whether its report must be complete, once to decide who
  may finish it; an order that changes hands in between is finished without the check (`Update`, `GuardComplete`). A
  report is written back whole, so overlapping edits lose one (`PutReport`).
* `service/ghl.mjs:31-35` keeps the app's own changes over a lagging index, in the order in which HighLevel's
  answers arrive, not in the order in which it applied them: after two overlapping changes of a record the app may
  show the older one for two minutes (`Answered`, `Note`).
* `center/app/server.mjs:128` numbers the enrolments the app makes from 1000, `ghl-write.mjs:515` those of a
  snapshot from 1: a centre with a thousand enrolments has two rows of one number. The model numbers them so, on
  fewer.
* `center/app/server.mjs:553-569` changes the state of an enrolment and looks at no size, while lines 526 and 582
  refuse a full class: if an enrolment is closed, staff give its seat away at HighLevel, and it is opened again, the
  app's own request overfills the class (`LinkClass`).
* Overlapping requests overfill a class and exceed the make-up quota; after a resync an enrolment the app made
  appears twice, and its class is full too early; a page that is older than a resync may put a mark on another
  student, since the numbers it holds are others' by then (`MarkStaysInItsClass` excuses it); requests that hold an
  older object overwrite whole overlays; counts of lessons get lost (`ReadCount`, `WriteCount`); two deliveries of a
  deal's webhook make two students (`CreateHocVien`).

## 5. What is proved and what is only checked

The theorems listed in `PROJECT.json` hold for every value of the constants that satisfies the named
assumptions. They say that null values are none of the others (`NilAssumption`, `NobodyAssumption`,
`CallsAssumption`, `PlansAssumption`), that tokens, credentials, limits and bounds are numbers (`TokensAssumption`,
`CredentialsAssumption`, `LimitsAssumption`, `MaxUsersAssumption`, `BoundsAssumption`; `AccessAssumption` also
that presets and forms are sets of packs and cells), that different kinds of things are different
(`ItemsAssumption`, `GrantAssumption`), that HighLevel's users have an address (`AddressAssumption`), that there
is something to post (`KeysAssumption`), and what section 3 says of `RecordsAssumption`,
`RequestsAssumption`, `OneEachAssumption`, `WishesAssumption`, `SizeAssumption` and `StartAssumption`. TLC
evaluates all of them in the runs.

Each theorem is proved along the same lines: `Init => IInv`, one lemma per action or group of actions for the
step, and the conclusion by temporal logic. TLC checked every inductive invariant as an invariant of a run
before it was proved. The theorems are about `OAuthTokens`, `ReportBulkhead`, `CredentialRefresh`, `ZaloToken`,
`Provisioning`, `EmailLogin`, `SocialPosts`, `ReportAccess`, `ZaloMessages`, `InstallTokens`, `ServiceOrders` and
`CenterClasses`, each as a specification of its own. Two of them are refinements: `ImplementsSessionChain` and
`LoginImplementsOnce`.

Only model-checked: the liveness properties (the prover has no rule for fairness and ENABLED), the fair
refinement of `SessionChain` (its safety part is proved), and the three disagreements that runs expect to
find: on the bounds given above. No module that is proved about declares a recursive operator, and no
proof uses induction over data. The last seven modules state no fairness: their properties are safety
properties, and in most of them a handler that stops is one of the failures they model.

## 6. What is not modelled

See the components with status `partly` and `not_modelled` in `PROJECT.json`, where each says what is left
out. For good: user interfaces, administration pages, migrations and scripts (no concurrent state),
signatures and encryption (pure functions of secrets), pass-through and reading tools beyond the one step
they are here, logging. Left for later: client registration and its clean-up, the import of old Zalo
contacts, receipts, salaries and rewards of a centre, the creation of a centre's schema at its first install
(a crash between it and the first administrator leaves nobody who can log in), the agency token given by the
environment. Two hazards have no property, because the code does what they say; `PROJECT.json` names the
actions that model it.

Several hazards are covered in part, and a note in `PROJECT.json` says which part: overlapping lookups that make
two records or two contacts, a crash that leaves a login's page waiting, a suspension beside an insert of
tokens, two owners after overlapping logins, an edit of a report while its order is closed, a class overfilled by
requests that overlap, calls that overlap the count of posts. In each the code does not exclude the case, the
property excuses exactly it, by a history variable, and holds the code to the rest.
