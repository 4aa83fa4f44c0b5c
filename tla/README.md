# RentBrown: specifications, model checks and proofs

RentBrown lets users invest in rental property.  At this commit the API can sign
users in, give them roles, verify their identity (KYC), record their consents and
hold the policies these run under; a web client, a mobile client and a console
for officers use it.  Wallets, deposits, investments and withdrawals exist as
tables, as state machines and as pure functions only.  The specifications start
with the KYC workflow, where several actors (the user, the identity provider,
officers) change the same rows through handlers that read, wait and write; they
follow the state those handlers depend on; and they go on to the services and
the clients around them, where answers are late, lost, repeated or stale.

Contents: [the system](#1-the-system), [modules](#2-modules-and-the-code-they-model),
[what is checked](#3-what-the-runs-check), [fairness](#4-fairness-and-deadlock),
[disagreements found](#5-where-code-and-documentation-disagree),
[what is proved](#6-what-is-proved), [what is only checked](#7-what-is-only-model-checked),
[what is left out](#8-what-is-not-modelled), [the plan](#9-plan).

To check a model: `tlc -workers 2 -config kyc_sequential.cfg MCKycCase`.
To check proofs: `tlapm KycCaseProofs.tla`.

## 1. The system

`apps/api` is a NestJS service that may run as several instances over one
Postgres database; `apps/worker` runs pg-boss jobs; `apps/web`, `apps/admin` and
`apps/mobile` are clients; `packages/*` hold the schema, pure domain functions
and shared types.

| component | state | operations | what makes it hard | what makes it correct |
|---|---|---|---|---|
| KYC cases (`kyc.service.ts`) | `kyc_cases`, `kyc_checks`, `kyc_decisions`, `webhook_events` | start, submit, provider callback, refresh, officer's decision, internal note, views | every handler reads, waits and then updates by id; callbacks come early, late, twice, reordered or never; instances die between transactions | one open case; a decision behind every status; provider decisions are the provider's; tiers only from approvals; deliveries settled once; a submitted case gets decided; notes stay |
| KYC machine (`states.ts`) | none | `canTransition`, the hop through `IN_REVIEW` | the hop is in the service, not in the machine | every move of a case is a move of the machine |
| KYC documents, storage | `kyc_documents`, objects in a private bucket | upload, delete, signed URL | no transaction spans row and object; the count is read before the insert | listed documents can be opened; deleted ones are gone; the limit |
| Policies | `system_policies`, a cache per instance | `get`, `getWithVersion`, `set`, `list` | invalidation reaches one instance; a fill in flight outlives it; value and version are read apart | staleness is bounded; a version is repeated only by overtaken sets |
| Accounts | `users` | `findOrProvision`, `syncIdentity`, `setAccountStatus`, `updateProfile` | two first requests race; codes are found free before they are taken; status checked, then written by id | baseline role from birth; closed stays closed; a known user is served |
| Roles and guards | `user_roles`, `role_permissions` | `assign`, `revoke`, `grantSystem`, `grant-role`, guards | the guard's answer is used after further awaits; two super admins revoke each other | no escalation; a super admin remains |
| Legal consents | `terms_versions`, `user_consents` | current documents, pending, record | a version changes while the user reads; two clients accept at once | consent to the current version, audited once, in the end |
| Idempotency | `idempotency_keys` | lookup, reserve, store | crash between reserve and store; expired rows keep the key | at most one execution per key |
| Provider adapter | a cached token | submit, fetch, refresh of the token | a 401 clears the token while others refresh it; timeouts | one retry, no stale token kept |
| Admin lists | none | keyset pagination | cursor in milliseconds, column in microseconds; overlapping loads | each row once |
| Money, ROI, durations (`packages/domain`) | none | rounding, caps, amounts, calendar arithmetic | half-up, month ends | against their definitions |
| Domain machines (`states.ts`) | none | `assertTransition` | long legal paths | money moves once |
| Web and mobile clients | session, `me`, the case shown | fetch, sign in and out, onboarding, verification | answers arrive late, out of order, or never | what is shown belongs to the session and is current |
| Console | lists, the case shown | filter, load more, decide, note | two officers at once; views read in parts | what was written is kept and shown |
| Jobs and worker | pg-boss queues | enqueue, registry | redelivery | only a heartbeat so far |
| Audit | `audit_events` | append | written after the change, outside its transaction, failures swallowed | – |
| Wallet view | none | one read | – | – |

How they interact: a request passes `SupabaseAuthGuard`, `InternalUserGuard`
(which provisions the account) and, on admin endpoints, `MfaGuard` and
`PermissionsGuard`; its handler then calls services.  `KycService` calls
`PoliciesService` (tiers, document limits), the identity provider, storage, the
roles service (who may see a document) and the audit log.  The provider calls
back on `kyc-webhook.controller.ts` without a session, with a signature.  All
shared state is in Postgres, except the policy cache and the provider token,
which each instance keeps for itself.  The clients keep a session and a profile
(`GET users/me`, with pending consents and the withdrawal gate) and load the rest
page by page.

## 2. Modules and the code they model

Common conventions.  A handler is split where it awaits.  `req[r]` is one request
in flight: `at` names the statement it will run next, and the other fields hold
what it has read so far, which is never read again.  One database statement, or
one transaction, is one step (READ COMMITTED; every write names its row by id
only, as the code's do).  A refused request changes nothing, so it either ends
or is not served.  A crash drops a slot and nothing else.  On a page, the answer
of a request is one step and its arrival another.  In every module the mutants
that the checks use stand before the definition they replace.

### `KycMachine`
The transition table of `packages/domain/src/states.ts` and
`KycService.transition`: a move is allowed if it is one step of the table, or two
through `IN_REVIEW`.

### `KycCase`
| variable | code |
|---|---|
| `cases` | `kyc_cases`: status, requested and current tier, `closedAt` |
| `checks` | `kyc_checks`, numbered in the order of `created_at`; `hasJob` once the job id is stored |
| `decisions` | `kyc_decisions` of each case, in the order they committed; `prior` counts those that had committed when the request of this one read the case |
| `events` | `webhook_events`, one for each job and `Response-Timestamp` (`webhook_uq`) |
| `jobs` | external: what the provider has accepted and decided |
| `req` | the requests in flight |

| actions | handler |
|---|---|
| `StartCase` | `startCase` |
| `SubmitRead`, `SubmitInsert`, `SubmitAccepted`, `SubmitFails`, `SubmitCommit`, `SubmitRefused` | `submitIdVerification` |
| `CallbackReceive`, `CallbackUnknownJob`, `CallbackDuplicate`, `CallbackCheckPending`, `CallbackReadCase`, `CallbackApply`, `CallbackRollback`, `CallbackMarkFailed` | `handleProviderCallback` |
| `SyncRead`, `SyncPick`, `SyncNothing`, `SyncFetch`, `SyncUndecided`, `SyncApply`, `SyncRollback` | `syncFromProvider` |
| `ApplyDecision`, `Decide` | `applyDecision`, called by the two above |
| `DecideRead`, `DecideCommit`, `DecideRollback` | `decide` |
| `ProviderDecides`, `Crash` | external |

Choices worth knowing.  The job id is the check's id.  `SubmitFails` merges a
provider error with the UPDATE that marks the check FAILED; the job may exist all
the same.  A callback whose event id is known is a no-op, whatever became of the
first delivery.  The branch in which a check has no case cannot be reached
(theorem `Linked`).  An officer may grant tier 0.  `decide` lets a
`MORE_INFO_REQUIRED` case in although the machine has no decision for it; its
transaction always rolls back.  No code sets `EXPIRED`.  Consents, ID formats,
account status and policy guards are refusals; the audit rows and the names
copied to the profile are left out.

### `KycLifecycle`
The abstract specification: what the workflow promises about the status and the
tier of a case, without requests, checks or callbacks.  `KycCase` refines it
(`RefinesLifecycle`, theorem `ImplementsLifecycle`) when requests are served one
at a time.

### `KycDocuments`
Rows (`rows`), objects (`objects`) and requests of one case, whose status moves
along the machine meanwhile.  `UploadRead`, `UploadCount`, `UploadStore`,
`UploadRow` are `uploadDocument`; `DeleteRead`, `DeleteCase`, `DeleteRow`,
`DeleteObject` are `deleteDocument`.  `Fail` ends a request at any await; a
storage call that failed may have taken effect.  `mishap` is history.

### `PolicyCache`
One key of `system_policies` (`policy`), the cache entry of each instance
(`cache`), the calls in flight and the clock.  `GetCached`, `GetRead`, `GetFill`
and `GetVersion` are `get` and `getWithVersion`; `SetRead`, `SetWrite` and
`SetInvalidate` are `set`.  A read that fails caches the fallback, as the code
does.  `Latency` names an assumption of the model, not a constant of the code:
the longest time a fill is in flight.  Any slot may carry a `set`, several at
once, and a set writes the version it computed from its own read.  `changed`,
`written` (how often each version was given), `overtaken` (the sets that replaced
another version than the one they had read) and `failed` are history; `MaxRaces`
bounds the sets that start after overtaken ones, as `MaxVersion` bounds the
others.  Every key is seeded by a migration, so `set` always finds its row.

### `Accounts`
`users` (status of each row), `userRoles`, and the requests in flight, from the
guards to the commit.  `ArriveKnown`, `ArriveNew`, `Provision`, `ProvisionLost`
are `findOrProvision` under `InternalUserGuard`; `CheckPermissions` is
`PermissionsGuard` over the seeded grants; `ReadStatus`, `SetStatus` are
`setAccountStatus`; `CheckRoleChange`, `AssignRole`, `RevokeRole` are
`RolesService.assign` and `revoke`; `GrantRole` is the server-side script.
`wasSuper` is history.  A deleted account is a `CLOSED` one: one UPDATE writes
both.

### `Profiles`
The same table seen by its unique indexes: e-mail, username and referral code of
each identity's row.  `Request` is a request with a token, whose address may be
an old one; `SelectUser`, `PickCode`, `InsertUser` and `Reselect` are
`findOrProvision` with `uniqueReferralCode`, `SyncIdentity` is `syncIdentity`,
`ChangeUsername` the one field of `updateProfile` an index watches.  `known` (the
identity had its row when the request came, or got it from another request while
this one ran) and `raced` are history.  Only as many numbered suffixes are tried as `MaxSuffix`
says (ten in the code).

### `Idempotency`
A row for each key (`idemRows`), the commands in flight, and what was executed
(history).  `Lookup`, `Reserve` and `Store` are the three methods; `Issue`,
`Execute` and `Forget` are the command around them, which the service's header
prescribes and nobody has written yet, and which may die between any two calls.
`ExpireKey` is `expires_at` going by: `lookup` no longer sees the row, the unique
index still does.

### `DomainMachines`
The six tables of `states.ts` that no service drives yet, and one entity that
follows one of them wherever it may; `passed` keeps the states it was in.

### `Economics`
The functions of `packages/domain` as operators: half-up division, rates, capped
fees, the economics of an investment, amounts entered and shown, and the terms of
a plan over UTC dates.  A computation is one step that leaves its inputs and its
result in `worked`.

### `SmileIdentity`
The adapter's cached token (`smileCache`) and its calls: `GetToken`,
`TokenAnswered`, `TokenRefused` are `getToken`, `RequestAnswered` and
`RetryAfter` are `authedFetch`, `FetchFails` is `fetchWithTimeout`.  A call ends
with what it returns or throws: a refused token is an error whatever the call asks
for, while a 404 answered to a `fetchDecision` is a job still pending.  The provider
issues and forgets tokens when it likes (`IssueToken`, `ForgetToken`), which
`lost` remembers for each call.

### `Consents`
`terms` and `consents` are the tables, `screens` what each client of one user
shows.  `LoadDocuments`, `AcceptAll`, `SaveProfile` and `MeArrives` are the
onboarding screens of the two clients, which differ in what the web's form
requires and in the mobile gate (`Gated`) that leads back while documents are
pending; `CheckCurrent`, `InsertConsent` and `AuditConsent` are `recordConsent`.
`Publish` is an operator.

### `Sessions`
The session providers and the `MeProvider` of the three clients.  `AuthEvent` is
what the auth service reports, `Refresh` what screens ask for, `AnswerMe` and
`FetchEnds` the request's two halves.  The platforms differ in whether a sign-out
unmounts the provider and in which error codes show the blocked screen.  `mixed`
is history.

### `KycPage`
The verification page of web and mobile with the endpoints it calls, each one
step of the server.  A slot of `flights` is a handler at work, waiting for an
answer: a load (two requests), or an operation with the refresh of `me` after it,
which makes the page load again.  `current` and `doubt` are history.

### `ConsoleLists`
`listed` is the table behind a list of the console, `tagOf` the column its filter
tests, `console` the page's filter, rows and cursor, `loads` the requests in
flight.  Others insert rows (`InsertRow`) and move them to another status
(`ChangeTag`, bounded by `Moves`) while the list is walked; `walk` is history.  `PageOf`, `EncodeCursor` and
`After` are the endpoint (`listUsers`, `listAudit`, `listCases` differ in columns
only); the other actions are the pages.

### `CaseReview`
The console's page of one case, open at several officers.  `ReadCase` and
`Loaded` are `getCaseAdmin` and `adminCaseView`, which read the case and its
decisions at different moments; `ReadNotes` and `WriteNotes` are
`addInternalNote`; `CommitDecision` stands for `decide` and `syncFromProvider`,
which `KycCase` models; the rest is the page.  The user's submits, which move the
status without a decision, are left out.

### MC modules and proof modules
`MCKycCase`, `MCKycDocuments`, `MCPolicyCache` and `MCAccounts` declare the model
values and the symmetry sets.  `MCServices` and `MCClients` instantiate several
components that share no state, one of them in each behaviour (`focus`), so that
one run checks them at the cost of their sum.

| proofs in | about |
|---|---|
| `KycCaseProofs`, `KycCaseSafety` | `KycCase`, and that it implements `KycLifecycle` |
| `KycDocumentsProofs`, `PolicyCacheProofs`, `AccountsProofs` | the module each is named after |
| `ConsoleProofs` | `CaseReview`, `ConsoleLists` |
| `ServicesProofs` | `Idempotency`, `DomainMachines`, `Economics`, `Profiles`, and the composition `MCServices` |
| `ClientsProofs` | `SmileIdentity`, `Consents`, `Sessions`, `KycPage`, and the composition `MCClients` |

## 3. What the runs check

| run | instance | question |
|---|---|---|
| `kyc_sequential` | 2 cases of 1 user, 2 checks, 2 timestamps, 2 events, 1 request at a time, faults | does the workflow do what it promises when requests do not overlap? |
| `kyc_concurrent` | the same with 2 requests in flight, 1 event, outcomes APPROVED and REJECTED | what still holds when handlers interleave at their awaits? |
| `kyc_liveness` | 1 case, 1 request at a time, no faults, fair handlers | are callbacks settled, and is a submitted case decided? |
| `kyc_overwrite` | 2 requests | violation: two requests overwrite each other's move |
| `kyc_decided_twice` | 2 requests, 2 timestamps | violation: a redelivered verdict is applied twice |
| `kyc_documents` | 5 documents, 3 requests, limit 2, failures | do rows and objects stay together, and how far is the limit passed? |
| `policy_cache` | 2 instances, 2 calls that may both set, 2 values, TTL 2, latency 1, 3 versions, 2 overtaken sets, clock to 4 | how long is a replaced value served; when is a version given twice? |
| `policy_stamp` | the same | violation: the version returned is not that of the value |
| `accounts` | 2 users (1 bootstrap), 2 requests, 3 roles, the script | what do overlapping role, status and first requests preserve? |
| `services` | 2 keys, 2 payloads, 2 commands; every machine; some 600 computations; 3 rows in pages of 1, 2 of them changing tags, 2 loads; 2 identities and 2 requests; 2 officers with 3 requests | do the smaller services keep their promises, each alone? |
| `clients` | 2 calls and 2 tokens; 2 clients, 1 document, 2 versions, 1 failure; 2 users, 2 fetches, 3 platforms; 1 case, 2 handlers, 1 document | do those who wait get an answer, and show the right one? |
| `kyc_page_upload` | 1 case, 2 handlers | violation: the page shows a document as if it were the case |

KYC, one request at a time.
- `TypeOK` types every row and request.
- `CheckDecidedOnce`: a verdict is recorded once, however the callback, its
  redeliveries and the refresh share the work.
- `ProcessedMeansRecorded`: a processed callback has left its verdict on its
  check.  (A submit that timed out never stored its job id, so the callback of
  that job finds no check and is ignored.)
- `HistoryIsAPath`: each decision starts where the last one left the case.
- `SubmittedIsRefreshable`: a submitted case has a job that the refresh will ask
  about, whatever submits died or timed out before it.
- `EventsSettleOnce`: a settled event is never taken up again.
- `RefinesLifecycle`: the whole is an implementation of `KycLifecycle`.  It
  includes that the withdrawal gate, once open for a tier, stays open
  (`ApprovalIsKept`, a theorem of its own).

KYC, two requests in flight.
- `OneOpenCase` rests on the partial unique index, for updates as for inserts.
- `StatusHasDecision`: a decided case stands where one of its latest decisions put
  it.  `created_at` is the time a transaction began and ids are random, so of two
  decisions whose transactions overlapped either may bear the later time, whichever
  committed last.  The property therefore claims what no order of times can take
  back: some decision led to the status, and no decision was made by a request that
  had read the case after that one committed.  Where requests take turns both
  orders are one, which is why `HistoryIsAPath` may speak of the last decision.
- `ProviderDecisionsAreTheProviders`: a decision attributed to the provider names
  an accepted check of the same case whose verdict it is.
- `TierNeedsApproval`: no tier without an approval in the history.
- `IllegalMovesAreStale`: a move the machine lacks is made only by a request that
  commits on a status that has changed since it read it.

KYC, liveness: `CallbacksSettle` and `RefreshDecidesCase` (section 4).

Documents: `LiveHasObject` (the order "object, then row" on upload and "row, then
object" on deletion), `LimitPassedByRacersOnly`, `NoOrphans` (without failures).

Policies: `BoundedStaleness` (TTL plus latency, not the TTL alone that the
comment in the code gives: a read in flight at the time of the change starts its
TTL later, on the writer's own instance too), `VersionsRepeatByRaces` (a version is
given to a second value only where sets overtook one another, once for each that
was overtaken: officers who save one after the other never share a version, those
who save at once may, and a version may go back).

Accounts: `InvestorFromBirth`, `GrantersWereSupers`, `ClosedUndoneByStaleOnly`,
`LastSuperFallsToStaleOnly`.  The last two say exactly how much the code keeps of
"CLOSED is terminal" and of "there is always a super admin": a stale request can
break either, nothing else can.

Services.
- `NeverReexecuted` and `ReplayIsOwn`: a key is executed once, and what is replayed
  is the answer to the same payload.  The price is that a key whose command died
  stays in progress for good: the row that expired still refuses the next one.
- `MoneyMovesOnce`: no path of a machine pays and refunds, or releases what was
  never reserved.
- `MoneyIsExact`: profit, fees and amounts against their exact values.
- `MaturityKeepsOrder`: an investment activated earlier never matures a day or more
  after a later one of the same terms.  It cannot be made sharper: after the clamp
  to 28 February, 28 January 23:00 matures after 29 January 0:00.
- `ListIsExact`: no row twice, and none left out that was on the list when the walk
  began and whose status the filter still accepts without having changed.  Cases
  and accounts change status under a filtered list, so a row may leave before its
  page is loaded, or join behind the cursor; the property says that the rows which
  stay are not disturbed by those.  Two exceptions are the code's.  Rows created in
  the same millisecond as the last of a page are skipped; and since "Load more" is
  not disabled while a load is in flight, overlapping loads may repeat rows.
- `ReviewIsKept`: a note stays, unless another was being added at the same time; a
  status shown is never newer than the decisions listed below it (a newer decision
  may be listed under an older status); "added" means shown.
- `KnownUserServed` and `ConflictsAreReal`: which requests an index may refuse.  An
  identity that has its row is never refused, nor is the loser of two first
  requests, which takes the winner's row.  A
  new identity is refused for another's address or username, when it loses the
  race for a referral code, and when all ten codes of its name are taken and the
  random suffix, which the code does not look up, is in use.

Clients.
- `StaleTokenHeals`: a call ends on a 401 only with a token forgotten while it ran.
- `AuditedOnce`: two clients that accept at once leave one row and one event.
- `OwnProfileShown`: the profile is the session's own, except when a session follows
  another one directly, or begins on mobile while an earlier request is in flight.
- `PageHeals`: once nothing is in flight, the page shows the case as it was after the
  user's last operation, unless loads overlapped, one failed, or the last answer
  was that of a document.
- `WaitingEnds` and `OnboardingEnds`: section 4.

Bounds.  Two overlapping requests are enough for every lost update and stale
read here, since each needs one actor to read, one to write and the first to
write; three are used where a counted limit is at stake.  Two cases let a user
reopen; two checks let a resubmission overtake the first verdict; two timestamps
let one delivery be repeated both ways.  Three versions and two overtaken sets
(`MaxRaces`) let a version be given again and its entry outlive it, and the
clock covers TTL, latency and a further step.  Five documents exceed the limit
plus the racers.  Two tokens let a slow answer overwrite a newer token; two
versions let a document change under an open screen; one lost request of an
officer lets it be repeated next to another officer's.  Two rows of one instant
and one inserted later put a page's end inside a millisecond; of the `Moves`, one
row can leave its list and come back and another join it.  Prices, rates and
dates hold zero, one, ties, caps and every month end of a common and of a leap
year.  Symmetry is used over ids that only name rows, slots or instances, and
never in a run with liveness.

## 4. Fairness and deadlock

`kyc_liveness` runs `FairSpec`: weak fairness of each started handler
(`HandlersRun`), because Node resumes a handler when its await settles and every
call to the provider has a timeout.  No request is assumed to be made: that the
provider decides (`ProviderAnswers`, weak) and that someone keeps pressing
refresh (`KeepsRefreshing`, strong, since the endpoint is not always open) are
hypotheses inside `RefreshDecidesCase`, not part of the specification.  The run
has no faults and one request at a time.  With faults every refresh may die, and
an instance that dies with an event in hand leaves it RECEIVED for good.  What
deaths leave behind does not stand in the way of a later refresh, and that is a
safety property, checked and proved with faults (`SubmittedIsRefreshable`): a
request that dies between inserting its check and storing the job id leaves a
pending check without a job, which the refresh would find first, but the case is
then still waiting to be submitted, and the next submit inserts a newer one.
With overlapping requests a verdict applied to a stale status can leave a
resubmitted case without a pending check.

`clients` states the fairness of each component under its focus
(`ClientsFairness`).  A call of the adapter goes on, since its fetch has a timer;
a client's request ends, answered or not.  These are enough for `WaitingEnds`:
no spinner and no call lasts for ever, whatever is refused or lost.  The clients'
`ApiClient` sets no timeout: that its requests end is an assumption about the
browser, the phone and the network, not something the code sees to.
`OnboardingEnds` needs a user as well: on mobile the user ticks the boxes, fills
in the form, has the session renewed from time to time (all weak) and opens
onboarding again after an error (strong, since an error may be shown and cleared
repeatedly).  Publications and failures are bounded, as the property needs: it
speaks of what holds once they have ceased.  Nothing of the kind holds on the
web, where an account page without the gate lets the user stay.  A session is
renewed only while the home screen shows; a renewal in the middle of onboarding,
which would load `me` once more, is not modelled.

`CHECK_DEADLOCK FALSE` stands where a bounded supply runs out or a machine ends:
case, check and event ids, document ids, policy versions and the clock, the
terminal states and the single computations of `services`.  `Accounts` and
`clients` never stop and are checked for deadlock.

## 5. Where code and documentation disagree

- `kyc_overwrite` / `StatusFollowsMachine`: `decide`, `applyDecision` and
  `submitIdVerification` check the transition on a status read before their
  transaction and update by id.  An officer's rejection and the provider's
  approval can both commit: the case goes from APPROVED to REJECTED, which
  `docs/STATE_MACHINES.md:3` rules out.
- `kyc_decided_twice` / `RedeliveryAppliesNothing`: whether a check has been
  decided is tested before the transaction that decides it, so two deliveries of
  one verdict can both apply it, contrary to the comment at
  `kyc.service.ts:376-378`.
- `policy_stamp` / `StampIsForValue`: a new case can be stamped with a policy
  version that is newer than the tiers it was started under.
- `kyc_page_upload` / `ShownIsACase`: the API client declares that an upload
  answers with the case (`api-client/src/index.ts:196`); the controller answers
  with the document, which the page then shows as a case without status: the
  cards of a user who has not started.

## 6. What is proved

All theorems are of the specifications above, for every value of their constants
(any users, cases, documents, instances, requests in flight, bounds, TTL), under
the named assumptions of each module only.  The runs check the same formulas on
small instances.

**KycCase** (`KycCaseProofs`).  `TypeOK` is not inductive: handlers act on ids
they remember.  `Inv` adds that rows refer to rows that exist, that a request at
a step has read what the earlier steps read, and that two submits in flight work
on different checks.  `Linked` is `Spec => []Inv`, `TypeCorrect` follows.

**KycCase** (`KycCaseSafety`).  A case row is written in three places: started,
submitted, ruled on.  Every step is shown to be one of the three or to leave cases
and decisions alone, and each property is then preserved by the three:
`OneOpen`, `DecisionBehindStatus`, `OnlyStaleCommitsMoveIllegally`,
`ProviderEvidence`, `TierFromApproval`.  `DecisionBehindStatus` needs two facts:
the decision that committed last names the status (`LastNames`), and a decision
counts only decisions that committed before it (`PriorsBefore`), so that none is
surely later than the one that committed last.

**KycCase, deliveries and one request at a time** (`KycCaseSafety`, second half).
`EventsHeld` says that a callback in flight holds an event of its own that is not
settled yet; `DeliveriesSettleOnce` follows for any number of requests.  The rest
assumes `OneByOne` (two requests are the same one).  Then `Turns` is invariant:
what a request has read of its case and of its check is still so when it commits.
`RefreshKept` adds that a submit works on the newest check of a case that is not
submitted yet, and yields `SubmittedNotStranded`.
From `Turns` follow `VerdictsRecordedOnce` and `ProcessedIsRecorded` (a settled check is
never written again), `HistoryIsOnePath` (with `LastWord`: the latest decision is
where the case is, or asked for what was submitted), `TiersAreKept`, and
`ImplementsLifecycle`: every step is a step of `KycLifecycle` or leaves the status
and the tier of every case alone.  `MovesFollowMachine` and
`RedeliveriesApplyNothing` are the two promises that section 5 shows broken by
overlapping requests: the overlap is the only reason.

**KycDocuments** (`KycDocumentsProofs`).  `Inv` says what each request knows of
the document it holds, that one request at most is about to make a document's
row, that without failures every object is listed or in the hands of a request,
and that live documents and uploads past the count together stay within the
limit plus the other requests.  Theorems `DocumentsTracked`, `ListedCanBeOpened`,
`LimitNearlyKept`, `NothingLeftBehind`.

**PolicyCache** (`PolicyCacheProofs`).  `Inv` ties the expiry of an entry that
differs from the row, and the read time of an answer in flight that does, to the
row's last change.  For the versions, `VersionInv` counts: each has been given at most
once more than there were overtaken sets, and one above the row's version not even
that once, since the set that takes the row back from it is itself overtaken.
Theorems `CacheInvariant`, `CacheTyped`, `StalenessBounded`,
`VersionsRepeat`, for any number of setters.

**Accounts** (`AccountsProofs`).  A request commits on earlier checks, so `Inv`
records the part of them that nobody can undo: that the actor has been a super
admin, that the target is someone else and exists, that the move was allowed from
the status seen.  Theorems `ChecksHold`, `BaselineRole`, `NoEscalation`,
`ClosedStays`, `LastSuperStays`.

**Idempotency** (`ServicesProofs`).  `IdemInv` follows the one command that
reserved a key: nobody else holds it, its row keeps the hash it was reserved with
and is never taken over, what was executed was reserved, and an answer is that
of an execution.  Theorems `IdemTypeCorrect`, `KeysNeverReexecute`,
`AnswersAreOwn`.

**DomainMachines** (`ServicesProofs`).  `MachinesInv` says that the states passed
are its machine's, that what is final is the present state, and that a state
which is not a first one has a state that leads to it behind it.  The six tables
are what they are, so the argument looks at each; the paths may have any length.
Theorems `MachinesType`, `MoneyMoves`.

**Economics** (`ServicesProofs`).  `MoneyExact` holds for all integer prices and
quantities: a half-up quotient is enclosed by its remainder (`MulBpsNearest`), and
digits that were padded are read back (`Padding`, `Shown`).  `MaturitiesInOrder`
numbers the months of the calendar from its beginning.  A later month begins at
least 28 days after an earlier one (`MonthsApart`, `LaterMonth`), the clamp moves a
day within its month only, and so a term keeps the order of two dates to the day
(`AddsInOrder`, `TermsInOrder`) and lasts 28 days a month at least (`AddsLong`).
It assumes real dates and terms in `Nat` (`CalendarAssumption`), nothing of their
size.

**Profiles** (`ServicesProofs`).  `ProfileInv`: a request that found its row, or
whose identity had one or got one meanwhile, still finds it, for rows are never
deleted, so a reselect finds the winner; a numbered
code that was found free is free unless another request took it.  Theorems
`ProfilesType`, `KnownUsersServed`, and `ConflictsReal`, an action property.

**CaseReview** (`ConsoleProofs`).  A handler rewrites the notes it read, so
`ReviewInv` speaks of every copy of them: what is stored, what each handler has
read and what each page was told.  A note that overlapped no other is in all
copies taken after it was added; two handlers that run at once are marked as
overlapping.  Theorems `ReviewType`, `ReviewsAreKept`.

**ConsoleLists** (`ConsoleProofs`).  Finite sets of rows have one order, newest
first: a row's position is one more than the number of newer rows
(`SortingExists`, `NewestFirstSorts`), so a page is the first rows after its
cursor (`PageOfIs`).  `ListInv` says what each answer in flight holds when it
arrives; while a walk goes on, a row that matched at its start and kept its tag is
shown, cut off by a cursor, or still ahead of it.  A changed tag takes its row out
of a filtered walk, and an unfiltered one does not look at it (`ChangeTagKeeps`),
for which the invariant keeps that the walk's filter is the page's.  Theorems
`ListsType`, `ListsExact`, for any page size and any insertions, failures, changes
of the filter and of what it tests.

**SmileIdentity** (`ClientsProofs`).  A token on its way to a call, or that a
retry asks for, is accepted by the provider or was forgotten while the call ran
(`SmileInv`).  Theorems `SmileTypeCorrect`, `StaleTokenAlwaysHeals`.

**Consents** (`ClientsProofs`).  `ConsentInv` keeps the consents that a client
still owes an audit event apart from those that have one and from those the
other clients owe.  Theorems `ConsentTypeCorrect`, `ConsentsAuditedOnce`.

**Sessions** (`ClientsProofs`).  Unless sessions were mixed, what is in flight is
of the session that is open (`SessionInv`).  Theorems `SessionsType`,
`ProfilesAreOwn`.

**KycPage** (`ClientsProofs`).  `PageHeals` speaks of a quiet page only.
`PageInv` says what holds before: unless there is doubt, the page is current or a
handler is at work whose answer will make it load, and a lone load that shows
what is old has been overtaken by an operation that was carried out.  Theorems
`PageType`, `PagesHeal`.

**The compositions.**  A behaviour of `MCServices` is, for each component, a
behaviour of that component (`ServicesAreComponents`; the entity of
`DomainMachines` may stand still in an end state, `MachinesOnAlways`), and the
invariants of the four clients hold together in `MCClients` (`ClientsInvAlways`).
So `ServicesType`, `ServicesSafe`, `ClientsType` and `ClientsSafe` state what the
two runs check, of the very specification they explore.

Minima.  The maximum of a finite set of numbers, and the number of months between
two dates, are reached from a least counterexample (`NatMin`, from the library's
`WFMin`): the induction theorems take an operator the provers cannot instantiate.
For the same reason `NewestFirst` is the sequence chosen for being sorted, rather
than the result of a library's sort.

Assumptions on constants are those the code gives: ids differ and are not 0, which
stands for "no cursor" (`ListsAssumption`), the first rows are finite, placeholders
are no values, limits are natural numbers.  TLC evaluates each in some run.

## 7. What is only model-checked

Liveness under fairness and `ENABLED` are beyond the prover: `CallbacksSettle`,
`RefreshDecidesCase`, `WaitingEnds`, `OnboardingEnds`.  The violations of section 5
are counterexamples, which only a run can show; that one request at a time
avoids the first two is proved.  Every other property of a run, type invariants
included, is a theorem.

## 8. What is not modelled

Formatting, validation of inputs, logging, rate limits and the audit rows (but
for those of consents).  Token verification, MFA and session age, which refuse
requests without changing state.  Of `updateProfile`, the fields no index
watches; the merge of notification preferences loses one of two concurrent
changes, as notes do.  The signatures of the provider's callbacks and the mock
provider.  The console's policy editor, whose save reloads the drafts of the other
policies, and its dashboard; sign-in, settings and static pages of the clients.
The wallet view reads balances nothing writes.  The worker runs a heartbeat only,
and its delivery is pg-boss's own.  UI packages, design tokens, generated
migrations, shared types and the tables of the ledger hold no behaviour yet.

## 9. Plan

Done, in this order: `KycMachine`, `KycCase`, `KycLifecycle`, `Accounts`,
`PolicyCache`, `KycDocuments` and their proofs; `Idempotency`, `DomainMachines`,
`Economics`, `SmileIdentity`, `Consents`, `Sessions`, `KycPage`, `ConsoleLists`,
`Profiles`, `CaseReview` and their proofs; the two compositions.

What is left: theorems about what has no property yet, such as that the policy
cache, with nobody writing, implements the table it caches, or that idempotent
commands implement a command executed once; a module for jobs and one for the
ledger once handlers and services for them are written, which `DomainMachines`,
`Economics` and `Idempotency` are ready for; sequential KYC for several requests
that lock the case row, should the code come to do so, where `KycLifecycle` is the
specification to meet again.
