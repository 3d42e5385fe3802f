# A TLA+ development for the ITAM API and its console

This directory holds TLA+ specifications of the parts of the API (`src/apps/api`),
of its maintenance worker and of the web console (`src/apps/web`) whose correctness
depends on the order of things: database statements of several requests, answers
that reach a page, a worker that dies between a mail and its marker. TLC
configurations check them on small instances, and TLAPS proves for every instance
what is not a question of liveness.

Contents: [the system](#1-the-system), [the modules](#2-the-modules),
[the runs](#3-the-runs), [fairness](#4-fairness), [the proofs](#5-the-proofs),
[disagreements with the code's own words](#6-where-the-code-disagrees-with-its-own-words),
[what is left out](#7-what-is-not-modelled), [the plan](#8-plan).

## 1. The system

The repository is a multi-tenant IT asset manager in the middle of a migration.
One half of the API keeps its data in PostgreSQL through Prisma and is wired up
in `app.module.ts`: `auth`, `identity`, `assets`, `tenancy`, `rbac`. The other
half keeps its data in MongoDB through Mongoose and is complete as services but
not yet wired: asset transfers, `users`, organisation management, `billing`,
`system`, `audit` and the maintenance worker. Some files that this half imports
are not in the repository (`asset-lifecycle`, `mongoose-database.service`,
`entitlement.service`, `asset-acknowledgement.service`, the enums); what the
models need of them is taken from how they are used.

API processes share nothing in memory. They meet in PostgreSQL, MongoDB and
Redis, so the hard behaviour is always the same kind: a handler awaits one
statement after another, the statements of two handlers interleave, and a process
may die between two of them. The unit of atomicity is the statement, the
PostgreSQL transaction (`PrismaService.runInTenantContext`), or the MongoDB
transaction (`session.withTransaction`).

In the web console the hard behaviour is the same one at the other end: the handler
of a button awaits a request and then a reload, the user goes on meanwhile, and a
handler that wakes up finds a page that is no longer the one it has left.

| Component (sources below `apps/api/src`) | State | Operations | Talks to | What is hard | What makes it correct |
|---|---|---|---|---|---|
| Asset transfers `modules/assets/asset-transfer.service.ts` | `asset_transfers`, `assets`, `asset_assignments`, `audit_events`, `asset_audit_events` (Mongo) | request, approve, reject, cancel, complete | users and organisation (destination must exist), audit | check-then-insert; compare-and-set against a transaction that retries; records written after the commit; crashes | one custodian per asset, single handover, an answered decision stands, what was answered is recorded |
| Asset registry `modules/assets/assets.service.ts` | `AssetType`, `AssetNumberingRule`, `Asset`, `AssetAuditEvent` (Postgres) | createAssetType, createAsset, transitionState | - | row locks, rollback after a number was drawn, unlocked reads | gapless numbers, generated numbers free, history agrees with status, no endless wait |
| Password sign-in and sessions `modules/auth/auth.service.ts`, `session.service.ts` | `User`, `Session`, `LoginHistory` (Postgres) | login, refresh, logout, issueSession | guards, provisioning | find, revoke and issue are three statements | one live session per sign-in, every session accounted for |
| Single sign-on `modules/identity`, `auth/provisioning.service.ts` | Redis entries for state, nonce and verifier; `User` | start, callback, upsertFromIdentity, SAML | identity provider, sessions | GET and DEL are two commands; find, link and create are statements of their own | a state that has signed somebody in is of no more use, people sign in as themselves |
| Guards and tenant scope `common/guards`, `tenant-scoped.repository.ts` | none (claims of the token) | canActivate | all controllers | permissions in a token are those of its issue | a request acts only in the caller's scope |
| Roles `modules/rbac` | `Role`, `RolePermission`, `UserRole` (Postgres) | createRole, assignRole | tokens | stale permissions | no system role is edited by a tenant |
| Users `modules/users` | `users`, `sessions` (Mongo) | create, update, setRoles, setActive, issueAccessLink, revokeSession | mail, audit, organisation | deactivate and revoke are two statements; an address is looked for before it is written | a deactivated user keeps no session, one row per address |
| Organisation `modules/tenancy/organization-management.service.ts` | companies, plants, locations, departments (Mongo) | update and remove at each level | users, assets, transfers | scope, counts and write are statements of their own | no child without its parent, nobody changes what is out of scope |
| Tenancy `modules/tenancy/tenancy.service.ts` | the same hierarchy in Postgres | create at each level | - | parent read before the insert | scope of the parent |
| Subscriptions `modules/billing` | subscriptions, plans, entitlements (Mongo) | assign, renew, setStatus, revoke; set, override and reset an entitlement | worker, platform administration | a list of upserts without a transaction; overrides and resets against plan changes | every feature of the plan is granted, every status is on record |
| Platform administration `modules/system` | tenants, platform users | setTenantStatus, roles, reports | users, console | suspend and revoke are separate statements | - |
| Worker `queue/worker.main.ts` | notification markers, audit retention | daily maintenance per tenant | mail, subscriptions | crash between mail and marker, purged markers, one failing tenant | an expiry is announced, and nobody is told twice |
| Audit `modules/audit`, `common/audit` | `audit_events` | interceptor, list, export | all | not awaited | - |
| Request forgery protection `common/security/csrf.middleware.ts` | none | one decision per request | - | a table of cases | - |
| Console (`apps/web`): organisation, users, assets, an asset, roles, companies, platform users | React state of a page: rows, flags, dialog, filter, selection | load, retry, and the buttons and forms of each page | the API | overlapping handlers and loads, lost answers, expired tokens | the page shows what was written, nothing is submitted twice, no button stays disabled |
| Storage, mail, integrations, seeds | - | - | outside services | - | - |

`PROJECT.json` lists the same components with their status, and every place where
the code is exposed to one of these difficulties with the properties that watch it.

## 2. The modules

| Module | Models | Role |
|---|---|---|
| `TransferLedger` | what the transfer service promises to somebody who sees only results | abstract specification |
| `AssetTransfer` | `AssetTransferService`, every await | detailed specification, implements `TransferLedger` |
| `AssetTransferProofs` | - | theorems about `AssetTransfer`: types and custody |
| `TransferRecordsProofs` | - | theorems about `AssetTransfer`: handovers, answers, audit and history |
| `TransferRefinement` | - | the theorem that `AssetTransfer` implements `TransferLedger` |
| `AssetRegistry` | `AssetsService` over PostgreSQL | specification |
| `AssetRegistryProofs` | - | theorems about `AssetRegistry` |
| `SignIn` | `AuthService`, `SessionService`, `IdentityService` with `OidcProvider` and its Redis cache, `ProvisioningService` | specification |
| `SignInProofs` | - | theorems about `SignIn` |
| `Subscription` | `SystemSubscriptionService`, `SystemEntitlementController` | the administrators' half of the next one |
| `LicenseNotifications` | the job of `worker.main.ts`, composed with `Subscription` | specification |
| `LicenseProofs` | - | theorems about `LicenseNotifications` and `Subscription` |
| `OrgHierarchy` | `OrganizationManagementService` | the organisation's half of the next one |
| `Users` | `UsersService`, composed with `OrgHierarchy` and with sign-ins | specification |
| `UsersProofs` | - | theorems about `Users` and `OrgHierarchy` |
| `Console` | seven pages of the web console, the guards of the API and the network between them | specification |
| `ConsoleProofs` | - | theorems about `Console` |
| `MCAssetTransfer`, `MCAssetRegistry`, `MCSignIn`, `MCLicense`, `MCDirectory`, `MCConsole` | - | constants of the instances for TLC |

The specifications of the API have the same form. `Proc`, or `Op`, is the set of
handlers at work; `pc[p]` is the await at which handler `p` stands and `job[p]` its
local variables. An action is what happens between two awaits. In the first three
modules `Step(p)` is the disjunction of the actions that carry a started request on;
requests start with actions of their own, since nobody is obliged to send one. In
the later ones an element of `Op` is one request, numbered in the order of arrival,
and there are `MaxOps` of them. Variables or fields called ghosts in the comments
are written and never read by the actions (the sequence number kept with an asset,
what clients were told); they let properties speak of the past.

### AssetTransfer and TransferLedger

`Request`, `CheckExisting`, `CheckUser`, `CheckDestination`, `Insert`, `Audit` are
`request()`; `ReadTransfer`, `Decide`, `Audit` are `approve()`, `reject()` and
`cancel()`; `ReadTransfer`, `Begin`, `Seize`, `Conflict`, `GiveUp`, `Commit`,
`Audit`, `RecordEvent` are `complete()`. `SetActive` and `LosePlace` are the users
and the organisation as a transfer sees them; `Crash` is the death of a process.

The MongoDB transaction is represented by three moments. `Begin` is its first
write, on the asset document, which fixes the snapshot: everything the
callback reads afterwards is the state of that moment, so its reads and checks
belong to this step. From then on another transaction cannot write that asset
(`AssetLocked`): it gets a write conflict, and `withTransaction` runs the callback
again or gives up (`GiveUp`). `Seize` is the compare-and-set on the transfer; if the
transfer has changed since the snapshot it conflicts instead (`Conflict`). `Commit`
publishes all the writes. The audit and lifecycle records are written after it,
outside the transaction, as in the code.

Points that are easy to get wrong when reading the code:

* The partial unique index on open assignments is not used. The property it would
  enforce is shown to follow from the transaction alone.
* `validateDestination` does several reads; they are one step. Places only ever
  disappear, so a successful sequence of reads succeeds at the moment of its last
  one.
* Mongoose drops fields that are `undefined` from `$set`, so a destination that
  was not named leaves its part of the asset alone (`Moved`). A transfer to a location alone
  therefore leaves the asset with a department of the old one, a combination that
  `validateDestination` refuses for a transfer; the code never checks it for an asset, and no
  property asks for it.
* `asset-lifecycle` is not in the repository. `Allowed` is any relation; the
  proofs hold for all of them, and the runs use a plausible one.
* Tenant and company scope are left out: all documents are those in the caller's
  scope, and a request for one outside of it ends in an error at its first read.

`TransferLedger` has no handlers, transactions or locks: five operations on the
status of a transfer and the custody of an asset, each one step. The refinement maps
the custodian of an asset to the user of its open assignment; all other ledger
variables are those of the service.

### AssetRegistry

`CreateAssetType`; `CreateAsset`, `GenerateAssetNumber` (`SELECT ... FOR UPDATE` and
the increment), `InsertAsset`, `CommitAsset` for `createAsset()`; `TransitionState`,
`UpdateAsset`, `CommitTransition` for `transitionState()`; `Rollback` for any error
and for the death of a process. Transactions are READ COMMITTED: an uncommitted
write is kept in `job` and blocks other writers of the row (`RuleLocked`,
`RowLocked`, `Inserting`), a plain read sees committed rows.

A number is a pair: what the rule writes around the sequence (`Label`: prefix,
separators, company code and width) and the sequence. Rules that print
different sequences alike, by prefixes that end in digits for instance, count as
rules with one label. `fields` of the request are spread over the row last,
so a caller may choose the number, and put the row into another company than the one
the type was looked up in: `Manual` is the set of numbers callers choose, and a `Row`
carries the company it ended up in, which is the one the unique index and
`transitionState()` look at. The label comes from the type. Other columns that `fields`
could replace are read by no statement modelled here.

Worth knowing: `GeneratedNumberIsFree` is about numbers the rules draw. A number that a
caller has chosen may be one that a rule comes to later - the instance has such a number -
and the creation that draws it is then refused at each attempt. The property leaves the numbers
in `Manual` out, and so that collision.

### SignIn

`Login`, `RecordLoginAttempt`, `IssueSession`; `Refresh`, `RevokeSession`,
`IssueSession`; `GetAuthorizationUrl`, `TakeValueGet`, `TakeValueDel`,
`ExchangeCode`, then `MatchExternalId`, `MatchEmail`, `UpdateProfile`,
`LinkExternalId`, `CreateUser` of `upsertFromIdentity()`, and `IssueSession` again.
A flow is a state with its nonce and verifier in Redis. An authorization URL that is
visited twice comes back with two codes for the one state, so `Code` and `State` are sets of
their own, with `FlowOf` and `PersonOf` saying whose a code is. The identity provider exchanges
an authorization code once, as OAuth 2 demands of it (`ExchangeCode`); this is the one assumption
about the outside service, and no property rests on it. The
rows of users have the two unique indexes of the schema: one on the address, one on company
and `externalScimId`; `CreateUser` and `LinkExternalId` are refused where PostgreSQL refuses them.

Worth knowing: `takeValue` is a GET and a DEL, so callbacks with one state that overlap all
pass (section 6); what does hold, and is checked, is that none passes that begins after
one of them has made its session (`StateNotReplayed`). `SignedInAsThemselves`
speaks of people who have an address of their own and have kept it: somebody who takes over the
address another person had before is found by it and linked to that person's row.

Failed and expired logins and refreshes leave no trace that anything here reads and
are no steps. `refresh()` does not look at `isActive`, so the model does not either.
`logout()` has no step: its route has no guard that would fill the `authContext`
it reads, so it fails before it changes anything. One company, OIDC only.

### Subscription and LicenseNotifications

`Assign`, `Renew`, `SetStatus`, `Revoke` read the newest subscription of a tenant;
`Save` writes it, or inserts one; `Grant` is one upsert of `materializeEntitlements()`,
which run under `Promise.all` and so end in any order; `Record` is the audit event and the
answer. `SetEntitlement` and `Override` write one entitlement (`WriteEntitlement`);
`Reset`, `ReadPrevious` and `WriteDefault` are `reset()`, which decides on the plan it
has read first. `assign()` writes no end when the status is `canceled`, as `setStatus()` and
`revoke()` do, so the old end stays. `Die` is a death after the first write. Two details of Mongoose matter: an upsert that
does not name `source` leaves one that is there, and `undefined` in `$set` is
dropped (`Same`).

`StartJob`, `Purge`, `PurgeFails`, `ReadSubscription`, `SendMails`, `WriteMarker`,
`EndJob` are the worker's loop over tenants; `Restart` is its death and the
queue's next attempt. `sendLicenseNotifications()` reads the subscription, the marker and the
recipients in a row; since the queue runs one job at a time and nobody else writes
markers, only the first read can be overtaken, so they are one step. A mail is an
outcome: it got away or was refused; that one is delivered and yet reported as failed is
left out. Days are numbers, `NextDay` the calendar.

`purgeExpired()` is called by the worker and not defined in the repository. It is taken
to delete the audit events of a tenant that are older than `Retention`. Markers are audit events, and so
are the records of subscription statuses: `Purge` removes old ones of both, `marks` and `trail`,
and the entries of `trail` therefore carry their day.

Worth knowing: the marker's key is tenant and threshold without a term, so a renewed
licence that ends again is not announced until the marker of the first time has been purged.
`ExpiryAnnounced` asks for an announcement of the very term that has ended, and is false in that
case; it says so and excepts it (`Masked`). `FeaturesGranted` excepts what a reset
that had read an earlier plan has deleted (`outrun`), which the code does not prevent. Two
assignments to a tenant without a subscription both insert one, and from then on the newer
one is the tenant's; assigning a plan writes the plan's values over overrides and leaves them
marked as overrides.

### OrgHierarchy and Users

`Update` and `Delete` are the four levels' methods at once: the level decides what is
counted (`Counted`) and whether a code is checked. `Climb` is one read of `assertDepartment`,
`assertLocation`, `assertPlant`, `assertCompany`, from a document up to its
company; `Count` is one of the `countDocuments`; `Remove`, `CheckCode`,
`Rename` the rest, with the unique index on companies' codes. `Add` is whoever creates documents below a parent.
Users are rows; `Create`/`Insert`, `UpdateUser`/`CheckTaken`/`Patch`,
`SetRoles`/`WriteRoles`, `IssueAccessLink`/`WriteLink`, `SetActive`/`RevokeSessions`,
`RevokeSession`/`WriteRevoked` are the methods up to and after their last await;
`SignIn`/`IssueSession` is a sign-in as these see it. A deletion of a company counts the
users that the same model creates.

Worth knowing: what the model allows and a reader may not expect is named in the
properties as an exception. A document added between the count and the deletion, or
a user whose company nobody looked for, is left without its parent (`late`); a
department is deleted whatever users and assets it has; a session
whose sign-in had seen the user active survives the deactivation (`overtaken`). The
compound index on company and `externalScimId` is sparse, and a compound sparse index
keeps a row that has any of its fields: of the users created without an
`externalScimId` a company can have one (`WithoutExt`).

### Console

One variable, `view`, is the React state of the page that is open; `calls` are the
handlers under way, each at one of its awaits; `store` is what the API has and
`version` counts its changes. `Handler(c)` is the disjunction of the pages' buttons, up to the first
`await`; `Serve`, `ServeRead`, `ServeRest` are the API with its guards; `Lose`
is a fetch that rejects, before or after the request was carried out;
`Reload`, `PatchRow`, `ReceiveRefusal`, `ReceiveFailure`, `ReceiveRows`, `ReceiveAsset`,
`ReceiveRest` are what a handler does when it wakes up. `Retry` is a button that only loads:
after an error on the pages of the organisation and the platform, at any time on an asset's page,
also while a transition is under way there. The requests of an asset's page are answered,
refused or lost one by one, and those that were answered are shown (`Promise.allSettled`);
they are answered from the store at one moment. `ExpireToken` and `Other`
are the ten minutes of an access token and other people.

The pages share these actions and differ in what the code makes different: which flags a
handler raises and which buttons look at them, whether errors are cleared, whether the page
reloads or patches its row, whether there is a dialog. The asset types of the assets page
and the parts of an asset's page are rows as well. A row stands for all that a page shows
of a document; texts, styles and layout are left out.

Worth knowing: where handlers may overlap, the last load to arrive wins, not the last
to be sent; the pages of assets, roles and companies raise no flag while they create; the
platform page keeps the id of one user whose roles are being saved, and the end of any save
clears it; on an asset's page `load()` clears the message that a success has
just set; the number of the table's page is not corrected when a load
makes the rows fewer; a load of the assets page that began without a selection makes one,
whatever the user has selected meanwhile. Each of these is the code's behaviour and an exception in
`ReadYourWrites`, `SubmittedOnce`, `PageInRange` or `ChoiceKept`: the properties say what is left
when it is set aside, and do not watch the excepted case itself.

## 3. The runs

| Run (cfg) | Instance | Distinct states | Result |
|---|---|---|---|
| `transfer` (`MCAssetTransfer`) | 2 handlers that may crash, 2 transfers of 1 asset that starts ASSIGNED, 1 user who may be (de)activated, 1 location that may vanish | 911,896 | type, custody, handover, decisions and records hold; `TransferLedger` is implemented |
| `transfer_live` (`MCAssetTransferLive`) | the same from IN_STOCK, without crashes, fair | about 290,000 | every request ends; every handover gets its event |
| `one_active_transfer` (`MCOneActiveTransfer`) | the same without crashes, with 2 locations that have a department each | - | violated, see 6 |
| `registry` (`MCAssetRegistry`) | 2 transactions, 2 types with labels of their own, 2 companies, 2 assets that may be put into either, one number a caller may choose, no transition begins after the first event, fair | 149,972 | numbering, uniqueness and history hold; every request ends |
| `shared_prefix` (`MCSharedPrefix`) | the same with one prefix, no chosen numbers and no transitions | - | violated, see 6 |
| `history_chains` (`MCHistoryChains`) | 2 transactions, 1 asset, 2 events | - | violated, see 6 |
| `sign_in` (`MCSignIn`) | 2 handlers that may crash, 2 user rows, 2 addresses, 2 persons, 2 flows with 3 codes, 2 sessions, patient clients | 1,254,234 | chains, accounting, identity and the use of states hold |
| `state_reused` (`MCStateReused`) | 2 handlers, 1 person, 1 flow with 2 codes, 2 sessions | - | violated, see 6 |
| `refresh_twice` (`MCRefreshTwice`) | 2 handlers, 1 user, 3 sessions, impatient clients | - | violated, see 6 |
| `licensing` (`MCLicense`) | 1 tenant, 2 plans, one with a feature, 1 key, 1 recipient, terms that end on day 0 or 1, days 0 and 1, 2 requests, 1 fault, fair worker | 1,147,913 | statuses and features hold; nobody is told twice; markers are of mails; the end of a term is announced |
| `directory` (`MCDirectory`) | 2 companies, one with a plant, a location, a department and an asset, 2 users, 2 addresses, 1 session, 2 requests | 523,379 | hierarchy, addresses, scope and deactivation hold |
| `console` (`MCConsole`) | each of the 7 pages, 2 rows (2 types and 1 asset on the assets page, the state and 2 parts on an asset's), 2 handlers, 2 writes, no retry after the second load, 1 change by others on all pages but an asset's, 1 fault, fair network | 1,013,854 | reads follow writes, nothing submitted twice, page number and choice kept, no button stays disabled |

**Properties**, each stated in words above its definition:

* `AssetTransfer`: `TypeOK`; `CustodyConsistent` (at most one open assignment, one
  while ASSIGNED, none while IN_STOCK); `HandoverOnce` (a completed transfer made its
  assignment exactly once, another transfer none); `DecisionsStand` (no two deciders
  are both told they won); `AcknowledgedIsRecorded`; `EventsAreTrue` (the history
  tells only moves that were committed, each with the status it replaced);
  `ImplementsLedger`; `EveryRequestEnds`; `HandoversGetRecorded`.
* `AssetRegistry`: `TypeOK`; `NumberingGapless`; `GeneratedNumberIsFree`;
  `HistoryEndsAtStatus`; `EveryRequestEnds`.
* `SignIn`: `TypeOK`; `OneLivePerLogin`; `SignInsAccountedFor`; `StateNotReplayed` (a callback
  that begins after a session was made for its state is refused, with whatever code);
  `SignedInAsThemselves` (a session of single sign-on belongs to the row linked to the person who
  authenticated, whoever was found, linked and created meanwhile).
* `LicenseNotifications`: `TypeOK`; `StatusRecorded` (the status a subscription is left
  in is on the trail by an event not older than the change, until events of that day are purged);
  `FeaturesGranted` (a feature of the plan has its entitlement once the assignments have ended,
  if no reset of an earlier plan has deleted it); `MarkedIsMailed`; `ToldOnce`;
  `ExpiryAnnounced`.
* `Users`: `TypeOK`; `OrphansAreLate`; `OneRowPerAddress`; `ScopeRespected`;
  `DeactivatedIsOut`.
* `Console`: `TypeOK`; `ReadYourWrites`; `SubmittedOnce`; `PageInRange`; `ChoiceKept` (a
  load that began with a selection leaves the selection alone); `ComesToRest`.

**Mutants.** Each property of a passing run has a mutant definition in the module
(its comment begins "Mutant of"): a plausible bug, such as a filter without the required
status, a missing `FOR UPDATE`, or a write outside the transaction. With the mutant in
place of the original, TLC finds the property violated.

**Bounds.** In the first three modules the instances are small sets of identifiers,
never cut-off counters, with two exceptions: `MaxEvents` stops the transitions of
the registry after one event or two, and identifiers (transfers, assets,
sessions, flows) are used once. `MaxEvents` is looked at when a transition begins, so two that
begin before the first event still race, in `registry` as well, where it is 1. Two handlers and
two transfers of one asset contain every race of the transfer service, since its guards relate a handler to one other handler, one
transfer and one asset; transfers of different assets share nothing. Two types and
two assets are what gaps, repetitions and collisions of numbers need. Two persons and two rows
are what it takes to be signed in as somebody else; three codes are two for a state of
one person, who has visited the URL twice, and one for a state of the other; two sessions are a
sign-in and its refresh, or two sign-ins.

The later modules bound the requests: `MaxOps`, `MaxWrites`, `MaxLoads`, `MaxOthers`,
`MaxFaults`, `LastDay`. Every exception that their properties name needs two
requests (a count and an addition, a deactivation and a sign-in, an assignment and a
reset) or one request and one fault, and so does every mutant. The worker's job is not bounded: it runs
as often as it likes on each of the days, so a notice can be due again after a purge
or a death. With two ends of terms a licence can end, be renewed and end again, and be announced
after a purge of the first marker or be masked by it. One tenant is enough, as the job keeps nothing
from one tenant to the next except that a failing purge ends it: for a tenant it had not come
to, that is `PurgeFails` before its turn, which the only one has too. With one recipient a mail is
refused or not; what several recipients and warnings ahead of the end change is left to the
proofs, which hold for any of them, and is not checked for `ExpiryAnnounced`. Other people change rows
on the pages in `Shared`: an asset's page, which can be refreshed at any time, has its
overlapping loads without them. The proofs of section 5 remove the bounds on the instances for every
property here but the liveness ones: there `MaxOps` and the like are any natural numbers.

**Symmetry** is used in `transfer` (handlers, transfers), `sign_in` (handlers, sessions,
codes of one flow, users, addresses) and `directory` (users, addresses): none of them has a liveness
property, and no definition prefers one of these values.

**Deadlock** is checked where the environment can always act. In the registry, in
`refresh_twice`, `state_reused`, `directory` and `console` it is not: once the identifiers or
the bounds are used up the instance has nothing left to do. That no request waits for ever
is `EveryRequestEnds` in the registry and `ComesToRest` in the console.

## 4. Fairness

* `AssetTransfer`: weak fairness of `Step(p)` for each handler. A started handler
  is a chain of promises; the event loop runs each continuation, the databases
  answer or fail, and there is no crash in the run that uses this. It is weak, so
  nothing is assumed of a handler whose next statement is only enabled now and then;
  the waiting completion always has `GiveUp`, the time limit of `withTransaction`.
  Requests, crashes and the environment are not fair.
* `AssetRegistry`: strong fairness of `Step(p)`. The waits here are for row locks, and
  PostgreSQL grants a row in the order of the queue, so a transaction cannot be
  overtaken for ever by ones that came later. `Rollback` is not fair: errors are not
  needed for progress.
* `LicenseNotifications`: weak fairness of `WorkerStep` alone. The queue's scheduler
  starts a job every day (`upsertJobScheduler`), a job that has started goes on as its
  statements are answered. No administrator, no day and no fault is fair; faults are
  at most `MaxFaults`, which is how the assumption that outages end is made.
* `Console`: weak fairness of `Net(c)` for each handler: a request is answered or fails at
  last and the browser runs the continuation. The user, the token and other people are not
  fair, and neither is `Lose`.
* `SignIn` and `Users` have no liveness property: they hold no locks and no handler waits.

## 5. The proofs

`tlapm` checks the eight modules of theorems: `AssetTransferProofs`,
`TransferRecordsProofs`, `TransferRefinement`, `AssetRegistryProofs`, `SignInProofs`,
`LicenseProofs`, `UsersProofs` and `ConsoleProofs`. Every invariant and every action
property that a passing run checks is a theorem, and so is the refinement; each
theorem stands under its own comment, next to the facts it is proved from.

They hold for all finite or infinite sets of handlers, transfers, assets, users, places,
types, companies, documents, sessions, flows, tenants, plans and people, any lifecycle
relation, any bounds, with and without crashes. What is assumed of the constants is named in the module that
declares them, and TLC evaluates it in every run:

* `TransferAssumption`, `RegistryAssumption`, `SignInAssumption`, `SubscriptionAssumption`:
  absent values are not members of the sets they complete, constant functions have
  their types, the numbers are numbers. Subscriptions are assigned a status of the code's list.
* `LicenseAssumption`: warnings are sent a positive number of days ahead.
* `OrgAssumption`: every document but a company has a parent of the level above, companies
  start with codes of their own, a caller's scope is one company or all of them.
* `ConsoleAssumption`: the seven pages, and finitely many rows on them, since a table
  divides their number into pages. A handler can start (`MaxCalls` is positive).

**AssetTransferProofs**: `TypeCorrect` and `CustodyIsConsistent`.
`CustodyConsistent` is not inductive. A commit replaces the assignment
that was open at its snapshot, so the proof needs `SnapshotCurrent`: while a
transaction stands between `Begin` and `Commit`, the asset's status and
open assignment are still those it has read. That, in turn, needs
`OneTransactionPerAsset`: two transactions past their first write work on
different assets, which is what writing the asset first buys. The other parts of
`Inv` say what is in a handler's local variables (`JobsKnow`, `DecisionsFit`,
`FromKnown`) and that the documents it speaks of exist (`OrdersKnown`,
`TransfersExist`). There is one lemma per action, grouped where actions move a
handler without touching documents (`MoveInv`, `RefuseInv`).

**TransferRecordsProofs**: `HandoversHappenOnce`, `AnswersStandForever`,
`AnswersAreRecorded` and `HistoryIsTrue`, from one invariant on top of the one above,
`RecordsInv`. Two of its parts carry the rest. `SeizedIsApproved`: a transaction that
has taken its transfer finds it APPROVED until it commits, so that the commit is the one
step into COMPLETED. `FinishersKnow`: from its commit to its last record a completion
remembers the move as it was committed, has no entry in the history yet, and is the only one
of its transfer to do so; that is why records written after the transaction, in any
order with others, are true and not repeated. `Stands` says what later states do not contradict a
decision; it is kept along every change of status the code makes (`StatusMoves`),
from the write (`WritesStand`) to the answer (`AnswersStand`) and ever after.

**TransferRefinement**: `ServiceImplementsLedger`. Of each handler one step changes what
the ledger sees: `Insert` is its `Request`, `Decide` its `Approve`, `Reject` or `Cancel`,
`Commit` its `Complete`; every other step stutters. The commit is the one that takes work:
that the ledger's guard holds at that moment is the status the snapshot was read with
(`SnapshotCurrent`) and the transfer that was seized (`SeizedIsApproved`), and that the
custodian the mapping chooses is the ledger's is `CustodyConsistent`.

**AssetRegistryProofs**: `TypeCorrect`, `NumberingIsGapless`,
`GeneratedNumbersAreFree` and `HistoryLeadsToStatus`. The third assumes `OwnLabels`: no two types
share a label, whatever company they are of, since `fields` can put a row into any; a label has
the code of a company in it. Without the assumption the statement is false (section 6). The
inductive part is `NumbersDrawn`: a transaction that has drawn a
number holds the value that `nextSequence` still has, and `OneHolderPerRule`: at most
one transaction has drawn from a rule and not yet ended. With `RowsNumbered` (the
number in a row is the caller's or made of the row's sequence) a generated number can
only collide with a row of its own type and sequence, and `GaplessFor` says there
is none. `CreationsKnown` and `TransitionsKnown` describe local variables.
`HistoryEndsAtStatus` needs no more than that events are about assets that exist
(`EventsOfAssets`), so that a new asset has none: after that, status and event are
published by one commit.

**SignInProofs**: `SignInTypes`, `SignInsAreAccountedFor`, `ChainsHaveOneLiveSession`,
`StatesAreNotReplayed` and `PeopleSignInAsThemselves`. All build on `AccountInv`: what a handler knows at
each await (`JobOK`), that the sessions handlers are about to create are different and unused
(`OwnSessions`), and that a chain of refreshes begins with a session that exists
(`ChainsRooted`). The rest is three invariants of three kinds of interleaving:

* `ChainInv`, while clients are patient: who is about to revoke a session finds it live,
  who is about to issue one finds no live one of its sign-in, and there are no two of
  either for one chain. Without patience each part fails (section 6, `refresh_twice`).
* `StateInv`: the value of a state is gone from Redis once some handler is past its DEL, and
  stays gone, whoever else is still between GET and DEL. A session is made after that,
  so whoever begins later finds nothing.
* `PersonInv` and `SelfInv`: addresses are unique by the index, and, until the provider changes an
  address, whoever is about to act on a row has found it by the external id or by the address of the person it
  is for. While everybody has an address of their own, that row is therefore linked to
  nobody else when the handler links it, and once it is linked no handler of another person reaches it.

**LicenseProofs**: `LicenseTypes`, `StatusIsRecorded`, `FeaturesAreGranted`,
`MarkersAreMailed` and `NobodyIsToldTwice`. The properties speak of the time when requests have ended; the
inductive invariants say who still owes what is missing. `StatusComes`: a status whose change is within
the retention is on the trail, by an event no older than the change, or a handler that wrote this status has yet
to record it - not necessarily the last writer, which is why two interleaved changes do no harm. A
purge takes nothing that the statement still speaks of.
`FeaturesCome`: a feature has its entitlement, or an assignment has it in its list. The one step
that could break it is the deletion in `reset()`: it takes no feature of the plan it has read,
and `outrun` holds what it took after that plan was replaced; of those the theorem says nothing. The worker has `NoticesOK` (a notice that is being sent has no marker, and those who have
got it are remembered) and `ToldIsMarked`: whoever has been told is covered by a marker, by
a lost one, or by the worker on its way to write it. That a tenant has a newest subscription
uses that a bounded set of numbers has a greatest one (`MaxIsIn`), which the library's
theorem on well-founded orders gives.

**UsersProofs**: `TypeCorrect`, `OrphansWereLate`, `ScopeIsRespected`,
`AddressesAreUnique` and `DeactivatedUsersAreOut`, for any organisation shaped as
`OrgAssumption` says and any number of users, sessions and requests. `OrphansAreLate` is
not inductive: that a document may go depends on what its handler has counted some
awaits before. `Counting` carries it: whatever is now below a document, of a kind that a
deletion has finished counting, is late. `OthersInv` says why nobody spoils this for
somebody else: what a step adds below a document is late for those it has overtaken, and
nothing moves from one parent to another. `ScopeRespected` needs `Scoped`: the way up from a
document stays in one company, by the shape of the organisation alone (`ParentIsAbove`), so that
the company at its end is the one whose scope was to be checked. `MoveInv` is
for actions that only move a handler, `RowInv` for writes to a user, `SessionsInv` for
writes to sessions.

**ConsoleProofs**: `ConsoleTypes`, `NothingIsSubmittedTwice`, `ReadsFollowWrites`,
`PageStaysInRange` and `ChoicesAreKept`, from `ConsoleInv`.
`FlagsHold` and `OneAtATime` are about flags: a creation or a transition has its flag up and
nobody else's handler lowers it; on the organisation page a write keeps `busy` from being empty
and a load keeps `loading` up, so the page offers nothing that would start a second handler.
`LastLoadIsNew` and `AnswersAreNew` are about order: all that has been acknowledged was
acknowledged before the last load was sent, so whatever it brings is of no older version
than all of it. The theorem is about pages that show the load they sent last, and that load
succeeded; an overtaken load can leave a page behind, and on the platform page a flag that another
save has cleared can. The organisation page is never in the exception of a load that is overtaken, because of
`OneAtATime`. The two action properties are proved of each step: a search begins at the first
page, only a load makes the rows fewer, and only a load that began without a selection makes one over the user's.

**Checked by TLC only.** The liveness properties `EveryRequestEnds` (of transfers and of
the registry), `HandoversGetRecorded`, `ExpiryAnnounced` and `ComesToRest`: the
prover handles neither ENABLED nor fairness, so that a proof would have to
assume what it is to show. And of course what section 6 shows to be false.

## 6. Where the code disagrees with its own words

* `one_active_transfer`: `request()` refuses with "Asset already has an active transfer
  request", but its check and its insertion are separate statements and no index
  backs them. Two requests at the same time leave two active transfers.
* `shared_prefix`: two types of one company may have the same prefix; the second one
  then generates a number that exists, and, because the rollback undoes the
  increment, generates it again at every attempt. The comment promises numbering
  without duplicates under concurrency.
* `history_chains`: two transitions that both read the old status write events that do
  not follow each other, although the events are "the single source of truth for
  asset history".
* `state_reused`: `takeValue` is to "read and delete atomically so a state/nonce value can never
  be reused even if a callback fires twice", and is a GET and a DEL. Two callbacks with one state
  both get its values; with a code each, from two visits to the authorization URL, both sign in.
* `refresh_twice`: a refresh token is "single-use", but two requests that both find
  its session before either revokes it both get a new session.

## 7. What is not modelled

* Reads that only list or report: search, timeline, audit list and export, the
  overviews of platform administration.
* The guards are modelled where a page meets them (`Console`); the API's handlers start
  from the point where their caller is admitted, with a scope where it decides
  something (`Users`). Roles in PostgreSQL: a permission in a token is the one of its
  issue, for ten minutes, which the plan keeps.
* Tenancy in PostgreSQL: creations of one row each under a parent that this service
  never deletes, so that nothing can come between the check and the insertion.
* Suspension of a tenant: `setTenantStatus` is `SetActive` and `RevokeSessions` on all
  of a tenant's users, with a read of their ids in between.
* SAML and the administration of identity providers, document storage, integrations,
  seeds: calls to outside services or single-operator scripts. Mail is its outcome.
  A mail that arrives although its sending was reported as failed is left out, and with it a
  second notice for that reason.
* The audit interceptor and the forgery protection: written, and not wired up in
  `app.module.ts`; the first records what it has seen and is never awaited, the second
  decides on one request alone.
* The console's login and landing pages, its layout, search of the assets page
  (a filter in the browser) and texts. `ConfirmDialog` is not in the repository; it is taken to call
  what it is given.
* Cryptography: passwords, tokens and codes are distinct values.

## 8. Plan

Modules, in the order of writing:

1. `TransferLedger`, `AssetTransfer` and proofs - done.
2. `AssetRegistry` and proofs - done.
3. `SignIn` and proofs - done.
4. `Subscription` with `LicenseNotifications` and proofs - done.
5. `OrgHierarchy` with `Users` and proofs - done.
6. `Console` and proofs - done.
7. `Roles` with the guards: permissions in a token against assignments made after its
   issue, bounded by the token's lifetime.
8. `CsrfDecision`: the middleware as a function, compared with a reference
   definition over all small requests.

All safety properties of the passing runs are theorems, as is the refinement. Worth doing
next: abstract specifications of sign-in (a chain of sessions that is one session to
its user) and of the console's page (a page that shows a version of the rows), with their
refinements proved, and properties for the exposures that `PROJECT.json` lists without one.
