# Internal Operations Service Hub: TLA+ models and proofs

The hub is a NestJS/Prisma server with a React client.  Companies sign up,
invite staff and keep departments with request types.  Staff submit requests.
A request may need a decision by a Department Admin or a Super Admin, is claimed
by a handler of its department and is moved from `SUBMITTED` through
`IN_PROGRESS` to `COMPLETED`.  PostgreSQL holds all of it; the server keeps
only the login rate limiter in memory.

Every claim below is about the source at `src/`.  File names such as
`requests.service.ts` are short for `src/src/requests/requests.service.ts`;
`PROJECT.json` maps each definition to its file and lines.

How to run: `tlc -config MCRequests.cfg MCRequests.tla` (and so on for the other
configurations), `tlapm RequestsProofs.tla` (and so on for the other proof
modules).

## 1. Inventory

### Components

| Component | State it keeps | Operations that change state | Modules |
|---|---|---|---|
| Request service (`requests.service.ts`) | `Request`, `ApprovalDecision`, `RequestStatusHistory` rows | `create`, `decide`, `claim`, `transition` | `AccessRules`, `HubState`, `Requests`, `RequestLifecycle`, `RequestsProofs` |
| Account administration (`admin.service.ts`) | `Employee` rows; revokes `Session` and `Invitation` rows | update and removal, by a Super Admin and by a Department Admin | `Staff`, `StaffHistory`, `HubProofs` |
| Accounts and sessions (`auth.service.ts`) | `Company`, `Employee`, `Session`, `EmailVerification`, `Invitation`, `PasswordReset` rows | `signupCompany`, `verifyEmail`, `inviteStaff`, `acceptInvitation`, `requestPasswordReset`, `resetPassword`, `changePassword`, `login`, `logout`, the expiry in `authenticate` | `AccountAccess`, `AccountAccessProofs`, partly `Staff` |
| Login rate limiter (`login-rate-limit.ts`) | three Maps of buckets, in memory | `admit`, `settleFailure`, `settleSuccess`, `abandon`, `noteProbe` | `LoginRateLimiter`, `LoginRateLimiterProofs` |
| Departments and request types (`auth.service.ts` 399-680, templates) | `Department`, `RequestType` rows | create, confirm a list, edit, delete; rename | `Catalog`, `CatalogProofs` |
| AI intake (`ai.service.ts`, `requesty-ai.provider.ts`, `intake.schema.ts`) | none that lasts | one suggestion, with retries against an external model | `IntakeAssistant`, `RequestForm`, `RequestFormProofs` |
| Outgoing mail (`email-sender.ts`) | none | one mail, before the transaction that needs it commits | the `mailbox` of `AccountAccess` |
| Lists, counts, cards (`requests.service.ts`, `dashboard-counts.ts`, `dashboard-figures.ts`, list queries) | none | read only | `RequestViews`, `HubViews`, `HubProofs` |
| HTTP shell (guards, interceptor, filter, config, health) | none | the activity stamp | the guards and the cookie in `ClientSession` |
| Web client session (`api.ts`, `App.tsx`, `pending-invites.ts`) | session generation, CSRF token, current account, prepared invitations, one set per tab | sign-up, sign-in, sign-out, reset, page load, reads and writes of the page, the loop that sends prepared invitations | `ClientSession`, `ClientSessionProofs` |
| Web client pages: request overlay (`App.tsx`, `request-workspace.tsx`, `form-overlay.tsx`) | fields, loaded lists, the assistant's answer, what is busy | open, close, choose, edit, analyze, accept or decline, create | `RequestForm`, `RequestFormProofs` |
| Web client pages: address, list and inbox (`App.tsx`, `routing.ts`, `staff.tsx`, `approvals.tsx`) | view, staffView, formMode, the address and its past; rows, overlay and calls of the two pages | links, Back, load, open, close, claim, start, complete, decide | `Navigation`, `RequestPages`, `RequestPagesProofs` |
| Web client pages: staff, departments, settings, wizards before sign-up | the text of a form | one call per form | not modelled (section 6) |
| Schema, migrations, seed | the tables themselves | run outside the service | the variables and initial states of the models |

### Interactions

* Every route except signup, login and the links of a mail passes
  `SessionGuard`, which calls `AuthService.authenticate` and leaves a copy of the
  account on the request.  `RequestsService` reads its actor once more
  (`requireActor`), `AdminService` trusts the copy of the guard.
* `AdminService` counts the `Request` rows of an account before it removes it;
  `RequestsService` reads the `Employee` rows that `AdminService` edits.  The two
  services share tables and no lock.
* `login` asks the rate limiter for a slot, verifies the password hash (the slow
  await of the system), then settles the slot and creates the session.
* `RequestsService.create`, `inviteStaff` and `updateCompanyEmployee` look a department
  or a type up and write a reference to it later; the foreign keys (`ON DELETE
  RESTRICT`) are what stands between them and a deletion.
* `signupCompany`, `inviteStaff` and `requestPasswordReset` send a mail from inside
  their transaction.
* `AiService.analyze` reads departments and types, waits for the external model up
  to three times, and holds the answer against what it read before the wait.
* Every call of the client leaves with the cookie of the browser, which all tabs
  share, and with the CSRF token and the generation of its own tab.  An answer of an
  earlier generation is turned into a stale-session error by `api.ts`; the
  `CsrfGuard` refuses a write whose token is not the one of the cookie's session.
* A sign-up leaves the invitations prepared in the wizard in the tab's
  `sessionStorage`; the founder's first sign-in there takes them out and sends them.
* The pages hold copies of what they have loaded.  The server re-checks every
  claim, transition and decision against the live rows; the client only decides what it
  offers, with its own copies of the rules.

### What is hard here

Each `await` on Prisma is a point where another HTTP request may run, and each
statement outside a `$transaction` commits on its own.  PostgreSQL runs at READ
COMMITTED.  A conditional `updateMany` re-evaluates its WHERE on the row it
locks, so it is an atomic test-and-set; a `findUnique` followed by an `update` by
id is not.  The code uses the first in `decide`, `claim` and the three links, and
the second in `transition`, `updateCompanyEmployee`, `changePassword` and in
the counts of `AdminService`.  The hazards in `PROJECT.json` are the places where
this matters, with the crash, mail, limit and clock hazards beside them.

In the client every `await` is a point where the person may click, another answer may
arrive, another tab may sign in as somebody else, and the page may be left.  React
state captured by a handler is a copy of the moment of the click.  Some places are
guarded against late answers (`api.ts` by the generation, the overlay by
`openRequestIdRef`, the inbox by the `cancelled` flag of its effect), others are not
(section 4).

### What makes each component correct

* Requests: one decision and one owner per request, final once set; approval
  before claim, whatever order decisions and claims arrive in; audit rows that
  agree with the columns they explain; a denied request is dead.
* Administration: a company keeps an active Super Admin; no inactive account owns
  unfinished work; an account is reactivated only by an act that means to.  The code
  achieves this up to races of its own calls, and the models say which.
* Accounts: nobody is signed in who has not opened a mail; a link works once; a
  password change ends the sessions that do not know the new password.
* Rate limiter: logins in flight and failures of one window never exceed the
  limit; slots are neither leaked nor lost; no lockout lasts for ever.
* Departments and types: a deletion leaves no reference behind, a refused one costs
  nothing, a confirmed list lands whole.
* AI intake and the request overlay: an answer names what exists and fits together, a
  type never stays selected under another department, one content makes one request,
  the buttons come back whatever the provider does.
* Lists and cards: a figure is the length of the list it links to, but for one total, a row that is
  offered opens, a button is there exactly when the server takes its call, who may
  decide is told so.
* Client session: a write is made as the account whose page asked for it, answers to an
  earlier account are dropped, invitations reach the company they were prepared for or
  are kept, the page never stays on Loading.
* Pages: the page shown is the one its address gives after a reload, the overlay is the
  request that was opened last, its history belongs to it, what was closed stays closed.

## 2. The models

A model step is one awaited Prisma call: a single statement, or one
`$transaction`.  What a handler read earlier is kept in its call record, as a
copy, and never refreshed.  Restarting the server drops every call in flight and
keeps the tables (`Restart`, `StaffRestart`, `HubRestart`, `AccessRestart`), or
the other way round where the state is in memory (`LimiterRestart`).

### AccessRules

The enumerations of `schema.prisma` and the pure rules of `handler-access.ts` and of
the `assert...` helpers of `requests.service.ts`, as operators on rows.  A row has
the columns the rules read and no others.  `NULL` is both the database NULL and
the absence of a row.  `claimed` stands for `claimedAt IS NOT NULL`.

### HubState

The tables that more than one service touches: `employee`, `session`,
`invitation`, `requestType`, `request`.  A session is the set of accounts that hold
an unrevoked one; `AccountAccess` models sessions one by one.  `LegacyRows` are
requests from before approval states, the rows that the migrations leave with a
NULL approval state.  They are initial states because the service still serves
them (`legacyApprovalStillRequired`).  `InitialAssumption` says that these rows and the
accounts at the start name departments of their own company, as every route that writes them
checks; that the services keep it so is not assumed but proved (`CompaniesStayApart`).

### Requests

`call[c]` is an HTTP request in flight, with the step it has completed: `begun`
(the guard let it through), `actorRead` (`requireActor` returned), `checked` (the
row was read and every check passed).  For each operation there is a read
action and a write action, and a conflict action for the writes that are
conditional:

| Operation | Read and checks | Write | 409 |
|---|---|---|---|
| `create` | `CreateRead` | `CreateWrite` captures the policy as read | |
| `decide` | `DecideRead` | `DecideWrite`: the conditional update and the decision row, one transaction | `DecideConflict` |
| `claim` | `ClaimRead` | `ClaimWrite`: the WHERE on the live row, the department of the actor as read | `ClaimConflict` |
| `transition` | `TransitionRead` | `TransitionWrite`: update by id and history row, one transaction | none in the code |

`Refuse` is every 400, 403 and 404 of the handlers: the call ends, nothing is
written.  The order of the checks is abstracted to their conjunction, since the
status code is the only thing that order changes.

### RequestLifecycle

The abstract specification: a request is absent, waiting, open or denied; it is
submitted, ruled on, taken and worked on.  It has no accounts' roles, no calls
and no races.  `Requests` maps its tables to it (`Promise`), and `KeepsPromise`
says that every behaviour of the tables is one of the abstract life cycle.

### Staff

`AdminService` in the steps of its statements: guard, read of the account with its
checks, the count of other Super Admins, the count of unfinished work, the update,
and the revocation of access (the only transaction).  `EditedRow` is the row
`updateCompanyEmployee` writes, which is every column: absent fields are written
back as they were read.  `acceptInvitation` and the two halves of `login` are
there because they bring an account, or a session of it, back between two steps
of a removal.  `AdminInputs` bounds the bodies to consider.

### StaffHistory

`Staff` with two history variables, which no step depends on.  `outdated[k]` is who has been
displaced (removed, or given another role) since call `k` read its account, `raced` are the companies
in which a call has displaced somebody after such a displacement.  Administrative calls overlap
freely here.  What the code promises without qualification (`SomeActiveSuperAdmin`,
`OnlyGrantedActivation`, both in `Staff`) then fails, as the two violation runs show; with the
history it can be said that nothing but that race breaks it, and this holds for every call in
flight: `OnlyARaceTakesTheLast` and `OnlyARaceWritesBack`.

### Hub

`Requests` and `Staff` over the same tables, composed by interleaving: a step of
one service leaves the private variables of the other unchanged.

### LoginRateLimiter

Each method is one step, because none of them awaits.  A bucket has the age of
its window, its failures and its slots.  The age saturates at `Window`, where
`windowExpired` holds for good.  `admit` and `refuse` are the two outcomes of the
method `admit`; `refuse` includes giving the email's slot back when the
address is refused.  `noteProbe` is the same on a store of its own.  `Tick` is the
clock.

### AccountAccess

Accounts, links and sessions of `AuthService`.  A handler is split at the awaits
that matter: after the hash of a new password, after the verification of a current
one, after the lookup that precedes a transaction.  The reset transaction is split
once more (`resetRetire`, `resetCommit`), because at READ COMMITTED its first
statement does not see the link another reset is about to insert.  `mailbox` is
what left the server: a mail is sent before its transaction commits, so a
`Rollback` may leave a link in the mailbox that no table knows.  Link tokens are
values of their own; that a link can be opened only by who got its mail is the
guard `l \in mailbox`.  `openedWith` is a history variable that only a property
reads: the password the session was last proven with.  `administer` is the part of `AdminService` that decides who can sign in,
with the checks of `Staff` left out, so that the invariants here hold for any
administrator.

### Catalog

Departments and request types, against the calls that come to depend on them
(`submit`, `assign`).  A call is a record that goes through its statements: `insert`
checks its names one by one (`checkName`) and commits, `edit` checks and commits,
a deletion counts, then deletes.  The transaction of `deleteDepartment` has two
statements: `deleteTypes` remembers the types it deletes, which shows to others only at
`deleteDepartmentCommit`.  Foreign keys are guards of the writes: an insert needs the
row it refers to, a deletion needs that nothing refers to it.  Row locks are left
out: every order they allow is kept, and some they forbid.  Ids are handed out once,
`NULL` is a row not yet there, `GONE` one that was deleted.  A name is a class of names
that agree without case, as both checks compare them.

### IntakeAssistant

`POST /ai/intake` in its steps: the departments, the types, then up to `MAX_ATTEMPTS`
attempts with a pause between them (`attemptAgain`), each of which ends in an answer, in a
failure that is tried again (429, 503, a failure of the network) or in one that is not, a timeout
among them (`attemptFails`).
What comes back is any value of `Outputs`; `validate` is `validateIntakeResult`: unknown
ids are dropped, a type without its department too, and an answer that leaves nothing to act on
asks for something.  Meanwhile the Super Admin changes the catalog (`catalogChanges`).

### RequestForm

The overlay over the assistant.  `fields` and the loaded lists belong to `App` and outlive
the overlay; each opening starts a lookup of two calls, whose answer keeps, replaces or
clears what is selected (`kept`).  `run` is the discipline of `busy`: `onAnalyze`,
`submitCreate` and the reading of the details set it, and every outcome clears it.  A
create captures the lists of its moment (`closure`), because the form goes back to
their first department when it succeeds.  `sent` counts the requests made of the content
now in the form, but for those of which the person has seen an error.

### RequestViews and HubViews

The read side.  `RequestViews` has the rules of who may open a request, the queues, the
admin lists, the inbox and the figures of the three dashboards, each WHERE clause as the
set of rows it selects.  `HubViews` composes it with `Hub` and adds what the pages make of it: the
cards with the query each figure links to (the total of a handler's card included, `handlingTotal`), the parameters a page accepts from its
address, the rows it offers to open, the buttons on an opened request.  Both sides read the
same fresh rows, so a difference is one between two pieces of code, not between two
moments.  The properties are about every state of the tables that the calls of the hub can
reach, migrated rows included.

### ClientSession

Tabs of one browser.  `beginClientSession` and `endClientSession` raise the generation of
a tab; a call in flight is a record with the generation, the token and the cookie it left
with; `Serve` is the server's side, where `Refuse` is the session guard followed by the CSRF guard;
`Outcome` is what `api.ts` makes of an answer: its status, or stale.  The steps after each
answer (`startupLookups`, the lookups after a sign-in, the refresh, the invitations) are
chained as in `App`.  `Loop` is what `sendPreparedInvites` has in hand; `Skipped` are the
invitations that the loop passes over, as it reaches them, because their department is not listed.  Calls can be answered,
lost before or after the server has acted, refused, or find their session ended
elsewhere.

### Navigation and RequestPages

`Navigation` is the address, the entries Back returns to, and the three states that `App`
derives from the address at a load and at Back and sets by hand everywhere else.
`RequestPages` mounts the two pages on it.  Each page is a record: what is listed, what is
selected, what the overlay shows, what it waits for.  `calls` are in the order they were sent
and are answered in any order; `cancelled` is the flag of the effect that asked, `gone`
that the page has been left, whose calls still reach the server, in any order (`left`).  `wanted`, `goesOn` and `deselect` are the guards of the code
against late answers.  What the server shows of a request is one of seven stages, which
others move on meanwhile (`elsewhere`).

## 3. The runs

| Run | Instance | What it shows |
|---|---|---|
| `MCRequests` | five accounts of two companies, three policies, three legacy rows, one request, two calls | the guarantees of the request service under every interleaving of two calls, and the refinement of `RequestLifecycle` |
| `MCStaffHistory` | four accounts, six administrative inputs that meet, two administrative calls, one login at a time | two administrative calls, an invitation, logins and restarts in any order: the last Super Admin goes, and an account comes back unasked, by a race only; no unfinished work is left with a removed account |
| `MCHub` | three accounts, one request call, one administrative call | who decides was eligible, and the life cycle is kept, across role changes, removals and restarts |
| `MCLoginRateLimiter` | three emails, one address, two logins, limits 2 and 3, two buckets, window 2 | the budget holds under bursts, slots are exact, and every lockout ends |
| `MCAccountAccess` | a founder and an invited member, two passwords, three links, one session, two calls | signup, invitation, mail, passwords and sessions under every interleaving of two calls |
| `MCCatalog` | a department and an id for another, two companies, two types, names and policies, one request, one employee, two calls | deletions never leave a reference behind nor cost a type when refused, lists land whole |
| `MCRequestForm` | two departments, two types, one lookup slot, two attempts, one change of the catalog, two requests of one content | an answer is usable, a selection fits together, one content makes one request, the buttons come back |
| `MCRequestViews` | three accounts of one company and the Super Admin of another, two departments, three types, migrated rows, one request, one call of each service | figures, rows, buttons, deciders and stages agree with the rules of the calls in every reachable state |
| `MCClientSession` | two tabs, a founder with two prepared invitations, another with none, two sessions, two loads, one fault | writes, answers and, while their session lasts, prepared invitations stay with their account, none of these is lost on the way, and a page start ends |
| `MCRequestPages` | two requests, two views, two tabs, two filters, two calls in flight or entries to go back to | the overlay, its history and the address say what was opened, a busy page waits for exactly one call |
| `MCStaffLastAdmin` | two administrative calls, expects a violation | two Super Admins remove each other |
| `MCStaffWriteBack` | two administrative calls, expects a violation | a rename brings back the account that was removed after it read it |

### Bounds, and why they are enough

* One request in the request runs.  No handler reads or writes two requests, and
  `create` picks any unused id, so requests do not influence each other; the
  proofs of section 5 cover any number.
* Two calls.  Every race in the code is between a check and a write of one call
  and a write of another.  A third call can only repeat what a second one did.
  Again the proofs cover any number of calls.
* Two administrative calls in `MCStaffHistory`, with the six inputs (`Overlapping`) that meet: removals of
  both Super Admins, one of which may be demoted or renamed meanwhile, and an edit and a
  removal of the handler by the admin of the department.  One administrative call in
  `MCHub`, where it races a call on a request.  The theorems are for any inputs and any number of calls.
* One session in `MCAccountAccess`, so that three links and two calls stay within reach.  The run
  shows what a reset does to sessions, and a change to the one that asks for it; that a change ends the
  other sessions needs two and is what `OnlyLateLoginsAreOutdated` proves for any number.
* The limiter has fewer buckets than emails, so that a full store is met, an
  email limit below the address limit, so that both refuse, and a window of two
  ticks, so that a failure can be recorded early, late and after the end.  The
  age of a bucket is capped at `Window`, since nothing distinguishes ages past it.
* `Handles` says what each call slot of `MCCatalog` may be asked for.  Both slots take
  every call, but only the first one those that name a type, which keeps the instance
  small; with naming in both slots the same three properties pass too, in 1.7 million states.
  Two types and two names suffice for a list of two and a type that comes while its
  department is being deleted.  The theorems of `CatalogProofs` are for any `Handles`.
* Three links let a verification, an invitation and a reset exist together, or
  two resets of one account after its verification.
* `MaxChanges` of `MCRequestForm` lets one department or type come or go while the
  assistant works and a lookup is in flight; a second change adds nothing that a first one
  followed by another opening does not show.  `MaxSent` lets the counter of the property pass its limit.
  `MaxAttempts` is 2 instead of 3: the last attempt and one before it.
* `OneServiceAtATime` of `MCRequestViews`: an administrative call and a call on a request do
  not overlap.  The properties there are about rows, and the races that make other
  rows are in `MCHub`.  The fourth account is the Super Admin of another company: whoever may not see
  a request must not be counted among its approvers either.
* `MCClientSession` has two tabs because the cookie is shared between them, and two
  founders in two companies, so that a tab may act as a stranger and so that a sign-up without
  prepared staff meets a stored list.  Two sessions and two page loads
  let a session be replaced and a tab be loaded again; one fault at a time, because every
  failing path of the code ends what it was part of.  `MaxGeneration` (three in the tab that
  sends the invitations, two in the other) and `MaxCalls` stop a tab from starting more;
  `Failing` names the calls that may get lost, one of a page start, one of a sign-in and one
  of the loop.
* `MaxCalls` of `MCRequestPages` bounds calls in flight and entries to go back to
  together: two late answers, or one and a Back.  Each race of these pages is between
  one late answer and one act.  `Found` gives every session fresh requests.
* Symmetry is used on call slots, passwords, links, types, names, policies and
  requests, which are interchangeable in the specifications, and in no run that checks liveness.
* Deadlock is checked in every run but `MCClientSession`, where the browser may be left
  alone once the bounds on sessions, loads and generations are used up; nothing there
  must happen but the end of a page start, which is a liveness property of its own.

### Fairness

* `LimiterSpec`, for `LockoutEnds`.  `WF(Tick)`: the clock of the process goes on.
  `WF(Settles(a))` for each login in flight: `login` (`auth.service.ts` 106-167) calls
  `settleFailure`, `settleSuccess` or, on an error, `abandon` on every path after `admit`.
  Nobody is assumed to try again.
* `FormSpec`, for `BusyEnds`.  The server works on; an attempt ends because the provider has
  a timeout (`requesty-ai.provider.ts`); `fetch` settles.  Whether an attempt answers or fails
  is left open, so that nothing but the count of attempts ends the retries.  Nobody is
  assumed to click.
* `Spec` of `ClientSession`, for `StartupEnds`.  The calls of a page start are served or
  lost, and their answers are delivered.  There is no timeout in `api.ts`; that a
  fetch settles in the end is the browser's promise.
* All other properties are safety properties and need none; `RequestPages` says of its
  buttons by an invariant (`BusyIsAwaited`) that exactly one call in flight will release them.

## 4. What the code does otherwise

Two runs expect a violation, `MCStaffLastAdmin` and `MCStaffWriteBack`, with the documents they
contradict quoted in `PROJECT.json` under `findings`.  The table lists the other disagreements with a document that were observed in
these models on the server's side.  No run is spent on them; each formula can be checked with the named
configuration.  All are races of two HTTP requests or of a request and a restart.
A condition in the WHERE of the update, the remedy the code uses elsewhere, would close
most of them; the counts and the login need a lock or a check inside the transaction.

| Formula | Configuration | Trace | Document |
|---|---|---|---|
| no step takes a request out of `COMPLETED` | `MCRequests` | two transitions of the owner pass their checks, one completes, the slower one writes `IN_PROGRESS` over it (`requests.service.ts:385`) | `docs/product-spec.md:36` |
| `history[r][i].newStatus = history[r][i+1].previousStatus` | `MCRequests` | the same two transitions: the rows of the request do not chain | `docs/data-model.md:118` |
| `InactiveOwnsNothing` | `MCHub` | a claim that was checked before a removal lands after its count of owned work (`requests.service.ts:320`) | `docs/product-spec.md:142` |
| the stored handler flag agrees with the role | `MCStaffWriteBack` with these two calls | a Department Admin's edit computes the flag for the role it read, after a promotion | `handler-access.ts:10` |
| a removed account is in neither `session` nor `invitation` once no removal is in flight | `MCStaffHistory` | the server stops after `active` was written and before `revokeAccess` (`admin.service.ts:509`) | `docs/architecture.md:172` |
| no owner of a request has the role `SUPER_ADMIN` | `MCStaffWriteBack` with a promotion of the handler | the owner of a request is promoted; only removals look at owned work | `docs/data-model.md:17` |
| no claim sets an owner whose live role is `SUPER_ADMIN` | `MCHub` | a handler is promoted between the check and the update of its claim | `docs/product-spec.md:83` |
| no decision is recorded by an account whose live role is not the captured policy | `MCHub` | an approver is demoted between the check and the update | `docs/product-spec.md:55` |
| no session is `outdated` | `MCAccountAccess` | a login has verified the old password, a reset revokes all sessions, the login creates one more (`auth.service.ts:140`); `OnlyALateLoginIsOutdated` says that there is no other way | `docs/decisions/ADR-004-workflow-and-recovery.md:91` |
| at most one unused reset link per account | `MCAccountAccess` | two resets of one account are asked for at the same time, neither sees the link the other is about to insert, both work | `docs/decisions/ADR-004-workflow-and-recovery.md:91` |
| no department has two types of one name | `MCCatalog` with `insert` in both slots | two inserts of one name both find none (`auth.service.ts:656`), there is no unique index | `README.md:213` |
| a request is created with the policy its type has at that moment | `MCCatalog` | `create` has read the type, its policy is edited, and the request is stored with the old one | `docs/product-spec.md:97` |
| a draft without a type leaves the type empty | `MCRequestForm` | a lookup that arrives after the draft fills the first type in (`App.tsx:308`) | `README.md:172` |

One more race of the server contradicts no document: `changePassword` verifies the current password and
writes the new one later (`auth.service.ts:946`, `957`), over one that a reset has set in between.

What the client was seen to do, each a behaviour of the models named; where no document is
quoted, none says otherwise.

* `ClientSession`.  A 401 that reaches a place without a handler (the form's lookups, the
  approval inbox, the loop of invitations, the search, claim and transition of the handlers'
  list) ends the client session but leaves the account and its data on the screen
  (`docs/decisions/ADR-002-authentication.md:33`, `docs/architecture.md:170`).  That is why
  `OldAnswersAreIgnored` speaks of the account that is shown and not of the session.
* Reads carry no token, so a tab whose cookie another tab has changed shows the other
  account's lists under its own name until it is loaded again.  Writes are refused.
* A fetch that fails is rejected before the generation is looked at (`api.ts:178`), so a loop of
  invitations that outlives its session goes on after a network failure, under the session that the
  tab has by then.  The company of that session refuses the department, unless another tab had
  changed the cookie to it before the lookup was served, so that the departments were its own;
  then the remaining staff is invited into that company.  This takes four sessions, two faults and three loads,
  more than the run has; it is the case that `InvitesStayHome` leaves out.
* Prepared invitations are lost by a page load in the middle of the loop, and overwritten
  by a later save in the same tab; these are the two exceptions of `InvitesAreKept`.
* When only the lookups of a page start fail, the sign-in form is shown although the session
  is alive.
* `RequestForm`.  A department that has been deleted is replaced by the first one, a draft's type
  is dropped if the lists have not arrived; what is typed while a create is in
  flight is thrown away when it succeeds; a create whose answer is lost is posted
  again by the next click (the case `OneRequestPerContent` leaves out).
* `HubViews`.  A migrated row that has an owner and waits for approval offers "Start
  Work", which the server refuses (the case `ButtonsAreAccepted` leaves out).  The
  total of a handler's card is a link, and opens the Available tab, whose rows are a part of what it
  counts.  `docs/decisions/ADR-004-workflow-and-recovery.md` wants it so in line 83, against its own rule of
  line 71 that a figure is a link only to that exact set; `FiguresMatchLists` has it as its exception.
* `RequestPages`.  Lists are not guarded against late answers: rows of an earlier tab,
  search or filter may replace those of the present one.  When Back changes the filter of
  the inbox while an approval is open, the next approval selected shows the history
  of the one before until its own arrives, hence the second half of `HistoryIsSelected`.
  An open in flight shows its overlay over a tab that was chosen meanwhile.
* Seen in the source of these pages and not modelled: a denial reason typed for one
  request is kept for the next, so is the error of a decision; the details of
  the submitter's list and of the Super Admin's list have no guard against late answers;
  Back between the tabs of a list changes the address only; an employee at `/approvals`
  or `/requests` gets an empty workspace.

## 5. The proofs

`tlapm` checks every proof to its leaves, for all values of the constants that
satisfy the named assumptions.  The assumptions are about constants only: the
shape of the tables at the start (`InitialAssumption`), that `NULL` and
`Undefined` differ from the values they stand beside (`NullAssumption`, `NoParameterAssumption`, `NameAssumption`,
`AnswerAssumption` and the like), that limits are positive and
that logins, keys and requests are finite sets.  TLC evaluates them in every run.

* `RequestsProofs`.  `Invariance` proves the inductive invariant `IInv`.  The
  invariants of the runs are not inductive: a call that has been checked writes
  later, and the invariant has to say what of the check still holds by then.
  `CheckedStillValid` says it per operation.  For a decision: the submitter, the
  company and the policy of the row never change, so the approver is still
  eligible; that the request still waits is what the conditional update tests.  For a
  transition: an owned request stays owned by the same account, and an approval that
  lets its owner work on it is never withdrawn.  `StateFollowsPolicy` relates the
  approval state to the captured policy.  The proof goes row by row: a step changes
  at most one row, in one of four ways (`RowSteps`), and each way keeps the safety of
  that row.  `Typed`, `DecisionsAreSound`, `ApprovalBeforeClaim`, `HistoryIsSound`,
  `OneWins` and `DenialIsFinal` follow, and `Implements` is the refinement.
* `HubProofs`, administration.  `StaffTyped` under every interleaving of any number of
  administrative calls.  `NoWorkIsOrphaned` too: as long as no request changes, what a call has found
  out about unfinished work stays true until its write (`WorkStillCleared`), so here the races of
  administrative calls do no harm; the race that does is the one with a claim (section 4).
* `HubProofs`, administrative calls that overlap.  `OnlyRacesTakeTheLast` and `OnlyRacesWriteBack`, for any number of
  companies, accounts, calls and inputs, with logins, accepted invitations and restarts between the steps
  of each.  The invariant (`HistoryIInv`) says what a call may still rely on when it writes: the row it
  read is still the row, but for an accepted invitation, unless the history names its account
  (`ReadStillHolds`); and unless somebody of the company was displaced since it read, there is a Super Admin
  other than its target, or its target is one and it has yet to count (`OthersStillReign`).  Until a race the
  company has a Super Admin, by the property itself, so a call whose target is none need not count.
* `HubProofs`, the two services.  `HubTyped`, `HubSafe` and `HubImplements`: the steps of `Staff` leave
  requests alone and the invariant `IInv` speaks of accounts only through copies,
  so it survives them.  This is where the proof says more than the run: the
  decision of an approver who has been demoted is still the decision of someone who
  was eligible when checked.
* `HubProofs`, the read side.  The five properties of `MCRequestViews` compare pieces of code on
  the same rows, and each needs something of the rows: that a request, its
  submitter and its department are of one company and that only an owner moves the work status
  (`RowAtHome`), and that no account is in a department of another company (`StaffAtHome`).  With what calls
  in flight are about to write (`CreateAtHome`, `EditsAtHome`) this is inductive
  (`CompaniesStayApart`).  Given the rows, `FiguresAreListed` goes through the three
  dashboards figure by figure; a count over several statuses is the sum of disjoint lists,
  hence the lemmas about cardinalities and the assumption that the table is finite.
  `DeciderIsFound` was first written for one company; the proof found that the notice speaks of
  approvers in the company of the request, and it now says so.
* `LoginRateLimiterProofs`.  `KeptUnderLimit` is not inductive: a failure that finds
  no slot would raise the sum.  Only the exact count of slots
  (`SlotsMatchLogins`) excludes that, so all four invariants are proved together
  (`LimiterInvariance`), with one lemma per operation on a store and two about the
  set of logins that hold a key.  `FailuresStay` is the action property: what `NoForgiveness` says of a
  step does not compose, since a window may be over after the first of two operations, so each operation
  is shown to keep the age of a window that counts as well (`Holds`), and only time moves it.
* `CatalogProofs`.  `NothingDangles` is not inductive: a call that has found a department
  writes a reference to it later.  What survives in between (`Knows`) is not that the
  department is there, only that its id was handed out once and that a type still
  belongs to the department it was found in; the foreign key asks for the rest.
  `Forward` is the reason: no step hands out an id twice or moves a type.  `NoTypeIsLost`
  and `NoPartOfAList` are the action properties of the run; the latter needs that
  `insertTypes` gives each name an id of its own (`InsertedList`).
* `RequestFormProofs`, assuming that ids are numbers, that catalogs and the lookups in flight are finite,
  and that `NULL` is none of the records it stands for.  `OneRequestPerContent` follows
  from two facts that no single handler states: `busy` names the one call that is out
  (`BusySaysWhat`), and a content counts as sent exactly while its request is stored and its answer is
  under way (`SentIsStored`).  `TypeFitsDepartment` and `AnswersAreUsable` are inductive with the types,
  because the rules on an answer and the lookup each keep a type under its own department.
* `AccountAccessProofs`, assuming that a company has at most one founder.  None of the invariants of
  the run is inductive: a call remembers what it looked up before its transaction, so
  `CallsStillFit` says what of it is still true at the commit: that the company is active and the
  account was reached by mail.  That needs `LinksAreMailed` (a stored link has left the server, and a
  reset is only for who has come through the mail before), `PasswordThroughMail` (a password is only set
  by a link or by who is signed in) and `FounderFirst` (who can be found in a company is there
  after its founder).  Links are only ever marked and accounts never deleted (`Forward`),
  which is why none of this is undone.  `LinkWorksOnce` follows from the types and the conditional update.
  `OnlyLateLoginsAreOutdated` says which sessions a replaced password may leave behind, whatever overlaps:
  every password of an existing account is set by a reset, which revokes all sessions, by a change, which
  revokes the others and proves its own (`SessionKept`, `PasswordForms`), or by an invitation.  That the last one
  meets no open session needs that no account has a second link that lets it in (`OneWayIn`), the invariant
  on top of the first one (`PasswordInv`).
* `ClientSessionProofs`, for any number of tabs, accounts, sessions, loads and faults, assuming that `NULL` is
  no account and no status.  What binds a late answer to its
  account is the generation: it only grows, and as long as it lasts the tab keeps its token and
  its user, or has none (`Follows`).  The invariant says of every call in flight that its token belongs to
  the account it was made for (`CallFits`) and, while its page is there, that a call of the current
  generation was made for the current user (`CallCurrent`).  All steps are one of three kinds: one
  tab goes on (`OneTabSteps`), a call is answered while sessions keep their accounts
  (`ServerSteps`), or a page is loaded, which leaves its calls to nobody.  Prepared invitations have an
  invariant of their own (`HomeInv`): stored in a tab or in the hand of a loop, they are their founder's
  (`LoopHome`), and the one whose call was accepted is made.  With it `InvitesByTheirFounder`
  is all of `InvitesStayHome`.  `InvitationsSurvive` asks of every step where the invitations of a tab
  are afterwards; the attempt found that a sign-up without prepared staff takes a stored list
  away, which `InvitesAreKept` now names among its exceptions.
* `RequestPagesProofs`, for any requests, bounds and order of answers.  `ReloadsShowTheSame` rests on `NavFits`: what
  `App` sets by hand at each link is what it would derive from the address.  The pages rest on
  what each call in flight carries.  `OverlaysAreLastOpened` and `HistoriesAreSelected` say of a late answer that it is about
  another request or that its effect has been cancelled (`HistoryFits`).  `BusyAwaitsOneCall` counts: the calls that an
  action awaits (`Awaited`) are one while the page is busy and none when it is not, because every
  answer either sends the next call or ends the action, and leaving the page drops all of them
  at once.  `ClosedRequestsStayClosed` is the action property.  The calls are a sequence from which answers take any
  element, so the proofs go through lemmas about `Append` and `RemoveAt`.

Only model-checked: the liveness properties `LockoutEnds`, `BusyEnds` and `StartupEnds`, for whose fairness the
prover has no rules.  Every other property of the passing runs is proved.  One of them holds
from a hypothesis that is part of the theorem: `InactiveOwnsNothing`, for administration alone, from tables in
which it holds.  No theorem assumes that calls of one service do not overlap.  Only
proved: the shapes of the tables, calls and stores (`Typed`, `StaffTyped`, `HubTyped`, `LimiterTyped`,
`CatalogTyped`, `FormTyped`, `AccessTyped`, `PagesTyped`), `CompaniesStayApart`, `OneWins`, `DenialIsFinal` and
`BucketsBounded`.  The type invariant `ClientTypeOK` describes the records of the client; it holds in the
instance of its run as well, whose properties are about what the records say of each other.

## 6. Not modelled

* The pages for staff, departments, settings and the wizards before sign-up
  (`department-manage.tsx`, `admin.tsx`, `workspace-wizard.tsx`, `onboarding.tsx`): forms around
  one call each, with the text of their fields and no state that outlives them, but for the
  prepared invitations, which `ClientSession` has.
* `updateDepartment` and the names of departments, on which the code has no rule, and the
  fixed list of templates.
* The order and the limit of lists (100 rows of a queue, 20 of a page), the search text, and
  the timeline of a request, which is drawn from the rows that `StatusMatchesHistory` is about.
  The counts of one summary are taken one after another; here they are of one state.
* Names, free text, notes, prompts and wording: no guard of the models reads them.
* The two limits of a session, idle and absolute: a session is expired or not.
  `touchActivity` is therefore not an action.
* That a verification or an invitation which expires keeps its email taken: ADR-003 says
  that there is no resend, so it is a decision.
* JWT, origin and header checks, configuration and logging: stateless filters around the handlers.
* Migrations and seed: they run while the service does not.

## 7. Plan

Order of the modules, the most important behaviour first.

1. `AccessRules`, `HubState`, `Requests`, `RequestLifecycle` with `RequestsProofs`.
2. `Staff`, then `Hub` (composition of 1 and 2) with `HubProofs`.
3. `LoginRateLimiter` with `LoginRateLimiterProofs`.
4. `AccountAccess`.
5. `Catalog`, with `CatalogProofs`.
6. `IntakeAssistant` and `RequestForm`.
7. `RequestViews` and `HubViews`.
8. `ClientSession`.
9. `Navigation` and `RequestPages`.
10. `RequestFormProofs`, `AccountAccessProofs` and `ClientSessionProofs`.
11. The read side in `HubProofs`, prepared invitations in `ClientSessionProofs`, `NoForgiveness` in
    `LoginRateLimiterProofs`, and `RequestPagesProofs`.
12. `StaffHistory`, and what holds of the last Super Admin, of removals and of passwords when calls
    overlap.
13. Still open: the types of `ClientSession` as a theorem.
