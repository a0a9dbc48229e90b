# Remote Tape control plane: TLA+ models and proofs

This directory specifies the control plane of Remote Tape (`cmd/control-plane`,
`internal/...`, `web/src/control`). TLC model-checks the specifications on small
instances, and TLAPS proves the safety properties that matter most for all instances.
`PROJECT.json` maps every definition to the lines it translates and lists the hazards
of the code with the properties that cover them.

## 1. The system

An admin creates recording sessions on a dashboard. For each session the control
plane boots a server on DigitalOcean, gives it a host name at Cloudflare and, on
request, takes both away again. Everything the control plane knows is in one SQLite
file; a background loop, the reconciler, nudges the two accounts towards it.

| Component | State | Operations | Talks to | What makes it correct |
|---|---|---|---|---|
| Session store (`internal/session`) | table rows, event log, token hashes | one transaction per `Mark...`, `AssignInstance`, `CreateSession`, lists, join | SQLite through one connection | guards in the WHERE clauses keep late and repeated writes harmless; a session is created whole or not at all |
| Reconciler (`internal/reconciler`) | none but the row copies of the running `Step` | `Run`, `Step` | store, provider, DNS manager | ends what was condemned, provisions what was created, leaks nothing, starves nobody |
| DigitalOcean provider (`internal/provisioning`) | a lock per session | `EnsureInstance`, `ForceDestroySessionServer` | DigitalOcean API | one droplet per session, found again by its tags |
| Cloudflare DNS manager (`internal/dns`) | zone cache | `EnsureARecord`, `DeleteRecord`, `DisabledManager` | Cloudflare API | one A record per room domain, never somebody else's |
| HTTP API (`internal/server`) | none | create, list, force-destroy, join, events, export, readiness, login | store, auth | what a client is told is true when it is told |
| Auth manager (`internal/auth/auth.go`) | signing keys | session cookie, CSRF cookie and token | API, dashboard | a stale token costs one retry; a logout ends what comes after it |
| Login limiter (`internal/auth/limiter.go`) | buckets per address | `BeginAttempt`, `RecordFailure`, `Reset` | login handler | bounded guesses per window, bounded memory, nobody locked out without cause |
| Provisioning options (`internal/server/provisioning_options.go`) | constant catalogue | list, validate | create handler, form | accepts exactly what the form offers |
| Database (`internal/database`) | schema version, one connection | open, migrate | process start | each migration exactly once, in order |
| Process (`cmd/control-plane`) | the lifetimes of server, reconciler, database | start, shutdown | all | nothing uses the database after it was closed; two processes do not reconcile at once |
| Dashboard (`web/src/control`) | query cache, CSRF token, form state | fetch, retry, poll, create | API | polls until settled, retries once, does not act on an answer to another question |
| Room page, embedded assets, configuration | none | | | |

The hard behaviour: a `Step` lists the rows of a phase once and then works through
that *copy* with slow calls to two remote accounts, while HTTP requests change the
rows. Each of these calls is itself a chain of requests, any of which can fail before,
after or long before it takes effect, while people edit the accounts by hand. The
process can stop between any two steps, and the next one is started while it still
shuts down. Everything in a process waits for one database connection. In the
browser, answers arrive late, out of order or not at all.

## 2. Modules

| Module | Models | Composed in |
|---|---|---|
| `SessionStore` | `repository.go`: one operator per transaction of the session's life | `Reconciler` |
| `Reconciler` | `reconciler.go`, the create and force-destroy handlers, both provider interfaces as one step per call | `MCReconciler` |
| `SessionLifecycle` | the abstract promise that `Reconciler` implements | `Reconciler` (refinement `Lifecycle`) |
| `CloudflareDns` | `cloudflare.go`, `dns.go`, request by request | `MCCloudflareDns` |
| `DropletProvider` | `digitalocean.go`, request by request | `MCDropletProvider` |
| `LoginLimiter` | `limiter.go` under `Manager.Login` | `MCLogin` |
| `AuthSession` | `auth.go`, the middlewares, `client.ts` | `MCLogin` |
| `SessionAccess` | create, slugs, join and machine tokens (`repository.go`, `sessions.go`) | `MCSessionsAPI` |
| `SessionRegistry` | the abstract promise that `SessionAccess` implements | `SessionAccess` (refinement `Registry`) |
| `SessionListing` | session lists (`repository.go`, `sessions.go`) | `MCSessionsAPI` |
| `EventPages` | a session's events, page by page (`repository.go`, `hooks.ts`) | `MCSessionsAPI` |
| `Paging` | the page numbers of both | `SessionListing`, `EventPages` |
| `CreateSessionForm` | `CreateSessionForm.tsx` against `provisioning_options.go` and the slug check | `MCSessionsAPI` |
| `DashboardPages` | polling of the detail and the join page (`hooks.ts`, `sessionStatus.ts`) | `MCWaiting` |
| `Migrations` | `migrate.go`, several processes and builds | `MCDeployment` |
| `ControlPlane` | `main.go`, the HTTP server and the database connection | `MCDeployment`, `MCWaiting` |
| `Host` | the processes on one host, and the bound on faults | `Migrations`, `ControlPlane` |
| `...Proofs` | theorems and lemmas (section 4) | |

`Reconciler` takes a provider call as one atomic step with every outcome it can have;
`CloudflareDns` and `DropletProvider` look inside these calls. What the two levels
share is the contract: `EnsureTruth` and `DeleteTruth` say of the request-level models
what `Reconciler` takes for granted of a call that succeeded.

### How the state corresponds to the code

**SessionStore, Reconciler.** `status`, `instanceID`, `publicIP`, `dnsRecordID`,
`lastErrorPhase` are the columns of the same names; `lastEvent` is the type of the
newest `session_events` row. Statuses and events that no implemented operation writes
(`ready`, `active`, ...) are left out; `"absent"` means that there is no row.
`condemned` is history: the sessions whose force destroy was accepted.
`updatedAt` keeps only the *order* of `updated_at` (nanoseconds; equal times, which the
code breaks by id, do not occur). `pc`, `batch`, `job` are the local state of a
running `Step`: where it is, the rows of the current list not yet visited, the row in
hand with what the last call returned. `dropletState`, `dropletOf`, `addressed` are the
DigitalOcean account and `aRecord`, `serial` the zone, the id of a record being a number
that grows with each new one. Every provider call is one step and so is every
transaction; between a call and the write of its result anything can happen. Failing
calls include those that did take effect. `Crash` is the end of the process at any
point, and equally a shutdown, after which every call fails on the cancelled context.
The earlier read of the force-destroy handler (`forceDestroyEligible`) refuses what the
WHERE clause would refuse too, so it adds no behaviour.

**CloudflareDns.** A process has one manager (`manager`: live, disabled for want of a
token, or started for another base domain) with its `cachedZone`, and one call at a
time, as the reconciler makes them. `pc` and `call` are the position and the local
variables of that call. The zone is a set of records with id, name, kind, content and
mode (proxied, TTL); `zone` changes when the base domain is moved to a new zone.
`wanted` is what the sessions ask for: a room that is condemned during a call keeps the
record id of its row, old or empty, as the WHERE clause of `MarkDNSConfigured` has it, and
a teardown whose later destruction of the server fails is done again (`TeardownRepeats`).
`late` holds requests whose client has given up. `quiet` and `bore` are history: whether
somebody else changed the zone since the call began, and which records were the room's
A record meanwhile.

**DropletProvider.** A caller is a goroutine that reads a row (`Begin`), waits for the
lock of the session with what it read, sends its requests and stores the result as the
reconciler does: an assignment that the row rejects is followed by a destruction of that
droplet (`reject`), and a failed teardown marks the session `failed` until the admin asks
again. The reconciler of a process makes one call at a time, so two callers at once stand
for what the lock is for and not for what today's program does. The pages of a droplet list are folded into one request. `wanted` is
what the reconciler wants of the session, `stored` the row's instance id, `stray`
(history) the droplets that were born after their client gave up or untagged by hand,
`overlapped` the sessions for which two calls have run at once.

**LoginLimiter.** An attempt is one login request; a failure is named by its attempt,
so the list of times of a bucket is a set of attempts, whose times are in `now`. The
clock is read before the lock is waited for, as in the code, so operations may run with
times out of order. `forgiven` and `orphans` are history: the attempts begun before
their bucket was deleted, and those in flight at that moment.

**AuthSession.** Tabs share the cookie `jar`; each keeps a `csrfToken` as `client.ts`
does. A call takes the jar's cookies when it is sent (`sent`), its answer's cookies
enter the jar when it arrives, and its script goes on later. A cookie is readable only
with the key that made it; a CSRF cookie may become unreadable at any time (its age
limit is 30 days, a session's much less).

**SessionAccess.** The session that request `r` inserts is named `r` and its tokens
`<<r, role>>`; ids and tokens are random and never collide. `writer` is the holder of
SQLite's write lock; a transaction that has read before it writes fails when somebody
else has written meanwhile (`fresh`). `told` is what clients have been told.

**SessionRegistry** has no statements, locks or read-backs: each request takes effect at
one moment. A client takes a name that is free, is refused, is told how to join its
session, or gives up; whoever gave up keeps its session, if it had one, and is never
told how to join it.

**SessionListing.** `ListSessions` makes three queries in no transaction; `quiet` tells
whether anything was written between them. A search text is the set of sessions that
contain it, and the empty text is in all of them. `Rank` says where a row comes in the
order of `ORDER BY`, and `InOrder` lists the rows by their ranks.

**EventPages.** `loaded` are the pages of events that a client has, one after the other,
newest first, while events are appended. A request is two steps, as `ListSessionEvents`
makes two queries in no transaction: `counted` is the page and total of the first, and
`listed` how many events there were at the second.

**CreateSessionForm.** `field` and `debounced` are the slug typed and the slug looked up;
`data`, `failed`, `request` the query cache for each slug. The catalogue has one region
with and one without dedicated processors and one size of each kind.

**DashboardPages.** `page` is the last answer each page has, `query` the request in
flight and then the status that it brings back, however old by then. The session's
status moves by the writes of the reconciler and the force destroy.

**Migrations.** `effects` are the migrations whose SQL is in the file, `recorded` the rows
of `schema_migrations`; `saved` are earlier contents that a power failure may bring back
(`synchronous = normal`). A process is of a build that knows the first `version`
migrations. `beside` is history: what others committed since it had read the table.

**ControlPlane.** `main` is where `run` is: opening, starting, serving, draining
(`Shutdown`), stopping, closing. `rec` and `stage` are what the reconciler and each
request are doing with the connection `conn` of their process: nothing, waiting,
holding it. A request is a plain statement, a readiness probe with its timeout, or an
export, which holds the connection while it writes to a client that may not read.

**MC modules.** `MCLogin`, `MCSessionsAPI`, `MCDeployment` and `MCWaiting` put components
that share no state into one run, under their own names: their modules EXTEND the
components. A behaviour picks one *scenario* in its initial state and only that scenario's
component moves, within the bounds of the scenario. Nothing is lost by it, because in the code too
these components do not read one another's state; what they do share is modelled where
it matters (limiter and cookies meet only in the outcome of a login).

Definitions commented `Mutant:` are plausible bugs. No action uses them; they show that
the properties can fail (`PROJECT.json`, "mutants").

## 3. Properties and runs

Failures, lost answers, crashes and changes made by hand all draw on one budget,
`MaxFaults`.

| Run | Instance | Shows |
|---|---|---|
| `safety` | 2 sessions, 3 droplets, 1 loop, batch 2, 2 faults | `TypeOK`; `EndedIsClean`, `NoDanglingRecord`, `ServerIsOwn`, `DestroyedOnRequest`; the refinement `Lifecycle` |
| `convergence` | 2 sessions, 2 droplets, 1 loop, batch 2, 1 fault | `DNSConverges` |
| `rotation` | as above, batch 1 | `TeardownEnds`, `ProvisioningResolves` |
| `overlap` | 1 session, 2 droplets, 2 loops, batch 1, 1 fault | `LeftoverIsTraced`, `EndedIsFrozen` |
| `dns` | 1 room, 1 other name, 1 process, zone two suffixes up, 2 faults | `EnsureTruth`, `DeleteTruth`, `ChangesOwnRecord`, `RecordConverges`, `DeletionEnds` |
| `droplet` | 1 session, 2 droplets, 2 callers, 2 faults (1 once calls have overlapped) | `EnsureTruth`, `OneDropletPerSession`, `RemovedIsClean`, `DestroyEnds` |
| `login` | limiter: 3 attempts, 2 addresses, 1 bucket, 2 guesses, window 2, time up to 3; cookies: 2 calls in two tabs or in one | `GuessesBounded`, `NoFalseLockout`, `RefusedOnlyWhenRaced`, `RunsOnce`, `LogoutHolds` |
| `sessions_api` | 3 creates, 2 slugs, 1 machine token, 1 fault; lists of 3 sessions and up to 9 events; 2 slugs in the form | `OneSessionPerSlug`, the refinement `Registry`, `PagesPartition`, `AnswerAgrees`, `EventsComplete`, `TakenIsTrue`, `OfferedIsAccepted` |
| `deployment` | 2 processes, 3 migrations, 2 requests, 2 faults | `SchemaIsRecorded`, `NotAppliedTwice`, `NewerIsRefused`, `OneReconciler`, `ClosedUnderNobody` |
| `waiting` | 2 pages; 1 process, 2 requests; 1 fault | `PagesSettle`, `StopsOnSignal`, `NobodyWaitsForEver` |
| `dns_starvation` | 2 sessions, 2 droplets, batch 1, no fault | `DNSConverges` is violated |

**Reconciler.** `EndedIsClean`: an ended session has no live droplet and no record.
`NoDanglingRecord`: no record points at a droplet the control plane destroyed.
`ServerIsOwn`: record, stored instance and stored address are the session's own.
`DestroyedOnRequest`: the control plane destroys droplets only of sessions that the admin has
asked to force-destroy; a session whose provisioning failed keeps what it has. `Lifecycle`: the order
of statuses, `ended` only without server and name, servers only for sessions in
`provisioning` or `tearing_down`. `LeftoverIsTraced`, `EndedIsFrozen`: what remains true if
two processes overlap. `TeardownEnds`, `ProvisioningResolves`, `DNSConverges`: progress.

**DNS.** `EnsureTruth`: after a successful `EnsureARecord` the returned record is the only
one of the room, plain and right, if nobody else touched the zone during the call, also
when the stored id was stale. `DeleteTruth`: a deletion is reported only when no A record
is left, unless there were several; a zone that was replaced is never reported as clean.
`ChangesOwnRecord`: a PUT or DELETE names a record that has been the room's A record
since the call began. `RecordConverges`, `DeletionEnds`: repetition gets there in the end,
once nothing is left for a person to repair; the operators `EnsureBlocked` and
`DeleteBlocked` say exactly what that is (a CNAME or a second record under the name, a
missing token, a wrong base domain, ...).

**Droplets.** `EnsureTruth`: a successful `EnsureInstance` returns a live droplet of the
session with both tags, so that a teardown finds it even if the row is never written.
`OneDropletPerSession`: callers that waited for the lock with an old row do not create a
second one (as long as nothing fails; after a lost answer there may be two, which
`Reconciler` covers). The one loop of today's program never waits for that lock; the
property is what the lock promises to whoever calls the provider. `RemovedIsClean`: a teardown leaves no droplet but those that were
born after their client had given up, or were once untagged by hand, repaired or not. `DestroyEnds`: a teardown that the admin asks for again each time it has failed ends,
so a droplet that is gone already is no failure.

**Login.** `GuessesBounded`: no window sees more wrong passwords from an address than
`maxAttempts`, however logins overlap, plus one for each attempt that was in flight when
the bucket was reset or evicted. `NoFalseLockout`: who is refused has that many other
attempts of its own address in flight or recently failed. `RefusedOnlyWhenRaced`: the
single retry of `client.ts` is enough unless cookies change a second time in between.
`RunsOnce`: the retry never runs a handler twice. `LogoutHolds`: from the answer of a logout
to the next answer of a login, no create that begins in any tab is served, although answers
with older cookies may still arrive. The login need not have begun after the logout: one
that was under way signs the browser in again if its answer is the last to arrive, and the
property does not claim otherwise.

**API.** `OneSessionPerSlug`: of concurrent creates one gets the slug. `Registry`:
creating, joining and issuing machine tokens are a `SessionRegistry`, so that tokens are
told only of sessions that exist, a conflict is reported only if another session has the
slug, a create that was answered with an error takes no slug later, what it may have left
behind is never joined, and a machine token does not change once its session has an
instance. `PagesPartition`: the pages of one list hold each match once, and a
page past the end is the last. `AnswerAgrees`: total, counts, page and `has_pollable` agree
with the table when nothing was written between the queries. `EventsComplete`: loading
page after page leaves no gap, and at the last page every event that existed at the start
is there, whatever is appended between the pages; what is appended between the two queries
of the last request is the exception (see the findings).
`TakenIsTrue`: the form calls a slug taken only if it is, however late answers come.
`OfferedIsAccepted`: what the form offers is refused only by a server that has meanwhile
changed its environment.

**Deployment.** `SchemaIsRecorded`: file and `schema_migrations` agree and hold a prefix of
the list after any crash or power failure. `NotAppliedTwice`, `NewerIsRefused`: true of
every process that migrates alone; the exceptions are stated with `beside`.
`OneReconciler`: an old and a new process do not both reconcile, since the new one needs
the port and the signal reaches the reconciler first; a listener that fails by itself is
the exception. `ClosedUnderNobody`: the database is closed under no reconciler, and under
requests only if they outlast `Shutdown`'s timeout or the server had failed.

**Waiting.** `PagesSettle`: a page that shows a session in progress does not show it for
ever when the session is over. `StopsOnSignal`: a signalled process ends, whatever its
clients do. `NobodyWaitsForEver`: if clients of exports read or leave, whoever waits for
the connection gets it.

Every module of a component has a type invariant. `Reconciler`'s is checked by `safety` and
proved; so are, without a run, those of `CloudflareDns`, `DropletProvider`,
`LoginLimiter`, `AuthSession`, `SessionAccess`, `SessionListing`, `Migrations` and
`ControlPlane`. Those of `EventPages` and `CreateSessionForm` are part of proved invariants;
that of `DashboardPages` documents the ranges of its variables.

### Bounds

- *Reconciler.* The interactions are between one session's row, its droplets and its
  record; a second session is needed for batches, for the order of rows and for mix-ups.
  Three droplets let one session have a second one after a lost answer. When they run
  out, creation is refused, as at the account's limit, so the model does not stop there.
  With batch 1 and two sessions the LIMIT clause takes effect.
- *Two faults* allow a failure in the recovery from a failure. In `droplet` only one is
  allowed once two calls have overlapped, which keeps the run small: overlapping is itself
  a deviation from the usual single loop.
- *DNS.* Rooms do not interact except through wrong ids, so one room and one foreign
  name suffice; a zone two suffixes up makes the search fail once before it succeeds.
- *Limiter.* One bucket for two addresses forces eviction; two guesses with three
  attempts reach the limit with one more waiting; time runs past a window.
- *Cookies.* Races need two calls; two tabs and one tab differ, since a tab shares its
  token between its calls.
- *Lists.* Three sessions and pages of different sizes make full, partial and empty pages;
  writes between the queries need a second request to be overtaken by. Nine events make
  five pages, more than one of which can move while they are loaded.
- *Migrations.* Three migrations and two processes give a build that is behind, one that
  is ahead, and a crash between two migrations.

What the proofs cover (section 4) does not depend on these bounds.

**Symmetry** is used only in runs without liveness properties; the action properties and
refinements checked under it treat the permuted sets alike.

### Fairness

- *Reconciler*: `WF(LoopStep(l))`, since `Run` calls `Step` on every tick. Calls to Cloudflare
  time out; the DigitalOcean client has no timeout of its own, so its calls end because the
  connection is answered, refused or lost, which is assumed; `WF(AddressArrives(d))`, since DigitalOcean assigns an address to each droplet.
- *CloudflareDns, DropletProvider*: weak fairness for the next answer of a running call
  (requests time out at Cloudflare and are taken to end at DigitalOcean, as above), strong fairness for the start of a call for each room or session and
  for the lock, because the reconciler comes round to every row (`rotation`) and Go's mutex
  hands over to waiters that starve.
- *DashboardPages*: intervals end and requests are answered or fail; no fairness on the
  user, who need not look at the window.
- *ControlPlane*: `run` and handlers go on, `database/sql` gives a freed
  connection to one of those that wait, so that none is passed over for ever (strong
  fairness for `Acquire`); clients owe nothing for `StopsOnSignal`, and have
  to read or leave (`Patience`) for `NobodyWaitsForEver`.

Nowhere is there fairness on admins, editors or faults. As faults are bounded, progress is
claimed for the time after the last one, as DESIGN.md's "repeatedly nudges" says.

### Two loops

A process starts one reconciler, and `OneReconciler` shows that a restart does not make it
two. So one loop is the normal case, and `EndedIsClean`, `NoDanglingRecord` and
`DestroyedOnRequest` are claimed for it. They are false for two loops: the cleanup of a
rejected assignment deletes all droplets with the session's tag, also the one the other
loop has just placed, and a late `EnsureARecord` can recreate a record. `overlap` states
what does hold then; with a third loop `LeftoverIsTraced` is false too.

### Findings

**DNS starvation** (`dns_starvation`). `ListDNSCandidates` takes the `BatchSize`
sessions with the oldest `updated_at`, `MarkDNSConfigured` does not touch a row whose
record is as stored, and no implemented operation takes a session on from
`waiting_for_dns`. Once that many sessions are configured they fill every batch; a newer
one never gets its record, although DESIGN.md says that the accounts are nudged
repeatedly. `convergence` shows that the batch limit is the only cause.

Seen while modelling, and without a run of their own because no document promises
otherwise or the effect lasts for one request only:

- `CreateSession` reads the session back after the commit (`repository.go:317`). If that
  read fails the client gets an error, the session exists, and its join tokens, of which
  only hashes are stored, are lost for good (`CreateFails` in `SessionAccess`,
  `GiveUp` in `SessionRegistry`).
- `has_pollable` and the counts come from queries of their own (`repository.go:339`), so an
  answer can contradict its own rows when something is written in between; `AnswerAgrees`
  is therefore claimed for quiet lists, and the next poll corrects it.
- `ListSessionEvents` counts the events (`repository.go:939`) and then reads the rows
  (`repository.go:943`). An event that is appended in between moves the rows back against
  the old total. If that happens at a full last page, `total_pages` says that there is no
  next one (`hooks.ts:107`) and the oldest event is never loaded, until the page is opened
  anew; `EventsComplete` says how many can be missing, and that nothing else is.
- An export that fails midway has already sent status 200 (`sessions.go:252`); the client
  sees a shorter file and no error.

## 4. Proofs

Eight modules hold theorems. Constants are arbitrary apart from the assumptions named in
the modules: sets are finite where the code counts them, limits are positive, statuses are
those of the code, and `None` and its like are no members of the other sets. Each safety theorem follows the same
lines: an inductive invariant, one lemma per action (or group of actions) that it is
preserved, and a last temporal step.

| Module | Theorems | The inductive invariant, and why it is needed |
|---|---|---|
| `ReconcilerProofs` | `TypeCorrect`, `ServerIsAlwaysOwn` for any number of loops; `EndedIsAlwaysClean`, `RecordNeverDangles`, `AlwaysDestroyedOnRequest` for at most one (`SingleLoop`) | The properties are about accounts and table, the danger is in what a loop has copied. `OwnInv`: copies carry only the session's own droplets. `RowsDistinct`, `RowsCurrent`: since a row was listed its session can only have been condemned. `JobCurrent`: what has been achieved for the row in hand. `RecordHasSession`, `DestroyedHasTag`; `DestroyedIsOver` and `OverIsCondemned`: a destroyed droplet's session is in teardown, failed or ended, and no teardown begins without the admin's request. |
| `LifecycleProofs` | `LifecycleImplemented` (one loop); `LeftoverIsAlwaysTraced` (at most two loops, `TwoLoops`); `EndedRowIsFrozen` (any number) | See below the table. `TracedInv` = `OwnInv`, `RowsDistinct` and, before the first fault, `TearingDown` (a session that a loop tears down, or has in its batch for teardown, is in `tearing_down` or has ended) and `Traced` (every live droplet of a session that has ended, or whose droplets a loop has just destroyed, is in the row or in the hand of a loop that has yet to assign or reject it). |
| `CloudflareDnsProofs` | `DnsTypeCorrect`, `EnsureIsTrue`, `DeleteIsTrue`, `ChangesAreOfOwnRecord` | `Knows(p)`: what the call of `p` has learnt by its reads still holds in the zone as long as it is `quiet`, and the record in hand is in `bore` in any case. |
| `DropletProviderProofs` | `TypeCorrect`, `EnsureIsTrue`, `OneDropletAlways`, `RemovedIsAlwaysClean` | `HandInv`: droplets in rows, calls and late requests are the session's own, with their tags unless somebody interfered. `LockInv`: who sends requests holds the lock. `FaultlessInv`: who has found no droplet stays right until it creates one. For the last theorem `TeardownInv`: no two calls of a session that is not `overlapped` (`SoleInv`), so nothing is born during its destruction (`DestroyInv`), nor after it (`RemovedInv`). |
| `LoginLimiterProofs` | `TypeCorrect`, `BucketsAlwaysBounded`, `GuessesAlwaysBounded`, `NeverLockedOutFalsely` | `BucketInv`: what is recent is in the bucket; `PendingInv`: its pending count lies between the attempts in flight that it counted and all in flight; `WindowInv`: failures and attempts of a window together stay within the limit, plus the orphans that have failed. |
| `DeploymentProofs` (migrations) | `MigrationTypeCorrect`, `SchemaIsAlwaysRecorded`, `ServingIsAlwaysMigrated`, `NeverAppliedTwice`, `NewerIsAlwaysRefused` | `FileInv`, also of every `saved` content; `TodoInv`, `NextInv`: what a process still has to do is not in the file, but for what was committed beside it. |
| `DeploymentProofs` (processes) | `TypeCorrect`, `AlwaysOneReconciler`, `NeverClosedUnder` | `LifeInv`, `RequestsInv`: what a process has opened, started and cancelled at each point of `run`, and that only one that listens takes requests. |
| `AuthSessionProofs` | `AuthTypeCorrect`, `AlwaysRefusedByRace`, `AlwaysRunsOnce`, `LogoutAlwaysHolds` | `RunsInv`: the handler has not run for a call that may still reach it. `RacedInv`: from its second question for a token on, a call that nothing overtook has at each step the cookie that the browser has or will have, and it can be read (`TokenIsGood`). `EndedInv`: after a logout the jar has no session, and no answer under way but a login's brings one. |
| `SessionsAPIProofs` (access) | `TypeCorrect`, `SlugIsAlwaysOnes`, `AlwaysCreatedWhole`, `RepliesAreAlwaysTrue`, `MachineTokenIsKept`, `RegistryImplemented` | `RequestInv`: where a request is tells whether its row and its reply exist, and one about to commit has a free slug; `IssueInv`: an issuer that may still commit has a session without an instance, and no token has a number that is yet to come. |
| `SessionsAPIProofs` (lists) | `ListTypeCorrect`, `PagesAlwaysPartition`, `AnswerAlwaysAgrees` | `AnswerInv`: while nothing is written, each query's result is still what the table holds, from the count to the answer. The rest is about what the operators compute, see below. |
| `SessionsAPIProofs` (event pages) | `EventsAreComplete` | `PageIsRight(i)`: the i-th page loaded has the number i, and its ids lie in that window of the events that were there at its second query. `ReachesBack(i)`: everything from the oldest end of any loaded window to the total at the start is loaded. `CountedIsNext`: a request between its queries is for the page after those. `MorePages` is the arithmetic of pages: there is a page after the n-th exactly if n full ones are not everything. |
| `SessionsAPIProofs` (form) | `TakenIsAlwaysTrue`, `OfferedIsAlwaysAccepted` | `SlugInv`: an answer `taken`, in the cache or under way, stays true, since sessions keep their slugs. `PostInv`: what was submitted is in the catalogue of the options that the form had. |

**The refinements.** `LifecycleImplemented` says that `Reconciler` with one loop implements
`SessionLifecycle`, under the mapping that takes `phase` to `status`, `served` to the
sessions with a live droplet and `named` to those with a record. `StepKinds` sorts the
concrete steps into those that change one status and those that change one account;
`StatusSimulates` maps the former to the abstract transitions, with `EndedIsAlwaysClean`'s
invariant for the step to `ended`; `ServersChangeOfOne` and `NamesChangeOfOne` show that
the latter serve or name one session, in a phase that permits it; every other step is a
stutter. The mapping is needed with the invariant: without it a step to `ended` could
leave a server behind, which the abstract specification forbids.

`RegistryImplemented` says that `SessionAccess` implements `SessionRegistry`, for any number
of requests. The moment at which a create takes effect is its commit, for one that is
refused the look at the slug or the insert that found it taken; `RequestSimulates` goes
through the statements, and `RegistryStep` adds joins, instances and machine tokens. The
invariant supplies what the abstract guards ask for: that the slug is free at the commit,
that a session exists when its tokens are told, and that a token which is stored is for a
session without an instance.

**Data of any size.** The lists are about what sorting, cutting and summing compute, and the
library's operators for these (`FoldFunction`, `FlattenSeq`) are recursive. The induction
theorems of the library take an operator as a parameter, which none of the installed
provers can instantiate; the proofs use the smallest counterexample instead.
`SmallestSubset` and `LeastNumber`, from the well-foundedness of strict inclusion of finite
sets, say that a set of counterexamples has one below which there is none, and that one is
refuted by unfolding the recursion once. So `CountsAddUp` shows that counts by status
add up to the rows that have one of the statuses, `PiecesJoin` that pages put together are
what was cut. `RankNumbers` shows that ranks number the matching rows from 1, because the
order is total (`BeforeIsTotal`: the id decides last); `InOrderLists` that the list
holds each of them once; `PagesAreThere` that the page which `ClampListSessionsPage` lets
through is not empty.

Rather than one proof per action and conjunct, the larger proofs first describe how any
step can change one thing, such as one status (`StatusStep`), one record (`RecordStep`) or one
caller (`CallersMove`); the conjuncts then follow from these few lemmas.

Every invariant, action property and refinement of the passing runs is also a theorem.
Proved only, without a run: `BucketsBounded`, `ServingIsMigrated`, `CreatedWhole`,
`RepliesAreTrue`, `MachineTokenKept` and most types.

Model-checked only:

- Every liveness property (`TeardownEnds`, `ProvisioningResolves`, `DNSConverges`,
  `RecordConverges`, `DeletionEnds`, `DestroyEnds`, `PagesSettle`, `StopsOnSignal`,
  `NobodyWaitsForEver`): fairness and ENABLED are out of the prover's reach.
- `DashboardPages`, whose only property is one of these.

## 5. Not modelled

- *Configuration* (`internal/config`): parses and validates environment variables once, at
  the start; a function of strings without state. What depends on it is a parameter or an
  initial value elsewhere (the limiter's limits, a missing token, a wrong base domain).
- *Room page* and *embedded assets*: a static placeholder page and the serving of files.
- *SQL of the migrations*, column scanning (`scan.go`), JSON shapes, status codes beyond the
  kinds a client tells apart, logging, rendering.
- *Contents of exports*: an export appears in `ControlPlane` as the connection it holds.
- *Cloud-init and the room server itself*: code on the droplet; nothing of it runs in the
  control plane, and no implemented operation reads its answers yet.
- In the store: metadata and text of events and errors, attempt counters, region, size and
  image of a row; they are written and shown, and no decision depends on them.

## 6. What could come next

1. A refinement from `CloudflareDns` and `DropletProvider` to the one-step calls that
   `Reconciler` uses, which today are linked by the contracts described in section 2. The
   calls of `Reconciler` would have to be split first: a request whose client has given up
   can take effect after its call has ended, which the request-level models have (`late`)
   and `Reconciler`, where a failed call has its effect at once or not at all, has not.
2. The callbacks of the room server (`ready`, `active`, uploads) once the code has them.
