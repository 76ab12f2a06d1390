# DevTracker in TLA+

Specifications of the server under `src/src` ("DevTracker": tasks, projects,
accounts, organizations, an API gateway in front of microservices, caches,
realtime presence, analytics, backups and migrations), checked with TLC and, for
the gateway with its breaker and balancer, the resilience patterns, both caches,
the accounts behind their routes, the workspace of projects and tasks, organizations,
backups and migrations and realtime presence, proved with TLAPS.

Source paths below are relative to the application, `src/src`.  A definition of
a module carries the name of the function it models where TLA+ allows it; the
lines each one stands for are listed in `PROJECT.json` under `map`.  `docs/` is the
directory beside it, `src/docs`.

## How the program runs

One Node.js process with one thread.  A handler runs without interruption up to
an `await` of something that is really outstanding, so an action of a
specification is the code between two such points:

| what suspends a handler | where |
| --- | --- |
| an HTTP call to another service, given up after 5 s | `microservices/service-client.ts:10` |
| a `setTimeout` (retry pause, reset timer, race against a timeout) | `services/gateway.service.ts`, `services/circuit-breaker.service.ts`, `patterns/circuit-breaker.ts` |
| bcrypt, computed on another thread | `utils/password.ts`, awaited in `services/auth.service.ts` |
| file operations and compression | `services/backup.service.ts` |
| queries to MySQL over a pool | `services/organization`, `membership`, `team.service.ts` |
| messages between a client and the server | `client/realtime-client.ts`, `services/websocket.service.ts` |

SQLite is called synchronously (`better-sqlite3`).  An `async` repository method
that awaits nothing outstanding finishes within the same turn but for microtasks,
and no request, timer or answer is handled in between; such handlers are one
action.  There is one exception to atomicity at any point: the process may end
(`Restart`, `Crash`), which loses what is in memory and keeps tables and files
as the statements before left them.

## Inventory

**Gateway** (`services/gateway.service.ts`).  Keeps routes and metrics.
`routeRequest` finds a route, picks an instance with the load balancer, passes
the call through the circuit breaker of the service, inside `executeWithRetry`,
and updates the metrics.  Hard: retries repeat what the breaker has rejected;
the instance is picked once per request, the HTTP call picks its own; failure
paths skip the balancer.  Correct when: every request is answered and counted
once, the breaker is driven through its interface only, and the balancer is not
misled about who is busy.

**Circuit breaker** (`services/circuit-breaker.service.ts`).  One per service:
state, counts, a reset timer.  Hard: any number of operations are under way when
the state changes, and their results arrive in any order in any later state.
Correct when: it neither stays open nor stays saturated for good, admits a
bounded number of test requests, and opens and closes for the reasons it is
meant to.

**Load balancer** (`services/load-balancer.service.ts`).  Index and counts per
instance.  Hard: the list it chooses from changes between calls, resets happen
with requests under way.  Correct when: counts match what is under way, and each
algorithm keeps its promise of evenness.

**Resilience of the services** (`patterns/circuit-breaker.ts` with its
`ResilientServiceClient`, `microservices/`).  A second breaker,
which goes by the clock and races its operations against a timeout; a registry
of processes that heartbeats keep healthy; a gateway router and a client with a
timeout of its own.  Hard: what lost the race goes on; a heartbeat late against
a periodic check; a registry that a restart empties.  Correct when: only
processes that are there, or have been until lately, are called, and the breaker
moves for the reasons its thresholds state.

**Multi-layer cache** (`services/cache.service.ts`).  A first layer, `LRUCache`,
made of a map and a hand-written doubly linked list; a second layer, a larger
map, with files written behind it; promotion from the second to the first.
Hard: long sequences of link manipulations; copies of one datum with two
expiry dates; the limit of each layer.  Correct when: the list and the map
agree, the least recently used key is given up, and nobody reads outdated data.
**HTTP cache** (`middleware/cache.middleware.ts`) keeps answers to `GET` in it
and empties it around changes.  Correct when: what is answered from the cache is
what the tables would answer.

**Accounts** (`services/auth.service.ts`, `services/user.service.ts`, the user
and token repositories, `utils/jwt.ts`, `jobs/cleanup.job.ts`).  Tables `users`
and `refresh_tokens`, identifiers from counters in memory.  Hard: checks before
bcrypt, insertions after it; equal tokens signed within one second; counters that
restart while rows stay.  Correct when: addresses are unique, ended sessions stay
ended, and rows are not replaced.
**Guards of the auth routes** (`middleware/ip-security.middleware.ts`,
`middleware/advanced-rate-limit.middleware.ts`, `services/security.service.ts`).
Per client address: a list of recent requests, a count of failed logins, a block.
Hard: the check precedes bcrypt, the count is never taken back, and every error
of a login counts.  Correct when: tries are bounded, and who is blocked gave a
reason.

**Tasks, projects, comments, history, events** (`services/task.service.ts`,
`project.service.ts`, `comment.service.ts`, `activity.service.ts`,
`subtask.service.ts`, `search.service.ts`, `workflow-rule.service.ts`, their
controllers, routes and repositories, `events/`, `graphql/`, `grpc/`,
`routes/v1`, `routes/v2`).  Tables of SQLite and listeners in memory.  Hard:
several statements and no transaction; identifiers that begin anew; four
interfaces to the same rows.  Correct when: the tables, the history, the events,
the pages and the cached answers tell the same story.

**Realtime presence** (`services/websocket.service.ts`,
`client/realtime-client.ts`, `controllers/realtime.controller.ts`).  Server:
maps of sockets, users, presence and typing.  Client: a socket.io socket and its
listeners.  Hard: lost connections noticed late, several devices of one user, a
socket that authenticates again.  Correct when: who is shown online is online,
and `connect()` ends.

**Analytics and predictions** (`services/analytics.service.ts`,
`utils/analytics-helpers.ts`, `services/ml.service.ts`, their controllers).
Pure computations on the tasks that were read.  Hard: boundaries of trends,
streaks, funnels, ranks and rounding.  Correct when: figures of different pages
that are about the same thing agree.

**Organizations** (`services/organization`, `membership`, `team.service.ts`,
tenant and permission middleware, controllers, routes).  Tables of MySQL over a
pool.  Hard: every statement awaits, so any two requests interleave between any
two statements.  Correct when: keys and references hold, a creation is whole, and
no connection is lost.

**Maintenance** (`services/backup.service.ts`, `database/migrator.ts`,
`database/init.ts`, `jobs/`).  A database file, its migrations, a directory of
backups with `metadata.json`.  Hard: two services share the directory, calls
overlap file operation by file operation, crashes at any moment; most calls
end in an error of their own log line; the tables that every start makes are known to
no migration.  Correct when: records are true of the files, a call that is left alone
has done its work, a restore leaves a whole database, and a start fails for a reason.

How the parts interact: the gateway calls breaker, balancer and HTTP client, and
reads the registry; the resilient client calls the gateway's router through its
own breaker; the cache middleware surrounds the handlers of tasks and projects;
those call the repositories and publish events; the auth routes pass the guards
before they reach the accounts; realtime endpoints call the websocket service;
jobs call the repositories and the backups on a timetable; migrations and
restores change the same database file.

## Modules

| module | models | notes |
| --- | --- | --- |
| `CircuitBreaker` | the breaker of the gateway | state, four counters, the timer, the phase of every call |
| `BreakerProtocol` | what a breaker promises | abstract: a mode, whether it is armed, permits for test requests; `CircuitBreaker` implements it |
| `CircuitBreakerHistory` | breaker and its past | failures in a row, test requests of the period, a service that is repaired |
| `CircuitBreakerProofs` | | theorems of the three above |
| `Subsequences` | what filtering leaves of a list; the n-th of a set | used by balancer, caches, limiter and the table of history |
| `SubsequencesProofs` | | lemmas about them |
| `LoadBalancer` | the operations of one balancer and the health of its instances | instances are numbers, in the order they registered; used by `BalancerAccounting` and `Gateway` |
| `BalancerAccounting` | a balancer used as its interface asks | selections reported back; health changes; resets |
| `Gateway` | `routeRequest`, `executeWithRetry`, metrics | an `INSTANCE` of `CircuitBreaker` whose calls are the attempts `<<request, n>>`, and `LoadBalancer` |
| `LRUCache` | the linked list and the map | every field of every node |
| `RecencyCache` | what an LRU cache promises | abstract: one sequence of keys; `LRUCache` implements it |
| `MultiLayerCache` | both layers | the first as the sequence `RecencyCache` allows, the second with its dates |
| `CacheProofs` | | theorems of `LRUCache`, with the refinement, and of `MultiLayerCache` |
| `Accounts` | accounts and sessions | two tables, counters, requests suspended in bcrypt |
| `AuthRoutes` | the auth routes with their guards | extends `Accounts`; `RoutesSpec` implements `Spec` of `Accounts` (proved) |
| `AccountsProofs` | | theorems of the two |
| `WorkspaceTables` | the SQLite tables of projects, members, tasks, comments and history | statements as operators |
| `Projects` | project controller and service | an operation is its error and the list of statements it runs |
| `Tasks` | controllers and services of tasks, comments, history, subtasks, workflow rules; events; the response cache | likewise |
| `TaskQueries` | lists, pages, statistics, search | operators on the tables |
| `Workspace` | all of that behind REST, GraphQL and gRPC, with crashes between statements | the checked composition |
| `RequestProofs` | | theorems of `BalancerAccounting` and of `Gateway`, which cite those of the breaker, and of `Workspace` |
| `Presence` | the websocket service and the realtime endpoints | a handler is one step |
| `RealtimeClient` | clients, connections and `Presence` | the checked composition |
| `RealtimeProofs` | | theorems of the two |
| `Metrics` | `utils/analytics-helpers.ts` | pure operators, fractions as pairs |
| `Analytics` | the figures over a list of tasks that grows and ages | |
| `Predictions` | the heuristics of `ml.service.ts` | |
| `Insights` | the pages of both controllers | |
| `OrgTables` | tables and statements of organizations | |
| `Organizations` | routes, middleware, handlers, statement by statement, and the pool | the checked composition |
| `OrganizationsProofs` | | theorems of the two |
| `Migrator` | `DatabaseMigrator` on a database value | |
| `Backups` | `BackupService`, one action per file operation | |
| `Maintenance` | both on one database file, starts, releases, crashes | the checked composition |
| `TimedBreaker` | the breaker of `patterns/` | |
| `ServiceRegistry` | registry, discovery routes, health checks | |
| `Resilience` | sender, breaker, gateway router, client, process | the checked composition |
| `OperationsProofs` | | theorems of `Maintenance` and of `Resilience`, with the modules they compose |
| `MC...` | | model values, inputs, views and symmetry for TLC |

Definitions whose comment begins with "Mutation" are wrong on purpose: variants
of the operator that follows, as a plausible slip would leave the code.  With one
in the place of the operator, TLC finds the property that `PROJECT.json` pairs
it with violated; this shows that the property depends on the code.

### State and actions against the code

*CircuitBreaker.*  `state`, `failureCount`, `successCount`, `totalRequests` and
`halfOpenAttempts` are the fields of the class, `resetTimer` tells whether the
timeout of `open()` is pending.  `Execute(c)` is `execute()` up to
`await operation()`, a rejection included; `Succeed(c)` and `Fail(c)` are what
follows, in whatever state the breaker then is; `TimerFires` is the callback of
`setTimeout`; `Reset` the administrator's.  `close()` and `reset()` leave a
pending timer alone, so it may fire on a closed breaker; that is in the model.

*Gateway.*  `Route(r)` runs to the first suspension: choice of the instance,
count, first attempt.  `Retry(r)` is the end of a pause; `Respond(r)` and
`AttemptFails(r)` the answer, with metrics and, on success only,
`recordResponse`; `Refuse(r)` the early returns.  `target` is the instance the
service client picks by itself; when none is healthy the attempt fails.

*LRUCache.*  `list` holds `head`, `tail` and the `prev` and `next` of every node;
`RemoveNode`, `AddToFront` and `MoveToFront` assign them in the order of the code;
`LRUGet`, `LRUSet`, `LRUDelete` and `LRUClear` are the methods of the class.
A node is named by its key, which is sound because the map holds one node per
key; links of a node that left the map are set to `NoNode`, since nothing refers
to it.

*MultiLayerCache.*  `now` is the clock of `Date.now()`, `l1` and `l2` the layers,
`latest` a history variable.  Data that JavaScript takes for false is told from
other data, because `get()` tests the promoted value for truth.

*Accounts and AuthRoutes.*  `users` and `tokens` are the tables by identifier,
`nextId` the counters of `generateId()`, `request` what a handler holds while
bcrypt works.  A token is what it is signed over: user, address and second of
issue; two logins in one second give the same token, which the `UNIQUE` column
refuses.  An insertion that fails still uses up an identifier.  `requestTimes`,
`suspiciousIPs` and `blockedIPs` are the maps of the guards; `Admit` is the
limiter, `MayPass` the block, `FailedLogin` what the controller reports, for a
wrong password, an unknown address and a token that could not be stored alike.

*Workspace.*  An operation is the error its checks answer with (`UpdateTaskError`
and the like) and the statements that follow when there is none; `reply` keeps the
answer's code.  The operations of several statements have a second form, for the
process that ends between two of them (`CreateProjectCut`, `UpdateTaskCut`,
`CreateCommentCut`); `torn` and `cut` remember the rows concerned.  `cached` maps
the paths of `Paths` that are kept to the rows answered; `announced` counts the
events published.  Texts are left out; status, priority and project of a task are
kept, since guards and queries read them.

*Realtime.*  `Presence` has the four maps of the service; a message handler is
an action.  `RealtimeClient` adds for each client its state, the messages it has
buffered, those under way in both directions and the listeners it has added.
`Drop` breaks a connection for the client, with a part of what is under way; the
server notices it (`NoticeGone`) when that part has been handled.  `HttpRequest` is
the endpoints of the realtime controller.

*Analytics, Predictions, Insights.*  `tasks` is a sequence to which tasks are
added, whose status changes and over which days pass; everything else is an
operator on it, compared with other operators or with a reference definition.
The words of a title are a small set, from which each list of keywords of the
code has one.  Rates are rounded as in the code; other fractions are exact.
The query of the analytics service fails and leaves an empty list; `Selected` is what it
would select, and the rules about pages are checked over both lists.

*Organizations.*  A request is a record with the statement it is at; each action
is one statement, begun when a connection is free.  `PoolSizes` are the sizes of
the pool tried; a transaction keeps its connection until commit or rollback.  `Asks`
is what the interfaces of `organization.types.ts` allow in a body, as far as guards and
tables tell it apart: plain columns, a theme or limits among the settings (`Merged`
puts them over those that were read, whatever the plan is), teams that are there or
not, and roles.  Of the permissions that a member may be given on their own, only the
empty list is tried.

*Maintenance.*  `Backups` has the directory (each file whole, torn or absent),
the metadata list as it reads (no file, and one that is cut off, read as an empty
list), and for each call its step and local variables.  `logger` is undefined in
`BackupService`, so that each of its log lines throws: `createBackup`, `restoreBackup`
and `deleteBackup` end in an error after their work, a clean-up ends with the first
backup it has removed, and every restore goes through its `catch`, where there is
nothing to put back if all went well.  `said` is what a call was answered.  Where two
calls write `metadata.json` at once, the file may be what one of them wrote or a
mixture that reads as no list (`Written`).  With the two callers of the run that is
exact; a third one that writes over such a mixture is taken to leave its own list,
although it may leave a mixture as well.

The database is a value that `Migrator` changes: schema, table of migrations and how
its users are keyed, or torn.  A run of migrations is the files before the first that
fails (`Failing`), in order, which is what the loop with its `throw` leaves.
`InitializeDatabase` runs what is pending, then `createTables()` (`CreateTables`) and
`seedData()`, which fails over users keyed by numbers, as `001` makes them.

*Resilience.*  Time is in ticks; every timer is a number that `Tick` lowers, and
`Tick` waits while a timer is due, as Node runs due timers before it sleeps.  A
call that has lost its race stays in `request`, no longer `waiting`, until its own
client gives up.

## What the runs check

All runs pass.  Most properties are conjunctions of named parts; a part says one
thing, and the comment above it names the code it is about.

| run | instance | states | properties and their parts |
| --- | --- | --- | --- |
| `CircuitBreaker` | 5 calls, threshold 2, 2 test requests | 228,270 | `Inv`, the inductive invariant; `ImplementsProtocol`, the refinement with its fairness; `ProbeBudget`; `TransitionsHaveReasons` (trips after enough failures in a row, closes only if no test request failed); `SelfHealing` (open and saturated periods end; recovery after a repair) |
| `Balancer` | 3 instances, 6 selections, two algorithms | 1,197,496 | `CountsAreSound` (connections accounted for up to what a reset forgot, round robin even); `LeastLoadedChosen` |
| `Gateway` | 2 requests of 2 attempts, 2 instances, threshold 3, 1 test request | 774,384 | `BooksBalance` (metrics; no busy instance taken for idle); `BreakerIsUsedProperly` (the breaker's own specification holds of it; one request alone cannot trip it); `RequestsAnswered` |
| `LRUCache` | 5 keys, 4 places | 2,491 | `ListIsSound` (head, tail, links and map; size); `ImplementsRecency` |
| `MultiLayerCache` | 3 keys, layers of 1 and 2 | 51,254 | `AnswersAreCurrent` (never replaced or deleted data, at most one extra default life); `EvictionFollowsUse` (who is evicted; the second layer overflows only in a burst) |
| `Accounts` | 2 requests at a time, 2 addresses, 2 names, 1 client address, 2 seconds, 2 identifiers | 691,967 | `OneAccountPerAddress`; `LogoutIsFinal`; `SessionsAreNotReplaced`; `GuardsHold` (the limiter's window, bounded tries, who is blocked gave a reason or met the identifiers of a restart, which cost one insertion per row) |
| `Workspace` | 2 users, 2 tasks, 1 project, 1 comment, 2 rows of history | 132,684 | `TablesAgree` (owners are members, pages partition a list); `HistoryIsComplete` (history, events and comments against the task); `CachedTasksAreCurrent`; `RequestsLeaveNoTrace` (reused identifiers are blank, refusals change nothing) |
| `Realtime` | 2 clients of 1 user, 3 sockets, a loss, 4 events | 198,150 | `PresenceIsSound` (presence follows the sockets, the list of users is heard, duplicates are explained, statistics); `ConnectSettles`; `GoneMeansOffline` |
| `Analytics` | lists of up to 3 tasks of 2 users, 2 changes of status, 8 days | 32,359 | `FiguresAgree` (dashboard, funnel, streaks, trends, ranks, aggregates); `AnswersAreSound` (recommendations mutual but where five others are as relevant, predictions, pages) |
| `Organizations` | 2 requests of any routes, pool of 1 or 2 | 274,642 | `TablesAreSound` (keys, references, pool, lists); `WritesAreWhole` (a founder with his organization, refusals after a write only for a reason); `PlanDriftHasCause`; `RequestsEnd` |
| `Maintenance` | 2 calls at once, 3 in all, 3 migrations, 3 tables, 1 backup kept | 485,989 | `RecordsAreTrue` (directory, migrations recorded, applied, in order); `RestoreKeepsDatabase`; `CallsDoTheirWork`; `StartsFailForAReason`; `CleanupKeepsNewer` |
| `Resilience` | 1 process, 2 requests, periods of 1 and 2 ticks | 3,861,829 | `RegistryIsSound`; `CallsReachTheLiving`; `BreakerMovesForAReason` (opening, closing, reopening, distance of trials) |

Why the bounds are enough.  *CircuitBreaker*: two calls trip it, two are test
requests, and a fifth is late from before the trip.  *Balancer*: six selections
are two full turns of three instances, or a turn, a change of health or a reset,
and another.  *Gateway*: three failures of four attempts trip the breaker, the
fourth is the test request; the algorithm `random` allows every choice the others
make.  *LRUCache*: in a list of four places a node is first, second, last but one,
or last, and the fifth key evicts.  *MultiLayerCache*: with one place in the first
layer and two in the second, three keys reach every combination of copies; ticks 0
to 3 pass a time to live of 1 and 2 and the default after it.  *Accounts*: two
requests are a racing pair; two identifiers suffice for a clash after a restart;
three requests in each of two windows exceed the two failures that block, with
some to spare.  One client address is enough, since the guards keep every address
apart.  *Workspace*: two users are owner and stranger, two tasks reorder and fill
two pages, one identifier of each kind is deleted and drawn again.  *Realtime*: a
phone and a laptop are all there is to "another device", the third socket is the
one that comes back.  *Analytics*: three tasks and two changes of status make
every order of creation and of two completions around a day without any; eight days cross a week; recommendations are
looked at over the list and over three times the list, which passes the limit of five.
*Organizations*:
races are of pairs of requests, each is followed through all its statements.
*Maintenance*: a pair of overlapping calls and one after them, which meets what
they left; a migration that makes anew an index of `createTables()` (`002`), one that
makes users keyed by numbers, and one that SQLite does not accept.  *Resilience*: the periods keep their order (the client's timeout is
shorter than the sender's, three heartbeats make the limit of health); two
requests are a trial and a late call.

The named bounds are `MaxSelections`, `MaxTime`, `MaxId`, `MaxTasks`,
`MaxProjects`, `MaxComments`, `MaxLogs`, `MaxEvents`, `MaxAttempts` of a client,
`MaxDay`, `MaxChanges`, `MaxPasses`, `MaxRequests` of `Organizations`, `MaxIds`
and `MaxCalls` of `Maintenance`; they are tested in guards, and no run has a state
constraint.  The view of `Workspace` leaves out `reply`, which no guard reads and
which is a function of the step.  Symmetry is declared over values that nothing
tells apart, and in no run with a liveness property.  Deadlock is not checked
where the system really stops: when the days of `Analytics` are over, both
requests of `Organizations` are answered, or the calls of `Maintenance` are used
up on a server that did not start.

## Divergences from documentation and comments

Noticed while modelling.  The models follow the code; no run is kept to refute
these sentences.

1. "If we've had enough successful requests, close the circuit"
   (`services/circuit-breaker.service.ts:49`).  The code compares the test
   requests *started*: the first success closes the breaker when all have been
   started.
2. "Routes to the instance with fewest active connections"
   (`docs/DAY49_API_GATEWAY.md:26`).  A failed request never gives its connection
   back (`gateway.service.ts:125` runs on success only).
3. "Fail Fast: Immediate error response" (same file, :250).  The retry loop treats
   the breaker's rejection like any error and pauses.
4. "L2 cache max items" (`docs/DAY48_ADVANCED_CACHING.md:53`).  `evictL2` compares
   with `<` to the current time and finds nothing to evict when all items were used
   in the same millisecond.  "Survives application restarts" (same file, :218): the
   files are written and never read.
5. A refresh answers with new tokens (`docs/api/authentication.md:139`).  `findById`
   returns the raw row, whose column is `is_active`; `isActive` is undefined, and
   every refresh is refused.  For the same reason `changePassword` and
   `deleteAccount` never get past `bcrypt.compare` of an undefined hash.
6. "Block IP after 5 failed attempts" (`services/security.service.ts:35`).  A login
   whose token cannot be stored counts as well: after a restart over five sessions,
   five right passwords block the address until the next restart, `unblockIP` being
   called by nobody.
7. Typing indicators have "Automatic cleanup on timeout" (`docs/day52-README.md:82`).
   They end only by an explicit message, not even when the connection ends.

What else the code does not do as it reads, and the models therefore do not
either:

- `GET /tasks` sorts by `createdAt`, a column that does not exist, unless asked
  otherwise: 500, and so for the dashboard, the lists of v1 and v2 without
  parameters, and every prediction that lists tasks.  The analytics service
  catches the same error and counts no tasks at all.  Search, facets and
  suggestions name columns that are missing; subtasks and workflow rules a table
  that is missing; attachments are always refused.  An `ApiError` passed to
  `next()` is answered with 500 (`index.ts:138`).
- Over gRPC identifiers are numbers and never those of a task: get answers
  NOT_FOUND, update INTERNAL, delete success, create fails.  GraphQL's `rootValue`
  groups the resolvers so that none is called.
- `transferOwnership` has no route and changes nothing; deleting a project leaves
  its tasks in the cache.
- `webSocketService` is never assigned: the realtime endpoints answer 503.
- The organization routes are mounted nowhere, and their `authMiddleware` is an
  object; `acceptInvitation` has no route.  The model takes `req.user.userId` and
  `req.user.id` for one identity.
- A start over a new database fails at the first migration written for MySQL, over
  the committed one at an index that is there; nothing catches it.  Reminders are
  never sent.
- `services/backup.service.ts:7`, `controllers/backup.controller.ts` and
  `jobs/backup.job.ts` import `logger` from `utils/logger`, which exports none by that
  name (only a default, `utils/logger.ts:56`).  Every log line of theirs throws.  The
  backup is made, listed, restored or deleted, and then the call fails; only
  `verifyBackup` logs nothing.  Since the module of the controller starts the schedule,
  and with it a log line, while it is loaded, and the migration controller imports a
  `db` that `database/connection` does not export, `routes/index.ts` cannot be loaded
  as it stands.  The handlers behind these routes are modelled as if it could; the
  nightly job needs none of it.
- A heartbeat and a deregistration are answered with success whatever happened; a
  process that goes on with heartbeats after a restart of the gateway is not listed
  until it registers again; the gateway, which sends itself no heartbeat, is after
  three periods ready only thanks to others; `/health/services` says `up` always.

## Fairness

Only what the runtime does by itself is fair: an expired timer is run
(`TimerFires`, `Retry`), and an operation that was started ends, in success or
failure (`Succeed(c) \/ Fail(c)`, `Respond(r) \/ AttemptFails(r)`), since the
HTTP client gives up after five seconds.  In `RealtimeClient` messages on a
connection that stands arrive, the server notices a lost connection (socket.io's
ping) and an attempt to connect comes to an end, with or without a connection;
connections are lost without fairness, and together with what the applications do
at most `MaxEvents` times.  In `Organizations` every request is weakly fair in its
next statement, as the database ends each statement and the pool's queue is first
in, first out.  Clients, administrators,
the health of instances and the passing of time get none.  `RepairedBreakerCloses`
needs clients that keep calling; it says so as a premise (`ClientsKeepCalling`)
and not in the specification.  The other modules have safety properties only.

## What is proved

The theorems hold for every value of the constants that satisfies the named
assumption, and each rests on an inductive invariant that TLC has checked on the
run of the same part before it was proved.

**Breaker** (`CircuitBreakerProofs`): any set of calls, finite or not, and any
threshold and budget of test requests from 1 (`ConfigAssumption`).  No safety
property of the breaker is inductive alone.  An open breaker has a timer pending
(`OpenHasTimer`) because every way into that state sets one and the only way to
lose it leaves that state.  That a saturated breaker still has a test request
under way (`ExhaustedProbesUnderWay`) needs two facts more: that no timer is
pending in the half-open state, else the count would restart under the running
ones (`NoTimerWhileProbing`), and that counts outside that state are zero
(`AttemptsOnlyWhileHalfOpen`): the last permit is always taken by a call that is
then under way, and the end of any call in that state either closes or opens the
breaker.  `Inv` is the conjunction of these parts, and gives `TypeCorrect`,
`NeverOpenForGood`, `NeverStuckHalfOpen`, `NeverLateToTrip`.  `ProtocolSafety`
proves the safety part of the refinement: initial states map to initial states of
`BreakerProtocol`, and each action to one of its steps or to a stutter.
`BudgetKept` and `ReasonsGiven` are about the history beside the breaker; they
need that the attempts counted are the test requests of the period, each under way
or successful (`AttemptsAreProbes`), and that a closed breaker counts no more
failures than came in a row (`CountIsStreak`).

**Balancer** (`RequestProofs`, first part): finitely many instances, any number of
selections (`BalancerAssumption`).  `CountsSound` contains the evenness of round
robin, whose invariant says more than how far apart two shares may be: since the
last change of the healthy instances, everyone has had as many requests as there
were full rounds, and one more if the round under way has reached him
(`TurnsAreTaken`).  `LeastLoaded` is an action property, from the types and the
accounting of connections.

**Gateway** (`RequestProofs`, second part): any instances, finitely many requests, any limits
from 1 (`GatewayAssumption`).  `BreakerUsed` proves that every step of the gateway
is a step of `CircuitBreaker` with the attempts as calls, or leaves it alone, so
that the theorems about the breaker are cited and not proved again; one of them,
read back in terms of requests, is `SaturationIsSomeonesWait`.  That one request
alone does not trip the breaker is proved by counting: each failure the breaker
counted has an attempt that failed (`FailuresExist`).  `BooksAreRight` needs that
a request has at most one attempt at a time and none beyond its last
(`OneAttemptAtATime`).

**Resilience** (`OperationsProofs`, first part): any processes, names and requests and any
periods in the order the code gives them (`NoneAssumption`, `RegistryAssumption`
and the assumptions of `TimedBreaker` and `Resilience`).  `Sound` and
`LivingCalled` need that a process was heard of no later than it stopped, and that
the time a sender has spent is that on the way and that at the process
(`RegistryFollowsProcesses`, `ClockOf`); `MovesForAReason`, that what the breaker
counts is what the histories remember, as long as it matters
(`CountsFollowHistory`).

**Maintenance** (`OperationsProofs`, the rest): any calls, finite or not, any
number of backups and of those that are kept (`BackupAssumption`), any files of
migrations whose names differ and of which those that can run are numbered upwards
and make nothing anew that an earlier one makes, as the committed ones do
(`FilesAssumption`); a file can hold any database (`MaintenanceAssumption`).  The
invariant has nine parts.  `CallsFit` and `DiskFits` are types, with the steps at
which each kind of call can stand.  `DatabasesFit` says that in the database, the
safety copy, every backup and the bytes a call holds, either the file is not whole
or the first n migrations are executed and, short of a rollback, nothing else is there
but what `createTables()` makes; it is
kept by copies because it is about files, and by runs, rollbacks and crashes between
two migrations because each starts from the first n and ends in the first m.  The
other parts are about the files: `EntriesFit`, that a backup is entered once and
after its file is there, counts as known what a call has read and may write again,
which is how a deleted entry comes back; `OneByOneCalls`, that as long as nothing
overlapped one call at most is under way, lets the next three say what only that
call has changed so far.  `RestoresFit` follows the safety copy through a restore,
and through its failure, up to the step that brings the database back; `BackupsFit`
is what it needs, that a file which has been or will be entered is whole.
`DirectoryFits` says by how much list, directory and limit differ at each step of a
creation, with the one backup that its clean-up removes, and of a deletion.
`NewestStays` holds under any overlap: from a backup that was ever entered on, there
is a whole file that is as new, as long as nothing was deleted on request or cut
off; so what a clean-up has chosen, which was older than something it saw in the
list, is older than a whole file when it is removed.  `MaintenanceRecords`,
`MaintenanceRestores`, `MaintenanceCalls`, `MaintenanceStarts` and `MaintenanceCleanup` follow, the
last three as action properties.  `MaintenanceCalls` needs of the invariant that a call
knows, at each step, what it has changed so far, in a directory nobody else changes.
`MaintenanceStarts` needs that a run over a whole database succeeds if its files are
accepted and make nothing anew that is there (`RunSucceeds`): nothing is there but what
recorded files and `createTables()` have made.

**In-memory layer** (`CacheProofs`, first part): any keys, any size from 1.  The invariant
is that the links are those of one sequence, which lists the keys of the map
without repetition (`Listed`).  Each operation on links is shown to be an
operation on that sequence: removal takes one element out, insertion puts one in
front.  `ListSound` follows; so does `Implements`, because the sequence that following
`next` from the head yields (`Order`) is the one of `RecencyCache`, the refinement
mapping, and is unique.

**Both layers** (`CacheProofs`, the rest): any keys, data, times to live, patterns
and sizes.  Every copy in either layer holds what was set last and not deleted
since.  In the second layer its expiry is the one it was set with (`L2Sound`); in
the first it is later by one default time to live at the most (`L1Sound`), since a
promotion dates a copy anew, and only one that has not expired.  `Current` and
`Follows` follow.

**Accounts** (`AccountsProofs`, first part): any sets of requests, addresses and
names and any lengths of life and of time (`AccountsAssumption`).
`AddressesUnique` is inductive together with the type, since the insertion tests
again what the registration tested before bcrypt.  `LogoutFinal` needs three facts
more: no two rows hold the same token (`TokensUnique`), so that revoking one row
revokes the token; a row expires with its token (`ExpiresAsSigned`), so that
clean-up removes only what the signature refuses anyway; and a token that was
ended has its revoked row until then, or is past its date (`EndedUntilExpired`).
`SessionsKeepTheirRows` is an action property that follows from the type and the
tests for a free identifier in each insertion.

**Guards** (`AccountsProofs`, the rest): any set of client addresses, any limits
from 1 and finitely many requests at a time (`AuthRoutesAssumption`).
`RoutesImplementAccounts` shows that every step of the routes is a step of
`Accounts` or leaves it alone, and `RoutesAreSound` carries the theorems above
over.  `GuardsStand` proves the whole of `GuardsHold`, from four invariants.
`TriesInv` (also behind `TriesAreBounded`): an address that is not blocked has
failed less often than blocks it, and a comparison under way knows its address; so
a login begins only where the failures are below the limit and the comparisons at
most as many as requests, and from then on each failure ends a comparison.
`WindowInv`: what the list of an address holds of the last window is what was let
through in it, although the list is tidied only when a request passes.
`CollisionsInv`: the identifiers drawn in vain since the start, and the rows at or
above the next one, are together no more than the rows the process found.
`HonestInv`: the failures of an address that sent no wrong credentials are at most
the collisions and the logins of one second.

**Organizations** (`OrganizationsProofs`): any users, any number of requests with
any bodies of the declared types, any pool (`PoolAssumption`, `RequestsAssumption`,
`FirstAssumption`, `AskedAssumption`).  Each statement on the tables has a lemma:
rows keep types, keys and references (`TablesKept`).  Keys across two statements
need that a row has the number of a request that has inserted it, so that the
request about to insert finds its number free (`Numbered`), and that two requests
that have inserted a slug without committing have different ones, which no row has
(`SlugsReserved`: the lock on the key).  A request between two statements knows what
it tested before (`Pending`): what it writes back was a row, whom it invites has an
account.  Every step of every handler is then a `Moves`, which says what it does to
connections, slugs, tables, plan and limits; `TablesSound`, `WritesRefusedForAReason` and
`PlansDriftForAReason` follow.  The last is about limits in the body, or limits that
were read and replaced since, not the plan that was read with them: settings read
while plan and limits already differ, and written after the same plan was bought once more, restore the wrong
limits although the plan is the one that was read.  That takes four requests, more
than the run has; the proof covers any number.

**Realtime** (`RealtimeProofs`): any users, clients, sockets and tasks, any number of
attempts and events; sockets are numbers (`PresenceAssumption`), so that the first
free one can be drawn.  `PresenceFollowsSockets` is almost inductive alone: it needs
that the server knows nothing of a socket that is not live (`Forgotten`), and that a
socket that did not turn authenticates once, so that nobody's user is replaced
(`AuthenticatesOnce`: whoever is known has no authentication under way, and there
are never two).  `PresenceListIsHeard` follows from the order of a queue: before
the list there is the answer, as long as its client has no listeners
(`AnswerComesFirst`).  `DuplicatesExplained` counts: updates heard are at most the
listeners times the copies that do not wait any more (`HeardIsBounded`); a client
gets one copy for each update, and a second one only if it is in the owner's room,
which takes a socket that authenticated as the owner (`UserRooms`), hence, by its
token, a client that owns a task (`KnownByToken`).  `StatsAgree` needs no more than
the first of these: each user online is the user of a live socket.  A queue that
only gets shorter, from its front or from behind (`Piece`), keeps the facts about
what is under way; that one lemma covers losses, disconnections and every message
that does not authenticate.

**Workspace** (`RequestProofs`, the rest): any users, bodies, paths, statuses and
priorities, any number of tasks, projects, comments and rows of history
(`TablesAssumption` and the assumptions that inputs and paths have their types).
Whatever interface it comes through, a step is one of nine kinds (`EveryStep`): it
changes no table (`Quiet`), or a project, a membership, a task or a comment is
entered, changed or removed, and is then not answered with an error.  The last is
half of `NoTraceIsLeft`; the other half is that no row refers to what is not there
(`ReferencesHold`), which the cascades of a deletion keep, and which makes blank
whatever is drawn again.  `OwnersStayMembers` follows from the refusals of removing
the owner and of letting him leave.  `CachedTasksStayCurrent` needs that every step
which changes a task empties the cache, but for the deletion of a project, which
changes the one column the property excepts.  `HistoryStaysComplete` is about the
rows of history of one task and one field, which lie among others: rows that are
appended for other tasks or fields leave them as they are (`OthersAppended`), a row
of the same field goes on with the chain (`ChainGrows`, `StoryGrows`), and the
deletion of another task, which moves the rows, keeps their order and their number
(`OthersStay`, from what `SubsequencesProofs` says of keeping a part of what was
kept).  A task that is entered has no rows, again by `ReferencesHold`.  Of
`TablesAgree`, the types and the owners are proved; the pages and the figures are
made by sorting and folding, and stay with TLC.

`SubsequencesProofs` has the lemmas about lists those proofs share: what is left
of a list when positions are removed is a list, in the same order, with the same
elements, and of the length one expects; removing twice is removing once.

Out of the prover's reach and only model-checked: everything about liveness
(`SelfHealing`, `RequestsAnswered`, `ConnectSettles`, `GoneMeansOffline`,
`RequestsEnd`, and the fairness in `ImplementsProtocol`).  Induction is done by
hand, on the least member of a set of numbers, since the theorems of the library
that take a predicate cannot be used; what a recursive function, a fold, a sort or
`SelectSeq` computes cannot be unfolded that way.  That is why the lists of caches
and limiter and the table of history are filtered by the operator `Kept`, and why
`Order` is a choice among sequences and no recursion; and it is why the pages and
sums of `TablesAgree` and all of `Analytics` and `Insights`, which are such
computations, have no theorem.

## Hazards

`PROJECT.json` lists forty, each with the properties that cover it.  Others met in
this code and covered by parts of the same properties are not listed one by one:
a count exactly at its threshold, pages at and beyond the last, streaks and ranks
at their ends, an answer recorded after a reset, failures told after an opening, a
safety copy that a crash left, two invitations of one user.  What the code does
wrong in every such case, and no property can therefore forbid, has a note instead.  Not covered: a POST
that timed out at the gateway and is sent again, whose effect at the service cannot
be seen from this side; files of evicted cache items that stay; a permission that
is taken away between its check and the write (the write is not undone).

## Not modelled

Dates, texts, log lines and response times kept for display; routes added and
removed at run time (nothing calls either) and path matching in the gateway;
statistics, health and warming of the cache, and its files, which nothing reads;
avatars, listings of users; e-mail; express-rate-limit; the threat detector, which
nobody asks; monitoring (`performance-monitor`, `metrics`,
`bottleneck-detector.service.ts`), whose windows only its own pages read; code
quality, security scans, test generation and benchmarks, which compute on text
they are given; saved searches (their identifier is the millisecond, so that two
in one millisecond are one); `services/service-discovery.service.ts` (Consul),
`gateway/api-gateway.ts`, `server-gateway.ts` and `server-grpc.ts`, other
entry points that no start script composes with the rest; the 100 daily exercises
and the documentation around the application.

## Plan

Further models: avatars (a file, a row, and a crash between the two); the admin
routes of the gateway over several services.
