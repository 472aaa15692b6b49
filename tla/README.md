# A TLA+ model of the AppScan custom dashboard backend

This directory specifies the parts of `src/backend/app` whose correctness depends on
the order of things, or on figures that different functions compute from the same data:
report schedules that are executed, retried and edited at the same time; analytics
snapshots that are rebuilt behind the users' requests, and what is in them; lists fetched
page by page from a changing API; page coverage that is fetched in the background; the
calls of the ASoC client; dashboards and their versions; data sources and their
identities; and the one database connection below all of this. Modules are model-checked
with TLC on small instances; what matters most is proved with TLAPS for every value of the
constants.

    tlc -config MCReportScheduler.cfg MCReportScheduler.tla
    tlapm ReportSchedulerProofs.tla

## The system

A FastAPI backend, run as **two gunicorn worker processes** (`infra/docker/Dockerfile`),
and a React frontend. Each process is one asyncio event loop plus a thread pool: plain
`def` routes run on threads, `async def` routes and the two workers on the loop. The
processes share a PostgreSQL database; in-memory caches are per process.

| Component | State | Operations | Interacts with |
|---|---|---|---|
| Report scheduler (`workers/report_scheduler.py`) | the fetched list of due schedules | poll, execute, retry with backoff, disable | report tables, audit; started by `main.py` |
| Report routes (`routes/reports.py`) | none | generate, create, update, delete, run-now, templates, monitor | report tables, audit |
| Report tables (`postgres_store.py`) | `report_schedules`, `report_history`, `report_artifacts`, `report_templates`, `audit_events` | one function per statement or two | everyone |
| Analytics cache (`routes/analytics.py`) | table `analytics_snapshots`; per process: base data, key locks, time of the last cleanup | serve, rebuild, refresh in the background, purge | aggregation, prewarm worker |
| Prewarm worker (`workers/analytics_prewarm.py`) | its status | forced refresh of the base data every 30 minutes | analytics cache |
| Aggregation (`services/multi_endpoint.py`) | none | call every data source, merge, tag | connector, data sources |
| ASoC service and DAST coverage (`services/asoc_read_service.py`) | module-level coverage cache with a cursor | read lists, hydrate scans, refresh coverage in the background | connector |
| Connector (`integrations/appscan_api/client.py`) | access token | login, get with 429 retry, count | ASoC (external) |
| Dashboards (`routes/dashboard.py`, `postgres_store.py`) | `dashboards`, `dashboard_versions` | wizard, create, update, delete, rollback | audit |
| Data sources (`data_source_service.py`, `data_source_store.py`, `routes/endpoints.py`) | `data_sources`, cached identities | bootstrap, edit, probe | connector, aggregation |
| Database connection (`postgres_store.py:38-101`) | one connection per process | execute, commit | all threads of the process |
| Auth (`core/security`) | JWKS cache | validate token, policy, group filter | identity provider (external) |
| Lifecycle (`main.py`) | the two tasks and their stop events | startup, shutdown | workers |
| Frontend (`frontend/src`) | view state | requests | REST API |

What makes them hard, and what makes them correct:

* **Scheduler and routes**: nothing claims a due schedule, and `update_report_schedule`
  is a read followed by a write of every column, so stale rows are written back over
  newer ones. Correct means: the report tables only ever say what happened, retries end,
  deletions last, a scheduler that runs alone takes the occurrences in order and repeats
  one only when an attempt at it raised, and due schedules are served.
* **Analytics cache**: builds take minutes and await many times; requests, background
  refreshes, warm-ups and the prewarm worker work on the same caches meanwhile. Correct
  means: one build per view, data that only moves forward in time, a burst of refreshes
  that costs one fetch, and no task or lock left behind.
* **Aggregation**: some sources fail, the set of sources changes between two reads.
  Correct means: each item is tagged with the source it came from.
* **DAST coverage**: a cursor that several requests advance, timeouts that drop results.
  Correct means: every scan is eventually refreshed and cached values are not lost.
* **Connector**: retries, an expiring token shared by concurrent calls. Correct means: a
  bounded number of attempts and the last answer returned.
* **Statistics**: the same issues reach a view from cached base data or from a scoped
  fetch, and are counted by ASoC, by the service and by the routes. Correct means: both
  ways show the same, filters narrow, and the figures of a view do not contradict it.
* **Dashboards**: read-modify-write in statements of their own, version numbers by
  `MAX + 1`, a seed at every start. Correct means: history holds the name and
  widgets a dashboard shows, a rollback restores those that were asked for, the audit trail
  tells of changes that were made.
* **Data sources**: a bootstrap by two processes, probes that answer after the source was
  edited or deleted, two reads of the same list. Correct means: every endpoint imported
  once, identities and tags that belong to their source.
* **Database connection**: the statements of all threads of a process meet in one
  transaction. Correct means: a call that returns has stored its row all the same.

PROJECT.json lists every hazard at its line together with the properties that watch it.

## Modules

| Module | What it is |
|---|---|
| `ReportLedger` | abstract: reports are recorded, then stored, then audited; nothing is taken back |
| `ReportScheduler` | the scheduler tasks, the report routes and the report tables |
| `MCReportScheduler` | its small instances |
| `ReportSchedulerProofs` | its theorems |
| `AnalyticsCache` | snapshots, base data, locks, background tasks, prewarm worker |
| `MCAnalyticsCache` | its small instances |
| `AnalyticsCacheProofs` | its theorems |
| `DastCoverage` | the page coverage cache of DAST scans, its cursor and its refresh |
| `MCDastCoverage` | its small instance |
| `DastCoverageProofs` | its theorems |
| `AsocClient` | one ASoC client and the calls that share its token |
| `MCAsocClient` | its small instances |
| `Transactions` | abstract: every call of the store is a transaction of its own |
| `SharedConnection` | one connection per process under the calls of its threads |
| `Dashboards` | dashboards, versions, templates, their routes, audit and seed |
| `DashboardsProofs` | its theorems |
| `DataSources` | the table of data sources: bootstrap, edits, probes, and the views that read it |
| `MCStores` | small instances of `Dashboards`, `DataSources` and `SharedConnection` |
| `StoresProofs` | the theorems of `DataSources`, `SharedConnection` and of all three |
| `Listing` | lists of issues and scans fetched page by page |
| `ConnectorProofs` | the theorems of `AsocClient` and `Listing` |
| `Figures` | operators: words of the API, filters, technologies, statistics, series |
| `Portfolio` | what a bundle shows, from base data or from a scoped fetch (extends `Figures`) |
| `PortfolioProofs` | its theorems |
| `Counting` | lemmas: ranks, finite induction, sums of functions |
| `MCPortfolio` | small instances of `Listing` and `Portfolio` |

Operators called `Name_Something` stand before `Name`: they are `Name` with a plausible
mistake. Nothing uses them; with one of them in the place of `Name` the property named
beside it in PROJECT.json fails, which shows that the property watches that code.

### ReportScheduler

An actor is a scheduler task (`Workers`) or a request (`Requests`). `pc` is the next
store call the actor makes: `record` (`append_report_history`), `store`
(`create_report_artifact`), `select` and `write` (the two statements of
`update_report_schedule`), `audit` (`append_audit_event`). One action is one such call,
with the Python that precedes the next call, so everything else may happen in between.
`Poll` is `list_due_report_schedules`, `Take` the `for` loop over its result,
`SchedulerFault` an exception at any call (the `except` branch, or the end of the task
when the branch itself raises), `Restart` a worker process that is replaced.
`RequestFault` is an exception in a handler: what it committed stays.

Reports are numbered in the order of `report_history`; the file of an artifact is written
before its row and is not modelled separately. `next_run_at` is an instant, a cron
expression its period. `Keep` is the "`x if x is not None else existing`" of the update,
with its consequence that `next_run_at=None` does not clear the column. The `retry` of an
audit event is `details.retry_count`. A new schedule starts at its cron's next instant or
at the `next_run_at` of the body (`Starts`).

Three fields are auxiliary: no column holds them and no guard reads them. `occurrence` in
a row is the instant the row is next to be reported for; it moves with `next_run_at`
except when a failed attempt is put off, where `next_run_at` becomes the end of the
backoff and the occurrence stays. `occurrence` and `attempt` in a history row are those
of the attempt that produced the report.

Each store call counts as a transaction of its own. The code intends that, and one
connection per process keeps it true until the database fails: `SharedConnection`.

### AnalyticsCache

A task is a slot of a process: a request that has to build, a background refresh, a
base-data warm-up, or the prewarm worker. One action is the code between two awaits.
`pc` says what a task awaits: `keylock` (the lock of its view), `baselock`
(`_BASE_DATA_LOCK`), `hydrate` or `fetch` (inside `_get_base_data`), `scoped` (a filtered
view's own fetch), `compute` (the rest of `_build_bundle`). A request that can be
answered from the table is answered in one action (`ServeFresh`, `ServeStale`,
`ServeFallback`), which also starts the background tasks.

What the sources hold is a version number; a fetch returns a version between the one
that was current when it began and the one at its end. Version 0 is no data, the result
when no source answers. A bundle without issues gets the short TTL: one of version 0
always, any other perhaps (`Ttls`), for its filter may select none. `GetLock` is `_get_lock` with its eviction of the oldest
entries: a lock is an object with an identity, so a task may hold an evicted lock while
another builds the same view under the new one. The contents of a bundle are the
subject of `Portfolio`; left out is the cold fast path of the prewarm worker when there
is no data source at all.

### DastCoverage

All services of a process share `cache`, `cursor` and `task`, the module-level variables
of `asoc_read_service.py`. `Hydrate` is `hydrate_dast_page_coverage` up to its wait: it
applies the cache, caches again what the list or the cache shows (`Remember`), chooses
scans (`Prepared`, `Selected`), moves the cursor and starts a refresh unless one runs.
The list that the code sorts by creation time is a set and the order `Created` of its
members: a scan's index is the number of newer ones (`Index`), and the loop that starts at
the cursor meets before it those that lie less far `Behind` it.
`HydrateList` is a source's own service with a list of its scans, all or some (a list may
come back short), `HydrateBaseData` the first source's service with cached scans of any. `Deliver` is a refresh whose fetches have
ended, well or not, `TimeOut` one that took too long, `Leave` a caller that is cancelled.
The cache lock is held over no await, so it is not a variable. The number of pages is
abstracted to known or not, a fetch of up to four endpoints to its result, and expiry to
a number that counts down. The last phase of a hydration only reads and is left out.

### AsocClient

A call is `get` or `get_count`; `pc` is what it awaits (`login`, `request`, `pause`).
`Respond` is one response with everything decided about it: pause and repeat after a
429, log in again when the API key was rejected, switch from the token to the key, or
finish. The token is the only thing that calls share. `sent` and `logins` count what a
call has done; the code has no such variables. ASoC is external and may answer anything.

### SharedConnection

A call is one use of the connection by a function of the two stores: `Connect`
(`_get_connection`), perhaps `Select`, then `Write` and `Commit`, or no write at all.
`link` is the connection object of a process, which calls keep (`id`) when another call
replaces it. `pending` are the rows written by the open transaction, of whichever calls:
`Commit` stores all of them, `Abort` (a failed statement) undoes all of them. `WaitForRow`
is a write that meets a row locked by the other process; psycopg's lock then makes every
statement of the waiting process wait (`Busy`), the commit of the call that locks the
other row included, so two processes may deadlock although each call writes one row
(`Deadlocked`). `ConnectionLost` may strike during a COMMIT, whose outcome is unknown.
psycopg and PostgreSQL are external, modelled from how the stores use them.

`OneTransactionEach` is the refinement of `Transactions`: a call that returns has stored
its row and one that raises has not, unless a failure found it past its write, and nothing
raises before a failure. The exception bites: nothing in the code rolls back, so when the
statement of one thread fails, the call of another that stood at its commit *returns as if
stored* (COMMIT in an aborted transaction rolls back and reports nothing). And when no call
stands at its commit, the connection stays aborted: every later statement of the process
raises until the connection is lost or the process restarts (`Rejected`). Reads open
transactions that stay open until the next write of the process commits. Functions that
write several rows (`init_db`, `ensure_seed_data`, the purge) and the closing of the
connection at interpreter exit are left out.

### Dashboards

A request (`Requests`) is one route; its `pc` is the next statement, as in the scheduler:
`Create`, `CreateViaWizard`, `CreateTemplate` and `Delete` write at once, `Update` goes
through `SelectDashboard`, `WriteDashboard`, `SelectNumber`, `InsertVersion`, `Audit`;
`Rollback` reads its version first (`ReadTarget`) and goes on like an update.
`RequestFails` is an exception before the next statement: what is committed stays. Two
further disturbances come from the connection that threads share (`SharedConnection`):
`ReturnsUnstored` is a write that another thread's failed statement rolled back before
`commit()`, so the call returns and the handler goes on; `RaisesStored` is a write that
raises and is committed all the same. A handler that ends with less, or more, stored than
its caller or the trail is told is left at `pc = "lost"` with what it was to append. Rows
that are read before another thread's failure undoes them are left to `SharedConnection`.

A process that starts runs `SeedCount`, `SeedCountTemplates`, and `SeedCommit` or
`SeedFails`; starting again is `SeedCount` at any point. The third table that is seeded,
`report_templates`, is not modelled: a start-up that comes second may fail on its seed row
(`ReportSeedTaken`).

A dashboard has a name, a list of widgets and a layout, which stands for the whole of
`blueprint_json` (layout, visibility, status, scope). An update merges all three and
writes them back; a version has the name and the widgets only, since
`dashboard_versions` has no column for the blueprint, and a rollback keeps the layout of
the row. `docs/architecture/system-overview.md:77` says that "Dashboard version history is
stored for layout and metadata change tracking."; the code does not do this, and no
property here says it does. `NormalizedWidgets` keeps registered widgets, `FinalWidgets`
is the template's list followed by those selected widgets that are not in it. `History`
lets the run start with versions that share a number, as two concurrent updates leave them.

Behaviour worth knowing: two updates of a dashboard may share a version number, and a
rollback to it takes either. The name and widgets of a dashboard may be in no version
until the next update in two ways (`LiveWidgetsAreVersioned` says there is no third): its
handler ended between `WriteDashboard` and `InsertVersion`, or a write of the handler was
disturbed, in which case the request may have answered that all is well. When the seed
dashboard is deleted and the table empty, the seed's version row is still there, its
insert violates the key, and the process fails at every start.

### DataSources

`boot` is a start-up that imports the endpoints of the environment one by one
(`BootCount`, `BootLookup`, `BootInsert`, `BootDies`); `probing` the identity probes in
flight of a refresh (`StartRefresh`, `WriteIdentity`, `ProbeLost`), with the key each asks
with; `view` a reader of the table: `StartList` the lists of one scope, `StartBase` and
`ReadTags` the two reads of `aggregate_base_data`. `CreateSource`, `EditSource` and
`DeleteSource` are the administrators' routes. A URL and its key are one value (`Keys`);
an identity is the key whose owner it names. `Loaded` is `_load_sources` with its cap on
the number of ids; what a selection leaves of a list keeps its places.

Behaviour worth knowing: a bootstrap that dies after its first insert is never completed;
an edit of the key leaves the old identity until the next probe, and a probe that fails
blanks it and marks it fresh; `list_all` falls back to the environment also when every row
is disabled (its docstring says "if DB is empty").

### Listing

`FetchPage` is one round of `_fetch_all_pages`; the lists of applications are paged at the
same time after the first one, whose answer decides whether the organisation's list is
asked instead. `kind` is the caller: `list_issues`, `list_scans`, or
`list_issues_for_applications`. A list is a set and the place of each item in it
(`Position`), counted in the order in which the API pages, which is any (`Orders`); what
has been listed is the set of the items and the set of those listed `twice`. Items are
created and removed between pages, each at its place, which `$skip` does not survive: an
item is missed when one before it was removed meanwhile. So `ListingLosesNothing` is about
lists during which nothing was removed, and about duplicates where nothing was created.
Scans of the first application are cut at one page (`max_pages=1`, line 1377), although
line 1433 calls the result guaranteed complete: `MayMiss` says so.

### Figures and Portfolio

`Figures` holds the service's functions as operators on sets of issues, scans and
applications. A free text is the set of the words the code looks for, a date the number of
its day, a period of fixed length. Rounding, labels, the order of rows and the cuts to 20
or 25 rows are left out, and so are `calculate_statistics`, which no bundle reaches, and
the histogram buckets of the MTTR chart.

In `Portfolio`, `StartFetch` and `FetchBase` are `_get_base_data` around
`aggregate_base_data`; `base = None` says there is no base data that is fresh. A fetch lasts
while the sources change (`fetch` holds what they have held since it began), and each of its
lists (`Reads`: three of a source, and the issues of each application) is of some moment of
it. `list_issues_for_applications` swallows an exception of one application's list, so base
data may lack the issues of some applications that `/api/v4/Apps` counts (`ListedIssues`,
`missed`); any other list that raises loses the whole source. `BuildWarm` is
`_build_bundle` over base data; `ColdCatalog` and
`ColdIssues` are the two fetches of a scoped request without it; `IssueFixed`,
`IssueRemoved` and `ScanRemoved` change the sources between them. A bundle that was built
is not built again, and the end of a fetch of base data between the two fetches of a scoped
request is left out (the request would not read it). A forced fetch replaces base data that
is fresh; the model lets this expire first, which shows the same bundles. `ListLosses` and
`IssueLosses` enumerate which lists fail; the cap on data source ids, which these filters
do not reach, is modelled in `DataSources`.

Behaviour worth knowing, which the properties state as exceptions: a source without any
issue raises in `list_issues` and is missing from base data altogether, though a scoped
request shows its applications and scans (`WithIssues`); items without an asset group pass
a group filter where their application is asked for by its id, also when that application
is in none of the selected groups; the technology of an issue
that states none depends on the scans that passed the filters; unfiltered statistics are
those of the whole base data, also for a user who may see some groups; a name that
contains "scan" classifies as SCA.

## Runs

| Run | Shows |
|---|---|
| `scheduler_tables` | two schedulers, every route with bodies that never enable, two faults of which one may be a lost process: the tables implement `ReportLedger`; an audit event names the right schedule and actor; a schedule whose retries are used up is disabled; a deleted schedule stays deleted |
| `scheduler_alone` | one scheduler, two schedules that users create and delete, fairness: occurrences are reported in order, and again only in a retry of an attempt that raised; every failed attempt but the last is audited, a due schedule is served unless the task has died |
| `scheduler_dies` (violation) | one exception outside the `try` ends the scheduler for good; the install guide promises otherwise |
| `scheduler_revive` (violation) | a PUT that does not mention `enabled` re-enables a schedule the scheduler disabled between the two statements of the update |
| `analytics_order` | one process, requests over two views (one filtered), the prewarm worker: one build per view, base data and unfiltered views never go back, forced fetches are spaced |
| `analytics_ends` | a lock table of one entry, so that locks in use are evicted, fairness: tasks end and builds deliver |
| `analytics_hollow` (violation) | a hollow snapshot expires quickly, but its rebuild reads the empty base data, which is cached for at least 15 minutes; the comment in the code promises a proper build |
| `dast_coverage` | two data sources, three scans of which a window takes two, two callers, two faults, fairness: one refresh runs, callers outlast it, windows are full whatever the cursor, scans that are asked for are covered |
| `connector` | two calls, ASoC answers anything: bounded attempts, and giving up only at the end |
| `connector_token` (violation) | a rejected bearer token is not refreshed; the comment in the code says it is |
| `stores` | dashboards: version numbers have no gaps, live names and widgets are in the history, a rollback restores what was asked for, the audit trail is true, deleted rows stay deleted, a seed only adds; data sources: each endpoint imported once, identities and tags belong to their source, a late probe revives nothing; connections: each call keeps the promise of a transaction of its own |
| `portfolio` | paging loses nothing; a bundle is the same from base data and from a scoped fetch; filters narrow; statistics count what is listed and, as active, what was lost of an application; the figures of a view agree |

**Bounds.** `MaxTime`, `MaxFaults`, `MaxCrashes`, `MaxViews`, `MaxVersion`, the number of
requests and of slots bound the runs. In `scheduler_tables` two faults are as many as
`MaxRetries`, so a schedule can be disabled, and two schedulers and a request suffice for
a row to be written back stale in each direction. Three instants let a schedule become
due, run, back off and become due again; in `scheduler_alone` schedules may start at the
first of them. In `analytics_order` two tasks and the worker
contend for both kinds of lock; time reaches the expiry of hollow snapshots and of base data; two
changes of the sources allow a build to be overtaken. Durations keep the code's order
only where it matters (a hollow snapshot expires before others, and before the base data
in `analytics_hollow`). `MCReportScheduler` and `MCAnalyticsCache` use symmetry of workers,
requests and slots in runs without liveness. `dast_coverage` has no bound on time or
hydrations: entries count down, so its states are finite. Three scans are one more than
the window, so the cursor matters and lists of all sources overflow while those of one
do not; two faults let a refresh time out and the next one fail; one retry in `connector`
reaches both a pause and the end of the retries, and the theorems cover any number.
Deadlock is checked in the `connector` runs; elsewhere the bounds end every
behaviour, or time may be all that moves.

`stores` and `portfolio` hold parts that share no variable; interleaving them would
multiply states and add no behaviour, so a variable `moves`, chosen in the first state,
says which part moves. In `stores` two requests and two versions with one number suffice
for every race of two updates, an update and a deletion, a rollback and an update; two
start-ups in all let two processes seed at once, or one start into a database in use;
`MaxMishaps` bounds start-ups, exceptions and disturbed writes together, so each meets one
of the others; bodies hold one layout and the seed has another, so an update that keeps a
layout differs from one that sets it; two
start-ups import three endpoints, one of them named twice; two calls in each of two
processes write two rows crosswise, which is the smallest deadlock, with one failure at
any point. In `portfolio` pages of two items with a limit of two pages meet five items, so
lists end short, full and at the limit; two sources, three applications and twelve filters
cover each filter alone and the combinations the code treats apart. One change of the
sources may fall into a fetch, between the fetches of a request or after base data was
fetched; the lists of issues that raise are one of the two of a source, which then keeps
the other, and the only one of the other source, which then asks the organisation's list.

**Fairness.** `ReportScheduler`: weak fairness of each scheduler's next call, and of each
handler's: the loop and the pool run them, and the database answers or raises. There is
none for users, faults, restarts or time. `AnalyticsCache`: weak fairness of a task that
waits for no lock (all connector calls have a timeout), strong fairness of taking a lock:
an asyncio lock is handed to its waiters in their order, so a waiter is not passed over
for ever. Strong fairness is the weaker assumption than the queue.
`DastCoverage`: weak fairness of the end of a refresh, which has a timeout. There is none
for callers: `AskedIsCovered` says itself that the scan is asked for again and again.

**What the properties leave out, and why.** `OncePerOccurrence` is about one scheduler:
with two processes both run each occurrence, since nothing claims it, and after a
restart, a run-now or a PUT of `next_run_at` an occurrence may run again. With one, an
occurrence may still have several reports: `append_report_history` is the first call of
the `try`, so when `create_report_artifact`, `update_report_schedule` or
`append_audit_event` raises after it, a report with status "completed" stays in the
history and the retry after the backoff appends another for the same occurrence. The
property says that this is the only way, that at most `MaxRetries` attempts are made at
an occurrence, and that one whose attempt reached its audit event is not repeated.
`ExhaustedIsDisabled` holds when no PUT enables schedules; a PUT that enables one leaves
`retry_count` as it is, so the schedule is disabled again by its next failure.
`ViewsNeverGoBack` is about one process, lock tables that do not overflow and unfiltered
views: two processes have base data of different age, and a filtered view may bypass the
base data, so both can replace a snapshot by an older one.
`ActiveIsCounted` is about views without technology, vulnerability, scan or period filters,
for administrators or of a scope whose applications are all the user's own, and about base
data that was fetched while the sources did not change (`missed` is `None` otherwise): lists
of different moments of a fetch cannot be held against each other, and the code promises
nothing of them.
Base data may be old and may lack lists: issues that an application counts and whose list
raised are in the totals, all of them as active, and the Count API, which is asked later
and of all sources, may move issues from active to resolved, but no more than have been
fixed since the fetch or in what it lost (`FixedElsewhere`). So with incomplete or old base
data the totals of a view are not those of its list of issues, and nothing on it says so.
`AskedIsCovered` is about scans the cache knows nothing of when the client of their own
source asks while no refresh runs, and about lists that fit in the window. Without the
first, the client of the first source may find nothing, have that cached, and do so again
whenever the entry expires. Without the last, scans may be passed over for ever: the
cursor moves by the whole window although the most recent scans take a part of it.

## Proofs

`ReportSchedulerProofs`, for any sets of schedules, workers, requests, payloads and any
bounds, from `ConstantsAssumption` and `BackoffAssumption`:

* `TypeSafety`. `TypeInv` is `TypeOK` and `WellFormed`, which says what an actor's locals
  hold at each `pc`; `TypeOK` alone is not inductive because `SelectRow` and `WriteRow`
  use rows fetched earlier.
* `ExhaustedSafety`. The invariant says of stale copies too (listed rows, pending rows)
  that a row with its retries used up is disabled, so writing one back is harmless.
* `DeletionIsFinal`, an action property: only `WriteRow` could bring a row back.
* `AuditTrailSafety` and `LedgerRefinement`. The invariant `LedgerInv` ties each actor's
  `report` to its history row and artifact from `record` to `audit`; with it every step
  is a step of `ReportLedger` or a stutter.

* `FailureTrail`, for one scheduler (`OneScheduler`) until its process is lost. A loss
  between the write of a row and its audit event leaves a retry that no event tells of, and
  a second scheduler counts the same retry again. `FailureInv` says of every row, stored
  or held by an actor, that the failures it counts are in the audit trail or are what the
  scheduler will audit next.
* `RunsInOrder`, for one scheduler until its process is lost and where no PUT or run-now
  moves `next_run_at` (`OnlyRunsMove`): these write back an instant they read, or one of
  their own, so an occurrence may run again. `OccurrenceInv` says of rows, listed rows and
  the row about to be written that they are open: for a later occurrence than what the
  schedule was reported for, or a later attempt at one whose attempts all raised. After a
  successful attempt it says more, that the row is for a later occurrence, because the
  audit event that follows closes the occurrence.

`AnalyticsCacheProofs`, for any number of processes, slots and views, from
`CacheAssumption` and `FinitenessAssumption` (processes, slots and views are finite in
number):

* `BaseMonotonic` and `ForcedSpacing`. The invariant `BaseInv` says that a task in
  `hydrate` or `fetch` holds the process's lock, that cached data is no newer than the
  sources, that a fetch under way began with a version at least that of the cached data,
  and that it is still needed (outside the coalescing window, or the cached data
  expired). The last two relate the start of a fetch to its end and are what the lock
  is for.
* `LockSafety` and `BuildsAreExclusive`. `LockInv` says that a table has one lock per
  view, that no two views share a lock, that a lock has one holder, and, where the table
  has room for all views, that a lock in use is in its table: then two tasks that build
  one view would hold one lock.
* `TypeCorrect`, with bounds on versions and times that follow from `BaseInv`.
* `ViewsMonotonic`, for one process and a table with room for all views (`Alone`), as the
  property says. `OrderInv`: what a snapshot, the cached data and a task hold is ordered;
  the base data is at least as new as every snapshot of an unfiltered view (`NoneAhead`,
  `BaseAhead`), and so is what a task builds one from (`BuildAhead`), since the task that
  could overtake it would need its lock.

`DastCoverageProofs`, for any sources, scans, callers and durations, from
`CoverageAssumption`:

* `OneRefreshAlways` and `PatienceAlwaysSuffices`. The invariant adds to them that a
  caller has at least the grace more time left than the refresh it waits for, which every
  tick keeps.
* `WindowAlwaysFilled`. That the indexes of a list are 0..n-1, each once (`IndexIsRank`),
  is proved from cardinalities (`RanksAreIndexes`: the map from scans to ranks is an
  injection into as many numbers as there are scans); with it, distances
  from the cursor are distinct (`BehindIsInjective`), and the loop takes as many of the
  others as the window still has room for (`SelectionFillsWindow`).
* `TypeSafety`: the cursor stays a number below that of the scans
  (`CursorStaysInRange`), and a timeout still leaves the fault it counts (`TimesInv`).

`ConnectorProofs`, for any number of calls, tokens and retries, from `ClientAssumption`:
`TypeSafety`, `AttemptsAreBounded` and `GivingUpIsLate`. The invariant counts requests
by round: those of the rounds that ended and the retries of the present one.

Also there, for any applications, items, orders, page size and limits, from
`ListingAssumption` (items and applications are finite in number, those of a data source
fit in the pages that are asked for, and so do the items of one application in the pages
the code allows it): `ListingIsWhole`. `PageInv` says of each list what its next page
starts from: while nothing was removed, an item still missing has its place there or
later; while nothing was created, an item the list has is before that place. `PageFill`
(from the ranks of `Counting`) says that a page shorter than `Top` is the last and that a
full one ends within the collection, so a list that stopped at its limit is as long as the
limit allows: `NoLimit` pages cannot be, and the other two limits are what `MayMiss` names.

`DashboardsProofs`, for any requests, processes, dashboards and widgets, from
`DashboardsAssumption`, `HistoryAssumption` and `FinalWidgetsAssumption` (a list that was
filtered with `SelectSeq` is a list of widgets): `NumbersHaveNoGaps`,
`HistoryHasTheLiveWidgets`, `RollbackRestoresContent`, `TrailTellsTheTruth`,
`DeletedStaysDeleted`, `SeedingChangesNoRow` and `DashTypeCorrect`. The invariant `DashInv`
says what a request's locals hold at each `pc` (a number it read is at most one above what
is there), that the name and widgets of each row are versioned or held by a request that
will append them or was lost, that an event of a handler that was not lost has its version
or its deletion, that a row once deleted is in no table, and that the numbers of a
dashboard are finite in number and closed downwards, from which it follows that they are
an interval.

`StoresProofs`, from `DataSourcesAssumption` and `NobodyAssumption`:
`EveryEndpointImportedOnce`, `IdentityBelongsToSource`, `DeletedSourceStaysDeleted`. The
invariant `SrcInv` says that a probe asks with a key its source has had (`Asked`) and that
a start-up about to insert has not inserted these credentials before (`Importing`).
`TagsNameTheSource` and `SrcTypeCorrect` rest on `ViewsInv`: the lists a view holds are
entries at places of a list of sources, those of base data are whole, and a list's tags
are those of its clients.

Also there, for any processes, calls, rows and failures, from
`SharedConnectionAssumption`: `CallsKeepThePromise`, the refinement of `Transactions`, and
`ConnTypeCorrect`. The invariant `ConnInv` follows a row from its write to its end: a call
at its commit is pending on the connection it holds, stored by another's commit, or spoiled
(`Accounted`, `PendingHeld`); a call at its commit on a connection that is gone is spoiled
(`LostSpoils`); at most one call of a process waits (`Waiting`); before the first failure
no connection is aborted, gone or replaced under a call (`NoFailureYet`).

`EachKeepsToItself` says that a behaviour of `MCStores`, in which one of the components
moves, is one of each of them, so that all these theorems hold of what the run checks;
with it `StoresTypeCorrect` puts the three type invariants together.

`PortfolioProofs`, for any sources, catalog, contents, users and filters, from
`PortfolioAssumption`, `RequestAssumption` (requests and tokens hold no empty words, which
`_normalize_id_list` and `get_current_user` drop) and `ContentsAssumption` (what an issue
or a scan says of its application is what the catalog says, or nothing, ids are unique, and
lists are finite; these are ASoC's to keep):

* `FiltersOnlyNarrow`. Every list of a view is `Homely`: each item has its application in
  it, also among what a user may see, whenever each was fetched and whatever was lost
  (`MergedIsHomely`). From this an item that passes the filters belongs to
  an application that passes those that are left (`ScopeWidens`), although the scope is
  computed from applications and the filters are applied to items. That an item without
  a group is the only exception, and only for an application of a group that was not
  selected, is what the proof showed: the exception stated before it was wider.
* `PathsAgree`. `FetchInv`: a fetch meets contents that are as the assumptions say.
  `ColdInv`: a request that lost nothing and was not overtaken by a change
  holds what base data would give it, and so does the view built from it, which no later
  step changes. `ScopeIssuesAgree` is the heart: asking each source for the issues of the
  applications in scope gives what the scope keeps of all issues.
* `StatisticsAgree`. Applications are counted by ASoC (`/api/v4/Apps`), issues by the code.
  `Tallied` says of the lists of any fetch that an application's count of open issues is
  that of the issues listed for it; a scope is whole applications (`ScopeIsWhole`), so sums
  over its applications are counts of its issues (`AppsAddUp`), and the statistics that
  base data merges are the sums of those of its sources (`SourcesAddUp`). `BaseInv` says
  that base data and what it lacks are together such lists (`Completes`, established by
  `FetchCompletes` whichever lists raised), `PartViewInv` the same of a scoped request; an
  issue that the Count API counts as fixed is listed as resolved or is one of
  `FixedElsewhere` (`CountedAreListed`). From these `StatisticsSay` follows for each path.
* `FiguresAddUp`. Views are made of lists whose dates, severities and technologies are
  known (`Typed`, in `FiguresInv`). The parts follow one by one: a chart sorts items by a
  key each has once (`CountsAddUp`, `SeriesAddUp`), an issue group has one dominant
  severity (`GroupsAddUp`), rules that say the same find the same (`WorkbenchAddsUp`), and
  what the sources count is in the lists (`ChartsAddUp`).

A sum is a recursive function in the library (a fold), about which nothing can be proved
by an induction over data. `Counting` goes around it: induction over a finite set is stated
for a set of subsets instead of a predicate (`FiniteInduct`, from the least cardinality of
a counterexample), and a sum equals the cardinality of a set of units (`SumIsCount`). So
sums that agree are sets of the same size (`SumOfParts`, `CountByKey`, `SumMonotonic`).

All invariants and action properties of the runs are proved. Only model-checked is
liveness (`DueIsServed`, `TasksEnd`, `BuildsDeliver`, `AskedIsCovered`), which is out of the
prover's reach, and so are the four violations, which are counterexamples.

## Plan

Done: the scheduler with its ledger, the analytics cache, DAST coverage, the connector,
dashboards, data sources, the database connection, listing and the statistics, each with
the proofs of its safety properties. Left: `Lifecycle`, the shutdown around the two worker
tasks.

## Not modelled

* **Frontend.** Nothing in `App.tsx` orders the answers it applies: a bundle asked for
  earlier that arrives later replaces the one of the current filters, a failed request puts
  back what the screen showed when it was sent (`fallbackBundle`), and `refreshData` sets
  the filters it read before its awaits. What the screen shows is therefore tied to its
  filters only when requests do not overlap, and the model would say no more than that.
* **Token validation, JWKS cache, role policy**: library calls, and a cache whose second
  check only saves a fetch.
* **Read-only routes, exports, report templates**: plain rows that are passed on and
  formatted. **Tenant information**: `aggregate_tenant_info` always returns the `{}` of the
  first source.
* **Settings, mock data, the MCP stub, migrations, scripts**: no state that changes.
