# Numpo engine: a TLA+ model

Numpo is a crawler. A WordPress plugin starts a Go engine and forwards requests
to its HTTP API; the engine keeps jobs and a queue of candidate URLs in
PostgreSQL, and workers probe, fetch and analyse the candidates. This directory
models the parts whose correctness depends on the order in which things happen.

## The system

| Component | Source | State | Operations |
|---|---|---|---|
| Job and candidate queue | `internal/store/store.go` | `discovery_jobs` (status, budgets used), `candidates` (status, attempts, depth, `next_attempt_at`, `lease_until`), `candidate_dead_letters` | create job, set job status, insert candidate, claim, settle, schedule a retry, consume budget, finish job |
| Worker | `internal/worker/worker.go` | its candidate, two local counters, the job's limits once read | `Run`: one loop round per candidate |
| Job control | `internal/httpapi/http.go` | the map of cancel functions | `createJob`, `runDiscovery`, `pause`, `resume`, `cancel`, `importCSV` |
| Discovery service | `internal/discovery/discovery.go` | none | `Seed`, `AddURLs` |
| Domain rate limit | `store.go`, `AcquireDomainRateLimit` | one row per domain | wait until a domain may be fetched again |
| Shared by the jobs of a project | `store.go`, `internal/browser/browser.go` | `domains.crawl_pages`, `domain_probes`, two browser slots | consume a page, reuse or renew a probe, render |
| Reports | `http.go`, `internal/store/resources.go` | none | metrics, paged lists, CSV exports, several statements each |
| Job settings | `internal/{config,capability}`, `createJob`, `Run` | limits in columns and in a document | validate, merge, clamp, read back |
| Discovery providers | `internal/discovery/{providers,search}.go` | a queue and a set of what was seen, during a call | walk the sitemaps, search the web, read `robots.txt` |
| Retry, routing, target | `internal/{retry,routing,target}` | none | pure decisions |
| Crawler, probe, detectors, policy, URL normalisation | `internal/{crawl,probe,detect,policy,urlnorm}` | none | network I/O, parsing, checks of text |
| Engine process | `cmd/numpo/main.go`, `internal/runtime`, `internal/migrate` | the process, its PostgreSQL | start, migrate, listen, shut down |
| WordPress runtime | `class-numpo-runtime.php` | pid file, start lock, port | `ensure_started`, `start`, `stop` |
| Plugin user interface | the other plugin classes | WordPress options | forms, forwarding |

`createJob` inserts the job and its seeds, registers a cancel function and
starts the goroutine `runDiscovery`, which sets the job to `running`, asks the
discovery sources for more URLs and then executes `worker.Run` in the same
goroutine: the deployed engine has **one worker per job**. The store is written
for several (`FOR UPDATE SKIP LOCKED`, leases), the documentation draws several,
and `internal/integration/load_test.go` runs eight on one job, so the model has
a set of workers and the runs say how many they use.

A worker and the API handlers share nothing but the database and the job's
context. Every store method is a statement or a transaction that commits before
it returns; between two of them everything else may happen. A cancelled context
makes every later store call fail. The errors of the calls that settle a
candidate are ignored (`_ = w.Store...`).

What is hard here: workers that race for rows and budget; status writes from
five places; leases that run out under a live worker; a read followed by a write
that depends on it (`ScheduleRetry`, `FinishJobIfEmpty`, `pause`, the page budget,
the probe cache); reports that are put together while the rows change; a store
call that fails or whose answer is lost; a crash; a run that ends while work is
left; numbers from outside that overflow. The list with source lines is `hazards`
in `PROJECT.json`.

What makes each component correct, in short: budgets are not overdrawn and rows
have one worker; a status that ended stays; a job on a shared domain pays for each
page; a slot taken is given back; a report shows every row it claims to; a
request's limits hold in the store and in the worker; engines are known by their
pid file.

## Modules

| Module | What it is |
|---|---|
| `DiscoveryJob` | one job: its rows, its workers, `runDiscovery`, the API requests, a crash, time |
| `MCDiscoveryJob` | the link graphs and the symmetry set for TLC |
| `DiscoveryJobProofs` | theorems about `DiscoveryJob` |
| `WorkQueue` | the abstract queue that a job's rows implement |
| `QueueProofs` | the proof that they do |
| `Site`, `MCSite` | several jobs on one host: page budget of the domain, cache of probes, browser slots |
| `SiteProofs` | theorems about `Site` |
| `Reports` | metrics, lists and exports over a `WorkQueue` and a growing table |
| `ReportsProofs` | theorems about `Reports` |
| `Sources` | the discovery providers that `runDiscovery` calls for a site |
| `SourcesProofs` | theorems about `Sources` |
| `RetryPolicy`, `Selection`, `JobConfig` | stateless decisions as operators |
| `Decisions` | these decisions, asked with every input of sets that are constants |
| `MCDecisions` | the inputs of `Decisions` and `Sources` for TLC, and a job that goes through both |
| `DecisionsProofs` | theorems about these decisions |
| `RateLimiter` | the callers of `AcquireDomainRateLimit` on one domain's row |
| `RateLimiterProofs` | theorems about `RateLimiter` |
| `EngineRuntime` | PHP requests that start, supervise and stop engine processes, and `main` of the engine with its embedded PostgreSQL |
| `EngineRuntimeProofs` | theorems about `EngineRuntime` |

Definitions named "Deviation" are plausible mistakes in the definition that
follows them. The specifications do not use them; they are there to show that
each property can fail.

### DiscoveryJob

One step is one statement or one transaction. `pc[w]` names the store call
worker `w` makes next; the code between two calls belongs to the step before.
The job's columns are `job`, `urls`, `pgs`; a candidate's are `status`,
`attempts`, `depth`, and membership in `ripe`, which holds the rows whose
`next_attempt_at` (for a `processing` row: `lease_until`) has passed. `dead` is
the dead-letter table. `seen` is the `attempt_count` that `ScheduleRetry` has
read and not yet used; `todo` the links of a page that are still to be inserted.

What is abstracted to a choice: whether a host is active, whether a fetch (with
the browser as its fallback) yields a page or an error, and which of a page's
links are in scope, at most `MaxCandidatesPerPage` of them and none at the
maximal depth or when target or routing stop the crawl. `Crawler.Fetch` reports
an HTTP status as an error only for 429 and 5xx, which the retry policy always
retries on its first attempt, so `Run`'s branch for a permanent HTTP error is
dead code and not modelled. The domain's own page count may refuse a page at any
time, because other jobs of the project share it.

The claim query orders by priority. Links have priority 50 and depth at least 1,
every other source has a higher one and depth 0, so "depth 0 first" is that
order as far as the model tells rows apart.

`LeaseCoversWork` says that no candidate takes a live worker longer than its
lease (60 s). The code does not enforce it: a rate-limit wait, a 15 s fetch and
a 30 s render usually fit, but nothing makes them. Properties about claims are
therefore stated under this assumption, and the run `JobOverrun` shows what
happens without it.

`pause` and `resume` test the job's status in one statement and set it in
another: `AskPause` and `AskResume` are the tests, `SetAsked` the write, and
`asking` what is still to be written. `cancel` cancels the context first and
writes the status after (`CancelContext`, `CancelStatus`).

`CallFails` fails a store call without effect, `AnswerLost` after its effect;
`MaxFaults` bounds both. `Crash` also stands for SIGTERM, since the contexts of
jobs are not derived from the signal's.

`RowsAreAQueue` states that the rows implement `WorkQueue`: an item enters once,
is claimed again and again until it ends, is retried only before its third
attempt, becomes a dead letter only after it, and an ended item stays. The
refinement mapping `Shown` reads a row of `candidates` together with its row in
`candidate_dead_letters`. It holds while leases cover the work; a claim that is
lost (a fault) is one more `Claim` of a working item.

### Site

Each job has one goroutine (`pc[j]`), one turn of the loop per candidate, at most
`MaxTurns` of them. A turn goes from `EnsureDomain` through the probe, the page
budget, the fetch and the browser to the settling of the candidate; what happens
to the candidate's row is in `DiscoveryJob`.

* `probe` and `age` are the host's row in `domain_probes`; `age` counts ticks since
  `last_probe_at`, up to `TTL`, when the row is no longer fresh. `held` is the
  status a worker goes by, `seen` remembers what probes have observed.
  `UpsertProbe` writes a cached status back with the time of now, as the code does.
* `ConsumePageBudget` has its two updates and the commit as steps. The first reads
  the domain's committed count without a lock; the second locks the domain's row
  (`locked`). `Commit` may lose its answer, `Rollback` is every other failure.
* `slots` is the number of values in the renderer's channel, `proxies` the open
  listeners, `expired` the calls of `Render` whose context has ended. Which pages
  `shouldEscalateToBrowser` picks is the choice of `shell`.

### Reports

A behaviour answers one request (`report`) in the statements of the code, while
`Work` moves candidates as `WorkQueue` allows and `Store` adds rows anywhere in the
order of the query (ids are random; errors are listed newest first). A row of
`table` has its place in that order (`key`) and whether the job's project owns it
(`mine`); a statement selects the rows whose rank among the selected ones lies in
its page, and `Store` puts a row at any free place. `missed`
records the two things that make a metric miss a row: a retry claimed between two
counts, and a failed count. A third, an ended row that a worker past its lease
reopens, is excluded with the assumption under which rows are a `WorkQueue`. Page numbers wrap around at `MaxPage` as Go's int does.

### Sources

`runDiscovery` calls the providers in turn (`provider`); each is a loop over what
other servers answer. `rest` is what the loop over the last answer has not looked at
yet, `found` what the provider will return; `Return` is the return and the
`AddURLs` after it. `SearchPage`, `SearchResult` and `SearchFails` are the loop of
`HTTPSearchProvider.Discover`; a page that fails drops what the earlier ones found,
since `runDiscovery` ignores a result that comes with an error. `FetchSitemap`,
`SkipSitemap` and `SitemapLoc` are the walk, with the local `queue` and `seen` of
the code. A document that cannot be fetched lists nothing. `fetched`, `named` and
`listed` are ghosts: the order of the fetches, the documents that were named, the
results and pages that were listed. A search returns any absolute URL and
`robots.txt` names what it likes, so both may hand the address of a sitemap to
`AddURLs`; only the walk tells them apart. One site stands for the loop over the job's candidates,
whose rounds share nothing but the rows that `AddURLs` writes.

### Decisions

`RetryPolicy` computes with wrapping integers (`Wrap`), where the delay of a
`Retry-After` and the jitter may overflow. `Selection` has names that differ in
case and blanks (`Fold` is `TrimSpace` and `ToLower`), pages with a host's labels
and a language. A part of a target is any JSON value, `[list, names]`: `FromMap`
keeps the strings of a list (those in the domain of `Fold`) and ignores the rest,
a plain string included. `JobConfig` follows a limit from the environment and
the request to the column and to the worker, and a switch from `sources` and
`capabilities` to the worker. `limits` may have any key; those of the four limits
and `capabilities` matter, because `createJob` copies the positive ones over what
it has entered before (`Replaced`), and enters `sources` and `target` after it. The loops of the code (the doubling of a delay, the
rules one after the other) are recursive functions of the round. `Decisions` asks
one question per step; its invariants compare the answer with a reference that is
stated without the code's loops. What is asked is constant: the theorems hold for
all typed inputs, `MCDecisions` has the ones that TLC tries. Its `JobSpec` runs the
providers of a job and asks the questions after that. The answers depend on nothing
that discovery leaves behind, so they are asked of the job without sources only.

### RateLimiter

`AcquireDomainRateLimit` opens a transaction, locks the domain's row, compares
`last_started_at` with the engine's clock, and either stamps the row and commits,
or rolls back, sleeps and starts again. The stamp is PostgreSQL's `now()`, the
time at which the transaction *began*, before it waited for the lock. `begun`
keeps that time, `MaxDelay` bounds how long a transaction lasts, `lastGrant`
remembers when a caller was last let through.

### EngineRuntime

Any number of PHP requests run `ensure_started`; `pc[r]` is the place in it (and
in `start`, which it calls) and `pid[r]` its local `$pid`. A step is one file
operation, signal or verdict about the port. `Check` and `WaitReady` stand for
the polling loops of 3 and 10 seconds: at any time the port is open, or the loop
gives up. `AwaitOrKill` is the wait for a process after SIGTERM, which ends with
the process or with SIGKILL. The deactivation (`stopPc`) does the same from
`stop`, without the lock, and at most once.

`engine[p]` follows `main`: `boot` until `NotifyContext`; `starting` when no
PostgreSQL answered on port 55432, `database` when one did (adopted) or its own
has started (in `owns`); `ready` after the migrations; `listening`; `closing`
after the signal, before the deferred `embedded.Stop`; `dead`. `log.Fatal` skips
the deferred calls, so those ways to `dead` leave PostgreSQL up. `termed` holds
the engines that SIGTERM was sent to. `PhpMayFail`, `MayCrash` and `MayDeactivate`
switch the failures on. `LockFails` is a lock file that cannot be opened or locked:
the code goes on without the lock. `SaveFails` is a pid file that cannot be written,
which `start` does not notice either. `disturbed` remembers that PHP has failed or the
plugin was deactivated; `EngineIsManaged` is promised until then.

The mode is `bundled` and the binary is in place; the early returns otherwise
change nothing. Process ids that the kernel reuses for foreign processes are left
out. `update_option('numpo_engine_url')` writes the same value
each time and is not state.

## Runs

| Run | Instance | Shows |
|---|---|---|
| `JobSafety` | 2 workers, 2 URLs that link to each other, budgets 3 URLs / 2 pages, 1 fault, crash | types, budgets, exclusive claims, retry bound, depth, final states, recorded cancels, the rows are a `WorkQueue` |
| `JobSingle` | 1 worker, 3 URLs, 1 fault, crash, leases may run out, fairness | completed jobs are drained, why a job may stay unfinished, every run ends, cancel ends it |
| `RateLimit` | 2 callers, interval 5, transactions up to 2, clock to 18 | spacing, sleep bound, the row is released |
| `RuntimeReturns` | 2 requests, 2 engines, everything may fail, deactivation, fairness | types, until PHP fails no engine is lost and there are never two, an engine keeps its own PostgreSQL, every request returns |
| `Site` | 2 jobs with 2 pages each, 1 slot, 2 candidates each, fairness | types, the domain's count, paid pages, slots, probes, nobody waits for ever |
| `Reports` | 2 candidates claimed up to 3 times; 5 rows, pages of 2, page numbers to 7 | metrics miss no row but for two reasons, totals, complete exports of the right length |
| `Decisions` | 4 sitemaps of which 3 are read, 2 pages of a search, every answer may be an error, fairness; the inputs of `MCDecisions`, an int64 of 8 bits | the walk and the search are complete and repeat nothing, discovery ends; the five decisions |
| `JobRetryLost` | 1 worker, nothing fails but the network | **violated**: a retry that is not yet due is lost |
| `JobCrashed` | 1 worker, crash | **violated**: a row stays `processing` for ever |
| `JobOverrun` | 2 workers, leases may run out | **violated**: a completed row is overwritten |
| `RuntimeAdopted` | 2 requests, 2 engines, nothing fails | **violated**: an engine serves without a database |
| `RuntimeDeactivated` | 2 requests, 2 engines, deactivation | **violated**: an engine outlives the deactivation |

Why the bounds are enough: the third attempt (`MaxAttempts`) is reached with the
URL budget of 3; a page budget of 2 is exhausted before the URL budget in some
behaviours and after it in others; except for the URL limit of `JobSafety` the
engine's limits are one above the job's, so a worker that has not yet read the
job's limits is told apart from one that has; with two URLs that link to each
other a link is also rediscovered after it was settled. A third worker adds nothing but interleavings of the same pairs.
The clock of `RateLimit` runs over two full intervals after the first start, so
that a start decided on a stamp that was itself late is reached. In
`EngineRuntime` process ids are used once, so `Pids` bounds the launches: two are
a predecessor and a successor. In `Site` one slot for two jobs makes one wait, and
two pages each let the domain's count pass a job's limit. In `Reports` five rows
are three pages, so that rows move across two borders. In `Sources` the documents
name themselves, each other and one of them twice, and three fetches for four
documents are both enough and too few, depending on what is named.

No run checks for deadlock: a job that has ended, or that nobody works on, has
no next step, the clock of the rate limiter stops at its bound, a report and a
discovery end, and the runtime of a deactivated plugin stops for good.

Fairness (`JobSingle`, `JobRetryLost`, `JobCrashed`): goroutines are scheduled
(`WF` of each worker's `Progress`), `createJob` and `runDiscovery` go on, a
cancel handler finishes, and time passes (`WF` of `Elapse`). No fairness for
requests, faults or the crash. `RateLimit` assumes that statements return and
that PostgreSQL serves the waiters of a row lock in turn (`SF` of `Transact`).
`RuntimeReturns` assumes that processes run, that the deadlines of PHP's waits
pass, and that `flock` does not pass over a waiting request for ever (`SF` of
`RequestStep`); requests, deaths and the deactivation need not happen. `Site`
assumes that statements are answered, that row locks are granted in turn (`SF` of
`CountDomainPage`) and that a context ends. It assumes nothing of a browser that
was started: `cmd.Output` without `WaitDelay` may wait for a child of the killed
browser, and then its slot is lost; that those who wait for a slot still give up
is what `WaitsEnd` shows. `Sources` assumes that the one goroutine runs and that
requests are answered or time out, as `http.Client.Timeout` makes them.

### What was found

* **A retry that is not due yet is lost** (`JobRetryLost`). `Run` returns when
  `ClaimCandidate` finds no due row. With a single failing seed this is the
  normal case: the failed row is due within a second, the worker looks at once,
  finds nothing and returns. The job stays `running`. The documentation has
  `FAILED_RETRYABLE → QUEUED`.
* **A crash strands its rows** (`JobCrashed`). The lease runs out but no code
  starts a worker for an existing job.
* **A late worker overwrites a result** (`JobOverrun`). Settling calls do not
  compare the lease.
* **An engine serves without a database** (`RuntimeAdopted`). A launcher that
  waited ten seconds in vain sends SIGTERM and returns without waiting for the
  engine to go. The next request launches another one, which finds PostgreSQL
  listening and adopts it; then the first engine stops it. The second engine
  still listens, so `ensure_started` takes it for healthy and nothing repairs it.
  `OwnDatabaseKept` shows that this cannot happen to an engine that has started
  its PostgreSQL itself.
* **An engine outlives the deactivation** (`RuntimeDeactivated`). `stop` does not
  take the start lock and can read the pid file before a launcher writes it.

Further disagreements with the documents, met while modelling and without a run of
their own:

* `domains.crawl_pages` belongs to the project and is never reset
  (`store.go:84`), while `docs/ARCHITECTURE.md:518-525` lists
  `max_pages_per_domain` among a crawl's limits: a later job of the same project
  finds the domain used up.
* A use of a cached probe renews it (`worker.go:17`), so its TTL
  (`docs/ARCHITECTURE.md:399`) does not run out while candidates keep coming; and
  two jobs can probe a host at once, which `docs/DATA-MODEL.md:297` wants excluded.
* `Retry-After` is kept up to 30 s only; one that overflows is kept for 1 s.
* `browser_render` and `external_links` are capabilities that `createJob` stores and
  the worker never reads; the browser is used whenever a binary is configured.
* A request's `max_depth` of 0 is dropped and the engine's depth used, although the
  store and the worker accept 0.
* An error on a later page of a search loses the results of the earlier ones.
* A target's `country` is read only if it is a list (`target.go:31`). The string of
  `docs/API-CONTRACT.md:56`, `"country":"IR"`, is ignored without an error, and the
  job takes pages of every country; `TargetIndependent` says so.
* A positive entry of `limits` named `capabilities` replaces the job's switches by a
  number (`http.go:6`), and the worker turns all of them on but for a
  `link_discovery` under `sources`. `SwitchesHonoured` exempts such a request from
  having its switches, not from the rest.

With several workers a completed job may also have open rows, because links are
inserted after their page was marked completed, and another worker may count the
open rows in between. `DrainedWhenCompleted` is therefore checked, and proved,
for one worker; a CSV import can strand a row even then.

## Proofs

TLAPS checks every theorem for every value of the constants that satisfies the
named assumptions (finite set of workers, seeds and links among the candidates,
positive budgets not above the engine's; a finite set of jobs that is not empty;
for the rate limiter and the runtime, that the markers for "nobody" are not
callers, requests or process ids; for the reports, that a table has no more rows
than an int counts; for the sources, that an address cannot be a page's and a sitemap's at once, whoever lists it; for the decisions,
inputs of the types that the code's parsers yield and policies whose longest delay
is at most the 30 s of the only one that the engine has).

| Theorem | Statement |
|---|---|
| `TypeCorrect` | `TypeOK` |
| `BudgetSafety` | `BudgetsKept`, the depth of the candidates included |
| `EndedJobSpendsNothing`, `EndedJobStaysEnded` | `NoSpendAfterEnd`, `JobStatusFinal` |
| `ExclusiveClaims`, `SettledStaysSettled` | `OneHolder`, `SettledIsFinal` |
| `BoundedRetries` | `RetriesBounded` |
| `CancelsAreRecorded` | `CancelRecorded` |
| `RowsImplementQueue` | `Spec => RowsAreAQueue`, the refinement of `WorkQueue`, while leases cover the work |
| `TypesAreKept`, `DomainPagesAreBounded`, `SlotsAreReturned`, `ProbesAreObserved` | `TypeOK`, `PagesBounded`, `SlotsKept`, `CrawledIsProbed` of `Site` |
| `JobPagesArePaid` | `PagesPaid` of `Site` |
| `SingleWorkerDrains`, `UnfinishedOnlyFor` | `DrainedWhenCompleted`, `AbandonedOnlyFor`, for one worker and no CSV import |
| `RateLimiterTypes`, `StartsAreSpaced`, `NoOversleeping` | `TypeOK`, `Spaced`, `SleepsNoLonger` of `RateLimiter` |
| `RuntimeTypes`, `EnginesAreManaged`, `OwnersKeepTheirDatabase` | `TypeOK`, `EngineIsManaged`, `OwnDatabaseKept` of `EngineRuntime` |
| `ReportsTyped`, `MetricsComplete`, `PagesReachTotal`, `ExportsComplete` | `TypeOK`, `MetricsMissNothing`, `TotalIsReached`, `ExportComplete` of `Reports` |
| `SourcesTyped`, `WalkIsComplete`, `SearchIsComplete` | `TypeOK`, `SitemapWalk`, `SearchComplete` of `Sources` |
| `RetriesAreBounded`, `TargetsAreIndependent`, `RulesAreASet`, `LimitsAlwaysAgree`, `SwitchesAlwaysHonoured` | `RetryDelay`, `TargetIndependent`, `RulesOnlyAdd`, `LimitsAgree`, `SwitchesHonoured` |

The inductive invariants, and why the properties alone are not inductive:

* `TypeInv` adds to `TypeOK` that a worker holds a candidate exactly where its
  `pc` says so and that its counters are *below* the limits once it is past the
  loop condition: the increments keep them within.
* `BudgetInv`: pages spent plus workers that have paid for a URL and not yet for
  a page (`Paid`, counted with the cardinality theorems) do not exceed the URLs
  spent. Without the second summand the step that spends a page would not
  preserve "no page without a URL".
* `PhaseInv` ties workers and settled rows to the phase of `runDiscovery`: before
  it starts them no worker is active, so a seed cannot meet a claimed row.
* `HoldInv` is `OneHolder` plus: a held row is not `ripe`, so no claim can take it.
* `RetryInv` distinguishes a `processing` row that is held from one that was
  orphaned: each orphan has consumed a fault, which pays for its extra attempt.
* `DepthInv` bounds the depth of what a worker may still insert.
* `DrainInv`: at the step that completes the job the single worker holds nothing,
  has nothing to insert and the sources are exhausted, so the count is still true.
* `CancelInv`: a context that is cancelled without a cancel under way has a final
  status or a fault behind it; and no write that is still to come can undo it,
  because `SetJobStatus` is guarded.
* `QueueProofs` needs `HoldInv` and `RetryInv` besides `TypeInv`: a settling write
  maps to a step of `WorkQueue` only if the row is still the worker's and its
  attempts are those it has read. There is one lemma per kind of abstract step.
* `PagesBounded` is inductive as it stands, because it counts the transactions
  under way: a transaction begins only below the limit, and a job has one.
* `SlotsKept` supports `TypeOK` of `Site`: only from it follows that the channel is
  not empty when a slot is released. `WorkerInv` says for each place in a turn what
  has been paid and observed.
* `RowInv` (rate limiter): the holder of the row is the only one that can write
  it, hence the decision is still right at the commit; the stamp lags the last
  start by at most one transaction.
* `LockInv` (runtime): whoever is past `flock` has the lock. `Supervised` builds
  on it: it says, for each place inside the lock, which engines may be running
  untold, so that unlinking the pid file, and launching, happen only when there
  are none. `EngineIsManaged` alone does not exclude an engine at those places.
* `OwnerInv`: while an owner of PostgreSQL lives, PostgreSQL is up and no second
  living engine owns one; hence the step that stops it is the owner's own.

* `CountInv` (`Site`): the domain's count is the cardinality of the set of paid pages,
  each numbered for its job; a commit adds one pair to that set.
* `MetricsInv` (`Reports`): while nothing has gone wrong, a candidate that the metrics
  began with is counted already, or is in a class whose count is still to come. It
  holds because the counts follow the way of a candidate, and fails for the order
  of the deviation.
* `ExportInv`: each row of the beginning is in the file or has a rank beyond the
  offset, because rows that are stored move others towards the end and never back
  (`RankGrows`). `ListInv`: the total is never more than the rows there are. Both
  rest on ranks being a bijection from the rows to `1..n` (`RankBijection`, `PageLength`).
* `WalkInv` (`Sources`): a document that was named is fetched, queued or in the rest
  of the last answer, unless the limit is reached, and a page is found or in that
  rest. A sitemap among the results of the search does not disturb this, because it
  is among what was added already. `ListedInv` is the converse: what is found or
  added before `robots.txt` was listed. At the end the rest is empty, and the queue is empty or the limit reached; in
  the second case no fewer documents were fetched than there are, hence all of them.
* The decisions have no state worth an invariant: `AsksOnly` types the question and
  the lemmas do the work. Their loops are followed round by round: the recursive
  function is shown to exist (`LoopRuns`), and what holds before the first round and
  is passed on holds after the last (`Rounds`, from the least number that would not
  satisfy it). `RouteDecides` shows in this way that the rules decide as a set.

Only model-checked: the liveness properties `RunEnds`, `CancelStops`,
`RowIsReleased`, `RequestReturns`, `WaitsEnd` and `DiscoveryEnds`, since the prover
does not handle fairness. Every invariant and action property of a passing run is
also a theorem.

## Plan

Done: the job with its queue and the refinement of `WorkQueue`, the rate limit, the
engine's runtime, the jobs that share a site, the reports, the discovery providers
and the stateless decisions; a theorem for every safety property. Left: a bound for
the extra starts of the rate limiter after lost answers, and what the candidates of
a `WorkQueue` keep on every step, as theorems about the abstract specification
itself.

## Not modelled

* HTML and text analysis (`detect`, parsing in `crawl` and `discovery`), URL and
  address checks (`urlnorm`, `policy`): they depend on text alone. Redirects are
  followed by the HTTP client; their outcome is that of `Fetch` and `Probe`.
* The connections of the egress proxy, which forward bytes until the render's
  deadline; only its listener is modelled.
* The health check and authentication (they only read), and settings that are read
  once and passed on.
* The upserts of extracted data: single idempotent statements; `Reports` has them
  as rows that appear.
* The plugin's forms, options and request forwarding.
