# grabr in TLA+

grabr mirrors web sites. A portal (`grabr serve`) lets an administrator manage
sites; for each site it keeps a Kubernetes CronJob, and it makes one-off Jobs on
request. Every Job runs `grabr crawl`, which mirrors one site to a shared volume
and records what it does in PostgreSQL. This directory holds TLA+ models of that
program, the TLC configurations that check them and TLAPS proofs about them.

## The system

| Component | Code | State | Operations |
| --- | --- | --- | --- |
| Rate-controlled fetcher | `internal/crawler/fetcher.go` | current rate, ceiling, streak, `retryUntil`, token bucket | `Get`, `SetMaxRate`, `observe*` |
| robots.txt policy | `internal/crawler/robots.go` | rules of the matched group | `FetchRobotsTxt`, `Allowed`, `CrawlDelay` |
| Crawl loop | `internal/crawler/crawler.go` | queue, visited set, verdict | `Run` |
| Mirror files | `internal/crawler/writer.go`, `reprocess.go` | files below `mirrors/<slug>` and their `.tmp` siblings | `WriteFile`, `ReprocessMirror` |
| Links, rewriting | `parser.go`, `rewriter.go`, `analytics.go` | none | `ExtractLinks`, `RewriteHTML`, `stripAnalytics` |
| Backups | `internal/backup/backup.go` | archives below `backups/<slug>` | `Snapshot`, `prune` |
| Store | `internal/store/store.go` | `sites`, `crawls`, `visited_urls`, `robots_logs`, `settings` | one SQL statement per method |
| Kubernetes client | `internal/k8s/client.go` | none of its own; CronJobs and Jobs in the cluster | create, replace, suspend, delete, list |
| Portal start-up | `cmd/grabr/serve.go` | none | `reconcileRunningCrawls`, then serve |
| Admin handlers | `internal/web/handlers_admin.go` | none between requests | create, update, delete, pause, cancel, reprocess, crawl now, settings |
| Crawler process | `cmd/grabr/crawl.go` | signal context | `runCrawl` |
| Read-only pages | `internal/web/server.go`, `handlers_index.go` | none | index, viewer, raw mirror |
| Migration | `cmd/grabr/migrate.go` | SQLite source, PostgreSQL target | copy of each table |

The parts interact through three shared things and no lock: the database, the
cluster and the volume. The portal never talks to a crawl. It learns of one from
its `crawls` row, and stops one by deleting its Job, which reaches the pod as
SIGTERM. Several portals can be at work at once (a rolling Deployment starts the
new one first), handlers of one portal run concurrently, and a site can have
several crawler pods.

What is hard in it:

* a crawl can be stopped (SIGTERM) or killed (grace period, OOM, node) between
  any two of its calls, and each call may fail, mostly without consequence;
* handlers and the start-up pass read the database, act on the cluster and write
  the database as separate calls, while pods write their own verdicts;
* nothing but `concurrencyPolicy: Forbid` keeps crawls of a site apart;
* the rate controller has to keep three promises at once (back-off, Crawl-delay,
  Retry-After) through any mix of responses.

`PROJECT.json` lists these hazards with their lines and with the properties that
cover them.

What makes each component correct, modelled or not: the fetcher never sends
sooner than the site has asked, and recovers; a crawl visits each page in scope
exactly once, ends, and its row tells the truth; rows are closed by whoever
outlives the pod and by nobody else; Cancel, Pause and Delete stop what they say
they stop; the mirror holds whole files of one crawl or the next; a backup is a
whole archive and retention keeps the newest; CronJobs correspond to enabled
sites; links in the mirror lead to the files of the pages they named; a
migration leaves nothing out, takes no id the portal will hand out, and can be
repeated.

## Modules

| Module | Models |
| --- | --- |
| `Fetcher` | `Fetcher` with the order in which `Run` uses it |
| `Crawl` | `Crawler.Run` with the store calls it makes |
| `SiteExploration` | what one crawl promises about its pages, abstractly |
| `CrawlProcess` | one pod and its row as the portal and the cluster see them, abstractly |
| `SiteCrawls` | the crawls of one site as seen by those who share its mirror, abstractly |
| `CrawlLifecycle` | the crawls of one site: handlers, start-up pass, Jobs, pods, rows |
| `PortalSchedule` | sites and the CronJob of each: the handlers of several requests, call by call |
| `Backup` | the archives of one site: `Snapshot`, `writeTarGz`, `prune` |
| `MirrorPaths` | `LocalPathFor`, `relPath`, `serveMirrorFS` as operators on paths |
| `MirrorFiles` | the files of one mirror: `WriteFile` and rewriting by crawls and by Reprocess; extends `MirrorPaths` |
| `Migrate` | `grabr migrate` into the database of a portal that may be at work |
| `MC...` | instances for TLC |
| `...Proofs` | proofs about the module of that name |

### Fetcher

The variables are the fields of `Fetcher`, plus the bucket of the limiter and the
place of the crawl goroutine in `Get`: parked for Retry-After, in the limiter, in
flight. Stored instants are kept as the time left until them. Rates are whole
units per tick and a request costs `Token` units, so products are rounded down
to a unit. `Healthy`, `Throttled`, `Refused` and `Fail` are the branches of
`observe` and `observeError`. Go's `time.Duration` wraps modulo `DurationSpan`.
The stage goes from robots.txt over `SetMaxRate` to pages as in `Run`. A
Crawl-delay is represented by the rate it leads to.

`sinceSend`, `asked` and `lateSends` are history variables for the properties.

### Crawl

`pc` names the call `Run` makes next; an action is that call with the
computation after it. A store call works, fails, or is "unanswered": it takes
effect and its caller gets an error. With a `ctx` that is done it fails without
effect; SIGTERM while it is under way leaves it unanswered (that its effect may be
seen only after the pod has gone on is not told apart). `FinishCrawl` has a context
of its own. `Run` returns as soon as `StartCrawl` reports an error ("refused"), and
there is no deferred `FinishCrawl` then, also when the row has been inserted. `Links`, `LocalPath`
and the policies stand for the parser, `LocalPathFor` and robots.txt. Discovery
adds the new links in any order. `Cancel` is SIGTERM, `Kill` is SIGKILL. The
snapshot does not change what this module tells apart and only takes time.

`Crawl` implements `SiteExploration`: a URL is in the frontier when it is in
`visited` and its links have not been added yet, and it is done afterwards; the
verdict is the status of the row. It implements `CrawlProcess` too: the stage of
the pod is `pc` with what SIGTERM has changed (`Stage`).

### CrawlProcess

What `Crawl` and `CrawlLifecycle` have to agree on, stated once: a pod and its row.
The pod inserts the row once, or ends before it knows whether it has
(`StartUnheard`); it ends with its verdict or without one, and says "cancelled" only
after SIGTERM; others close the row or remove it. `Crawl` shows
that the program keeps to this when nobody else is at its row. In `CrawlLifecycle`,
which replaces the program by it, it is shown of each Job among all the others
(`EachJobIsAProcess`).

### SiteCrawls

What `MirrorFiles` has to know of the crawls: which are at work, and whether the
newest row says running. Its crawls start and end, and its rows are opened and closed,
by the actions of this module, with what they do to files added; `CrawlLifecycle`
implements it, with the pods at work and the newest row for its variables. So what
is shown of the mirror holds with the crawls that portals and cluster make.

### CrawlLifecycle

A Job has one pod (`backoffLimit: 0`, `restartPolicy: Never`) and a pod makes at
most one row, so the three share an identity. A crawl is one state, `crawling`
or, after SIGTERM, `stopping`; its verdicts are those `Crawl` allows. `silent` names
the pods that ended without a word to their row: killed, stopped while the INSERT was
under way, or failed by the database at their last call. `HasRunningJob` selects Jobs by
`status.active>0`, which an API server refuses; `Lookups` says which lookups are
possible, "served" as the portal means it or "refused", so that safety is shown for
both and what follows from the refusal can be told apart. A Job that
is finished and one that is deleted are both `gone`: a pod still at work tells
them apart. A Job that has no pod yet is a process that is starting. Handlers keep
what they have read in `cancelling` and `reconcile`.
`TogglePause` and `DeleteSite` do their two calls in one step: nothing that the
module tells apart depends on what comes between them, and a portal that dies
there leaves the same state as a second call that fails. Reconciliation is
separate from the handlers, which belong to the old portal or the new one.
External, by their contracts: the CronJob and Job controllers, garbage
collection, the kubelet.

Left out: a portal without Kubernetes (`MarkRunningCrawlsAsFailed`), Reprocess
(see `MirrorFiles`), and a site under more than one slug.

### PortalSchedule

A handler is a goroutine per request, and a step is one call of it to the
database or the API server, with the computation up to the next. `handler[h]`
holds what the goroutine holds: the site it has read or parsed, the row it is
about, the call that comes next, and what the GET of `EnsureCronJob` found. A
call is carried out, fails, or is carried out and its answer is lost; the portal
may die between any two. A site is its slug, `enabled` and its interval, all that
`buildCronJob` depends on here. A resourceVersion matters only by whether it is
still the latest, so it is `"latest"` or `"outdated"`; other handlers and the
CronJob controller (`StatusWritten`) outdate it, and a PUT with an outdated one or
a POST of an object that is there is refused, as the API server does.

`parseSiteForm` writes the form into the record it is given and returns it, so in
`handleAdminSiteUpdate` `updated` and `existing` are one record. The branches for
a changed slug compare that record with itself: they cannot be taken and are no
actions. `Updated` leaves the slug of the row alone, as the statement does.

`unsettled` and `clean` are history. A handler is clean while nothing it called
failed and no other handler was at work on its slugs; when an unclean one is
through, or one that edited the slug, or one is lost, its slugs are unsettled. A
clean create, edit or delete settles its slug again, whatever the state was
before: `ScheduleInStep` says that this is true, not only that an undisturbed
history is fine. A toggle does not settle anything: it patches what it finds.

Kick-on-create makes a Job that `CrawlLifecycle` knows as one of `CrawlNow`.

Left out: a portal without Kubernetes, columns that no CronJob depends on, and
slugs of more than 40 characters, which `cronJobName` cuts.

### Backup

Every crawl takes a snapshot before it starts, in a pod of its own, so two of a
site can be at work on one directory and only the second in the name keeps their
files apart. A step is a call of the file system: create the `.tmp`, add an entry
of the mirror, close, rename, list, remove. Any can fail, and the pod can be
killed before any; the next crawl finds what was left. A file holds less than the
mirror, all of it, or what two snapshots of one second made of it (`"shared"`).
Stamps come in any order: the clocks of two nodes may disagree, and a stamp may
be used again. `KeepNFn` falls back to 5 for a site it cannot read, a constant
of its own (`DefaultKeepN`). `published`, `unread` and `exact` are history.

Left out: what is in the mirror meanwhile (a running crawl may change it: an
archive is whole, not of one moment), and the bytes that `Close` flushes.

### MirrorPaths and MirrorFiles

A file is the sequence of the names on its path, and a name is a stem with the
queries that were attached to it, so that `index.html__q__a` is an `index.html`
with a query and not a string. `RelPath` is `filepath.Rel`, `Resolve` is what a
link means below a base, to `base.Parse` in the code and to a browser alike, and
`Served` says which file answers a request. A page in a file is what was fetched
when, whether the rewriter of today has been over it, and its links: for each URL
it linked to, the relative path it has now.

`WriteFile` is three steps, and a writer that has the `.tmp` open goes on writing
to the file wherever it has been renamed to (`at`); what two writers leave is
either's content or a mix. Directories are made by `MkdirAll` up to a file that is
in the way, and a rename onto a directory fails. A crawl goes on after a failed
write; a pass of Reprocess is over. Reprocess looks at the newest row once, then
walks every file whose name ends in `.html` or `.htm`, in any case: `IsHTMLFile` looks
at the end of the name only, which is the query where there is one (`HTMLEnds`). A
mirror may be old: pages of an
earlier release, which still have what the present rewriter strips
(`OldMirrors`). The order in which Reprocess visits files is left open.

`crossed`, `overlapped` and `calm` are history: they name the files two had the
`.tmp` of at once, and say whether crawls and passes overlapped or a pass was
alone. `NamesAssumption` says of the URLs that their links are URLs and that their
paths end in a slash or in a name that is not dots, as `ResolveReference` leaves
them; it excludes seeds that end in `..`. That a file, requested by its path, is
mapped to itself is not assumed but proved. Files whose name is the `.tmp` of another, names that need an escape in a
link, and file systems that do not tell cases apart are left out.

### Migrate

A row is its table, its id, the id of its parent, a slug for a site, and the
database it comes from: what keys, foreign keys and the unique slug need. The
migration inserts row by row in one transaction; `mine` is what it has inserted
and nobody else sees. The portal draws an id from the sequence, then inserts
(`Draw`, `Insert`): what happens between the two decides whether an id is free.
`SELECT setval(..., MAX)` reads the maximum from its snapshot (`ReadMax`) and sets the
sequence afterwards (`SetSequence`); INSERTs of the portal can come in between.
`setval` is seen by everyone at once and is not taken back by a roll-back. An
INSERT waits for a transaction that holds its key or slug and a DELETE for one
that has added children; deadlocks end in `RollBack`. A migration can be run any
number of times, with and without `--include-visited`. The SQLite file is not
written to meanwhile and has no rows without their parents.

`skipped`, `touched` and `outrun` are history: keys the portal had rows of its own
under, keys it has deleted or written since the migration began, and tables whose
sequence was last set by a statement during which an INSERT of the portal had, or
drew, its id.

## Runs

| Run | Checks | Bounds |
| --- | --- | --- |
| `fetcher` | `TypeOK`, `RateWithinCeiling`, `FewLateSends`, `CrawlDelaySpacing`, `RetryAfterHonored`, `BackOffNeverRaises`, `GetReturns`, `RecoversToCeiling` | rates 4 to 20 units, token 24: spacings of 2 to 6 ticks; streaks of 3; Retry-After below, at and above the window of 4 |
| `fetcher_slow_site` | `CrawlDelaySpacing`, violated | a ceiling of 2, half of `MinRPS` |
| `crawl` | `TypeOK`, `InScope`, `ProgressConsistent`, `OkMeansComplete`, `OkMirrorComplete`, `ExitClosesRow`, `FetchedOnce`, `Terminates`, `ExplorationSpec`, `ProcessSpec` | five URLs with a cycle, a self-link, a shared file, a disallowed page, another host; one failed database call and one failed write |
| `crawl_lifecycle` | `TypeOK`, `OverlapNeedsManualOrDelete`, `OpenRowWhileCrawling`, `RunningMeansAtWork`, `ReconcileSparesActiveJobs`, `EachJobIsAProcess` | two Jobs of either kind, lookups served or refused, one pod that ends without a word (`MaxSilent`), one failed call |
| `crawl_sigterm` | `PodFinishesItsRow`, violated | the site of `crawl`, nothing fails |
| `crawl_lifecycle_selector` | `RestartsSettleRows`, violated | two Jobs, lookups refused, one pod that ends without a word |
| `crawl_lifecycle_overlap` | `NoOverlappingCrawls`, violated | two Jobs, nothing fails |
| `portal_schedule` | `TypeOK`, `SlugsUnique`, `ScheduleInStep` | two handlers at a time, two slugs, two ids, one interval, one call that fails or is not answered |
| `portal_schedule_slug` | `SlugEditRemovesOldCronJob`, violated | the same, nothing fails |
| `backup` | `TypeOK`, `PublishedAtEnd`, `NewestKept`, `RetentionHolds` | two crawls at a time, any number in a row; three stamps, mirrors of one or two entries, `backup_keep_n` 2, default 1 |
| `mirror` | `TypeOK`, `WholeFiles`, `LinksLead`, `NoStepBack`, `PassSettles` | two crawls at a time, any number in a row, one pass at a time; four URLs, two fetches on a mirror that is new or old |
| `migrate` | `TypeOK`, `FreshIds`, `MigrationComplete`, `Attribution` | a setting, a site, its crawl and its visited URL; a portal with nothing or with a site under the same id; ids up to 2, two INSERTs and one DELETE of the portal |

The constants of the fetcher keep the order of those of the code (`MinRPS`,
1 rps, `MaxRPS`, the window) and are small enough for every clock value to be
reached. `RecoversToCeiling` is about every bad stretch, not the first alone: the rate
is at the ceiling again and again. Two Jobs are enough for each interaction of the
lifecycle: a crawl, and one that is newer, older, active or gone; the theorems cover
any number. In
`portal_schedule` two handlers can race on one slug or work side by side on two,
any number of them one after the other; two ids are two sites, or one site after
another under one slug. `enabled` makes two settings of a site different, the
interval would only add states; handlers, slugs and ids are symmetric there. The
runs of `Crawl` turn deadlock off, for the process ends; all others keep it on.

`backup`: two crawls meet in every pair of steps, and with three stamps and two to
keep, snapshots come before, between and after each other and prunes have
something to remove; the default is below `backup_keep_n`, as 5 is below 10.
`mirror`: the four URLs are a start page with a slash; `/d`, a PDF without a dot in
its name, which Reprocess mangles; `/v.htm`, a page that is stored under its own name
and reprocessed like an `index.html`; and `/v.htm//c?x&y`, a page whose directory has
the path of the other, so that a file is in the way of a directory or the other way
round, with a double slash and a query in its path, which Reprocess passes by. Two
fetches are two versions of a page, or a page and what it links to; the old mirrors
(a start page with the deep page, or `/v.htm` alone) supply the rest.
`migrate`: one row in each kind of table, where `robots_logs` behaves like
`crawls` and stays empty; a site that is skipped, or refused for its slug, or
deleted during the migration, and an id that is drawn at any point of it.

### What the violated properties show

* `CrawlDelaySpacing`: with a Crawl-delay above 10 s the ceiling is below
  `minRPS`, and `decreaseRateLocked` raises the rate to `minRPS`.
* `NoOverlappingCrawls`: Crawl now has no "is anything running" check. By the
  schedule alone crawls do not overlap (`OneCrawlAtATime`).
* `PodFinishesItsRow`: SIGTERM while the INSERT of the crawls row is under way. The
  row can be committed although `StartCrawl` returns the error of `ctx`, and `Run`
  returns before it has deferred `FinishCrawl`: the pod ends, nothing has failed, and
  its row says running.
* `RestartsSettleRows`: README.md:429-431 and serve.go:17-19 promise that a starting
  portal finalizes the rows of pods that are gone. The lookup of client.go:227 is refused
  (no field selector has `>`, and Jobs offer no `status.active`), and serve.go:34-36 goes
  on to the next row: no row is ever finalized, however often the portal starts. Were it
  served, another thing would come to light that the refusal hides: the pass closes rows
  it listed as running and that may have their verdict by now.
* `SlugEditRemovesOldCronJob`: an edit that changes the slug applies a CronJob
  under the new slug and leaves the old one, while the row keeps the old slug. The
  new CronJob belongs to no row, or takes the place of another site's.

### Differences that no run is about

Met while modelling; each is visible in a module or named where it is left out.

* Pause: README.md:242 says that it deletes the Job in flight;
  `handleAdminSiteTogglePause` only suspends the CronJob.
* Reprocess: README.md:349-351 speaks of a lock per site; the handler reads the
  newest row once and takes a failed read for "no crawl"
  (handlers_admin.go:200). `overlapped` in `NoStepBack` is the price.
* A PDF at `/d` is stored as `d/index.html` (writer.go:24, "assume HTML");
  Reprocess goes by the name and makes a document of it. `Fits` names this
  exception, and so do names that end in `.html` or `.htm` without being HTML. HTML
  stored under a query (`index.html__q__...`) is reprocessed only if the query ends so.
* writer.go:12 says that distinct query strings do not collide; `/`, `\`, `?` and
  `&` all become `_`.
* Rewritten links are not escaped: a name with `%`, `?`, `#`, or with a colon in
  the first segment, leads elsewhere.
* reprocess.go:71-72 says that rewritten links "round-trip without change". Below a directory
  called `index.html` they need not: a link to a directory above the page is read as
  one to the `index.html` in it, and by the next pass, where that is a directory as
  well, as one to the `index.html` in that (`NoIndexDirectories` in the proof of
  `PassSettles`).
* A page at `/d` is served without the slash too, and its relative links are
  then resolved against the directory above (README.md:408).
* `writeTarGz` drops the errors of its deferred `Close` calls, so a full disk can
  give a cut archive its name.
* `KeepNFn` takes 5 when the site cannot be read: archives beyond 5 are pruned,
  whatever `backup_keep_n` says.
* migrate.go:47 warns that "rows will be skipped on conflict"; only conflicts of
  ids are (`skipped` in `MigrationComplete`), one of slugs aborts the migration.
  Children of a skipped site go to
  the portal's own site of that id (`skipped` in `Attribution`).
  scripts/k3s-setup.sh migrates into a portal that is running.

### Fairness

`Fetcher`: time passes; a goroutine whose timer or token is ready runs; the
client's 30 s timeout ends a request. `Crawl`: `Run` is sequential code whose
calls return, `Get` by `GetReturns`. `Terminates` also rests on `Urls` being finite:
the code has no bound on the pages of a crawl, and a site that makes up new links
for ever keeps it going for ever. `CrawlLifecycle`, for `RestartsSettleRows` alone: a
pod that is not killed gets to its end (`Terminates`), the Job controller notices, and
the start-up code goes on unless its portal dies. Handlers and the start of a portal
have no fairness; the property names its condition, that portals get through their
start-up again and again, and is violated all the same.

## Proofs

The theorems hold for every value of the constants that the named assumptions
allow. `RateAssumption`, `RetryAssumption`, `HorizonAssumption`,
`UrlAssumption`, `JobAssumption` and `FetchesAssumption` only say that parameters
have their types and constants their order. Every safety property of the passing
runs is stated by a theorem.

`FetcherProofs`. `TypeCorrect` and `LateSends` need nothing else. `RateCeiling`,
`PageSpacing` and `BackOff` assume `CeilingsAboveFloor` (no Crawl-delay above
10 s): the run `fetcher_slow_site` shows that they fail without it. `RetryAfter`
assumes `RetryAfterFits`, because the product in `applyRetryAfterLocked` wraps.
Pacing rests on `PacingInv`: what the bucket has accumulated since the last page
request is at most the time since then at the ceiling. Retry-After rests on
`PauseInv`: the park is at least as long as what was asked, and has passed once
`Get` is beyond it.

`CrawlProofs`. The inductive invariant `IInv` says that the queue has no
repetitions and holds just the visited URLs that are neither explored nor in
hand (`QueueInv`), that the links of an explored page are visited
(`ExploredInv`, `LinksInv`), that what is visited is in scope (`ScopeInv`), and
which verdicts are possible where (`VerdictInv`). `FetchedOnce`,
`OkMeansComplete` and the refinement follow; none is inductive by itself.

`CrawlRowProofs` goes on from there. `ExitInv`: unless a database call has failed, only
SIGTERM makes a verdict "cancelled", and only SIGTERM before `Run` has heard of its row
leaves one open (`ExitClosesRow` says what is known of such a crawl: it has requested
nothing). `MirrorInv`: every
URL that was answered well has its file, but for the one in hand. `CountInv`:
while ctx is live and no database call has failed the counters are exact but for
what the place in the loop has still to add (`Exact`); once ctx is done they only
stay close (`Agree`), which is all that is left to say of a stopped crawl.
`CrawlIsAProcess` puts `VerdictInv` and `ExitInv` together: step by step, `Run` is a
`CrawlProcess`, which opens its row before anything else or ends without hearing of it.

`CrawlLifecycleProofs`. `JobInv` orders Job, pod and row; `CronInv` is what
Forbid gives; `ReconcileInv` and `CancelInv` say what is still true of what a
starting portal and Cancel have read when they act on it. `OpenRowWhileCrawling`
is inductive only together with these, since a crawl goes on while others decide
about its row. `RunningIsAtWork` is the converse: a row that says running is that of a
crawl at work, or of a pod in `silent`. With `Terminates` it says that all other rows
get closed. `JobsAreProcesses` needs no more than that a pod which has not opened
its row has none (`StartInv`), and that follows from `CrawlProcess` itself, since
every step of the site is one for each Job or leaves it alone.
`OneCrawlAtATime` is the other side of the run `crawl_lifecycle_overlap`. Its
hypothesis is that no step makes a Job by hand or deletes one (`ScheduleOnly`); then
the pods that live are those of active Jobs as long as there is a site, and the
deletion of the site, which leaves pods without Jobs, lets no crawl start
(`AloneInv`).
`LifecycleIsSiteCrawls` composes the lifecycle with the mirror; only types and
`JobInv` are needed, for nobody but a starting pod opens the newest row.

`PortalScheduleProofs`. Of the constants only `NoneAssumption` and
`FaultAssumption` are used: any number of handlers, slugs, ids, intervals and
failures. `ScheduleInStep` speaks of slugs with no handler at work and is far from
inductive. `CleanInv` carries it through a handler: a clean one is alone on its
slug (`Alone`), and `Progress` says for each place in the handler what the row and
the CronJob are by now, such as that after the insert the row is the site in hand
and before the patch the CronJob differs from its row in `suspend` alone. That a
step of one handler leaves `Progress` of the others true needs that they work on
different slugs, and that rows of different ids have different slugs
(`SlugsUnique`). `HandlerInv` says which calls belong to which handler and that the
row in hand is the row of the id; `IssuedInv` that ids are not used twice.

`BackupProofs`. Any number of crawls, stamps, entries and archives to keep.
`PublishedAtEnd` needs `EndReached`: the `.tmp` of a snapshot that is through its walk
is not partial, although others open, cut and remove files of that name, and
killed ones leave them (an old `.tmp` is cut by `os.Create` before it is written).
`NewestKept` needs what a prune holds in its hand: `KeepInv` says that every victim,
and every published archive that is gone, is `Expendable`, with as many newer
published stamps as that prune was to keep; this stays true because `published`
only grows. `RetentionHolds` needs the converse for exact prunes (`FewLeft`): what is
present and is no victim is at most `keep`, by cardinalities of finite sets.

`MirrorFilesProofs`. Any URLs, links, crawls, passes and failures. `WholeInv` adds to
`WholeFiles` the shape of a `WriteFile` under way (`WriteShape`) and `OwnTmp`: of a
file that is not crossed, one writer at most is between open and rename, and the
`.tmp` is as that writer has left it. Without it a rename could publish anything.
`LinksLead` rests on two things. `DirInv`: below a file there is no other file,
since whoever writes one has made the directories above it first. `LinkInv`: each
link, in the files, the `.tmp`s and what is being written, is `relPath` from its
page to the file of its URL, or that file would be above the page. `RoundTrip`
says that such a link means its target again, so that a rewrite leaves it as it is.
It needs what a stored path looks like (`Stored`: names, none of them dots, the
last one with a dot in it), and that the file of each URL has one (`FileStored`).
For that one has to know what `path.Clean` leaves, which is a fold over the names:
`CleanSteps` unfolds it by an induction whose predicate is a set (`Induction`), the
one form of induction within the prover's reach.
`WholeUnlessOverlapped` says what the exemption in `WholeFiles` amounts to. `OneWriter`:
unless two crawls, or a crawl and a pass, have overlapped, and if there is one pass at
a time (`OnePass`), one writer at most is in the middle of a file, so that nothing is
ever crossed and every file is whole. Two requests for Reprocess at once do cross;
`overlapped` does not count them, as they cannot bring an older page back.
`OneAtATimeIsSafe` puts this next to `NoStepBack` for crawls that come one at a time
and a mirror nobody reprocesses. `OneCrawlAtATime` and `LifecycleIsSiteCrawls` say
when the first is so: while the schedule alone starts crawls.
`NoStepBack` needs `NotOlder`: unless two have overlapped, all that may become a
file next is from one fetch, and it is not before the one the file is from; a pass
has it from the file. `BusyInv` says who can be writing at all. The calls of
`WriteFile` are taken together by `Moves`: they put nothing in hand that was not.

`TypeOK` bounds how far up a link leads, which a rewrite could undo: what it reads
has been rewritten before. `TypeInv` adds that each link is `relPath` from its page
to some stored path (`Linked`). A rewrite makes of a link to a stored path another
one to a stored path (`LinkAgain`), so the bound holds after any number of them.
`PassSettles` rests on `SettleInv`: while a pass is alone, the files it is through with
are `Settled` or being written, and what it writes will be, as nobody else has that
`.tmp`; nor can a file be in the way of its directories, since a file that is there has
none above it (`WayClear`). That one rewrite settles a page
(`RewriteSettles`) is true only under `NoIndexDirectories`, which is therefore a
hypothesis of the theorem. Without it the property is false of the code: let a page
at `/v.htm/index.html/c` link to `/v.htm`, which cannot be stored, since it is a directory.
A pass reads the link as one to `v.htm/index.html`, the next as one to
`v.htm/index.html/index.html`. Sites that meet the hypothesis are the common case, the
one of the run `mirror` among them. Which names count as HTML is a constant
(`HTMLEnds`), of which only `index.html` is known: the theorem holds for `.html` and
`.htm` files of any name.

`MigrateProofs`. Any source and any database of the portal, any number of runs.
`MigrateInv` has five parts. `Shape`: keys and slugs are unique, rows have their
parents, and the sequences are set only when all rows are through. `Behind`: ids,
also those of INSERTs under way and, once its sequence is set, of the
transaction, are at most the last one drawn, unless the table is `outrun`.
`Settled`: while rows are copied, no row of the portal can get a key that has been
dealt with. `Read`: a maximum that has been read is still one when it is set, unless
an INSERT of the portal had or drew its id meanwhile. `Dealt`: a row that has been dealt
with is there itself, not just some row with its key, unless the portal had that key or
has deleted or written it since.
`FreshIds` follows from `Behind` and `Read`, `MigrationComplete` from `Dealt`, and `Attribution` from
`Settled` and the order of the tables, by which parents are dealt with first.

Only model-checked: `GetReturns`, `RecoversToCeiling` and `Terminates`,
which speak of fairness and are beyond the prover.

## Plan

The modules above are built. What is left, in this order:

1. `PortalSchedule` as an implementation of an abstract schedule, the settings
   page, and `CrawlLifecycle` composed with it through a site's slug.
2. Names: `cronJobName`, which cuts slugs at 40 characters, `intervalToCron` and
   the key of `visited`, next to `MirrorPaths`.

## Not modelled

HTML parsing, `srcset`, analytics patterns, templates, authentication,
configuration and the read-only pages: they keep no state and hand values
through. A portal without Kubernetes: it starts no crawls, and closes all rows at
start-up (`MarkRunningCrawlsAsFailed`). URL escapes and Windows paths. Panics: none is known to be reachable.
Redirects: the HTTP client follows them inside one request of the model.
