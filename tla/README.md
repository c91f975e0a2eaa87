# SEO Guardian in TLA+

A verification project for the SEO Guardian crawler: what runs between a click on "start crawl" (or a
cron firing) and a crawl report one can trust. Four specifications are about its processes: the pages of
a crawl, the finalizer, schedules and admission. Four more are about its data, on which the rules of the
engines are evaluated as the code does: which pages are crawled, how one is fetched, what an audit finds
and what the history of structured data tells. All are model-checked with TLC. Nearly every safety
property, and that one specification implements its abstraction, is proved with TLAPS: for every size of
website and document, number of workers and number of faults.

Contents: [the system](#1-the-system), [the modules](#2-the-modules),
[the runs](#3-the-runs), [the proofs](#4-the-proofs),
[what the code does not keep](#5-what-the-code-does-not-keep),
[abstractions](#6-abstractions), [not modelled](#7-not-modelled), [plan](#8-plan).

## 1. The system

Three processes share Postgres (through `packages/db`), Redis and the BullMQ queues that live in it:

- the **API** (`apps/api`, NestJS): users, projects, websites, schedules, categories (sitemap groups),
  crawl control and the progress stream;
- the **workers** (`apps/worker`), any number of instances: the queue processors;
- the **web** dashboard (`apps/web`), a client of the API that keeps no state of the system.

A crawl goes through the queues in this order:

    API / schedule-fire --> crawl-orchestrate --> page-fetch <--> page-render
                                                    |    \
                                                    |     --> link-check
                                                    v              |
                                     (last page settles)           v
                                                finalize  <-- waits for link batches
                                                    ^
                               maintenance: watchdog re-drives finalize every 5 minutes

### Components

| Component | State | Operations | Correct when | Module |
| --- | --- | --- | --- | --- |
| Crawl orchestration (`orchestrate.processor`, `crawl-producer`) | crawl row, Redis counters, jobs | resolve, initialise counters, fan out | a redelivered job harms nothing already begun; the total matches the jobs | PagePipeline, UrlDiscovery |
| Page processing (`page-processor`, `page-fetch`, `page-render`) | snapshots, issues, outcome counters, seen set | fetch, render, carry forward, persist, discover, count | each page settles once, completion is signalled exactly at the end; what is carried forward is current | PagePipeline, PageAudit, SchemaHistory, UrlDiscovery, FetchPath |
| Live crawl state (`crawl-state.service`) | counters, sets and flags in Redis | init, addToTotal, recordPage, flags, cleanup | counters and snapshots agree | PagePipeline, CrawlBarrier |
| Link verification (`link-check.processor`) | link_checks, outstanding batches | HEAD, GET, store a batch | finalize starts after the last batch; broken targets are reported | PagePipeline, FetchPath, PageAudit |
| Finalizer (`finalize.processor`, `page-issues.repository`, aggregates, changes) | cross-page issues, scores, aggregates, trends | 12 statements in a row | repeatable at any point: nothing lost, nothing twice; changes and scores are real | CrawlFinalize, PageAudit, SchemaHistory |
| Watchdog (`maintenance.processor`, `redriveFinalize`) | the finalize job | sweep, look, remove, add | a crawl whose finalizer died still ends | CrawlFinalize |
| Crawl control (`crawls.service`) | flags, status | check the target, pause, resume, cancel, retry failed | a request takes effect, or the crawl is over | SourceIntake, PagePipeline, CrawlFinalize |
| Crawl admission (`crawls.service` start, `schedule-fire`, `sitemap-groups`) | crawl rows, categories | start, fire, delete a category | one crawl at a time per scope; no crawl deleted while it runs | CrawlAdmission |
| Schedule projection (`schedules.service`, `scheduler-sync`, `jobs.service`) | schedules table, BullMQ job schedulers | edit, request, reconcile | job schedulers converge to the active schedules | ScheduleSync |
| Sources API (`sources.service`, `csv.service`, `storage.service`) | url_sources rows, uploaded files | create, upload, activate, delete | what is accepted can be crawled; no listed source without its file | SourceIntake, UrlDiscovery |
| URL resolver (`url-resolver.service`), `sitemap.ts`, `url.ts`, `url-filter.ts` | seeds, the sitemap walk | resolve sources, walk, normalize, filter | one page per address, on the site, nothing left out in silence | UrlDiscovery, UrlRules |
| Fetching (`safe-fetcher.ts`, `politeness.service`, `browser-pool.service`, `crawl-config`) | rate windows, connections, one browser | acquire, guard, request, redirect, read, render, recycle | connections go to vetted addresses; a page that was served is audited; every job ends | FetchPath, SafeFetcher |
| SEO engine (`packages/seo-engine`) | none (pure) | extract, check, score | the finalizer's rescoring agrees, broken links are found | SeoEngine, PageAudit |
| Schema engine (`packages/schema-engine`) | none (pure) | extract, validate, judge rich results, diff | verdicts agree; changes and losses are told, and are real | SchemaPacks, SchemaVerdicts, SchemaEngine, SchemaHistory |
| Progress stream (`crawl-progress.service`) | SSE subscriptions | snapshot, subscribe, complete | every subscriber sees the end | planned |
| HTML storage, partitions, CRUD services, dashboard | rows and objects | single statements | – | not modelled |

### What is hard

At-least-once delivery: BullMQ runs a job again when its worker died, and runs it *beside* the first
execution when the worker only lost its lock. No handler is one transaction: each is a row of awaited
statements to Postgres, Redis and the queues, with crashes possible between any two, and every worker
and the API interleave at those points. Nothing but counters says when a crawl is complete, and nothing
but the last page's job looks at them. Statuses are read, decided on and written later, without a
condition in the UPDATE. Then the data: the same address in many spellings, the same score in TypeScript and
in SQL, an issue joined back by the text of a link, a baseline picked by status, entities of two crawls
matched by what identifies them. Each is right in the function a unit test calls, and goes wrong, if it does,
over several crawls or between two components that must agree. `hazards` in `PROJECT.json` lists these at
the line where they bite, with the properties that watch them.

## 2. The modules

| Module | Models | State and steps |
| --- | --- | --- |
| `PagePipeline` | a crawl from fan-out to the finalizer's decision to analyse it | `pc[job]` is where a job's handler stands (queue jobs are `<<kind, page>>`, as the fixed job ids make them); `total`, `tally`, `seen`, `linkTargets`, `linkBatches`, flags are the Redis keys; `status`, `stats`, `snap`, `checked` the rows. One action per awaited statement another actor can observe: `AddToTotal`, `EnqueuePageFetch`, `RecordPage`, ... |
| `CrawlFinalize` | `FinalizeProcessor.process` after the link wait, the watchdog, late control requests | up to two executions (`Slots`) of the handler; `issues` are the page_issues of one representative page, per check; `score`, `aggregate`, `trend` hold what they were computed from |
| `ScheduleSync` | the schedules table and its projection to job schedulers | `rows`, `registered`; each reconcile's `view` is what it read, `todo` what it has left to write or remove |
| `CrawlAdmission` | look, create, queue of several starters; look, select, delete of a category removal | rows with their scope and category, `active` or `over`; `doomed` is what a removal's transaction selected |
| `CrawlBarrier` | what the counters promise: pages are announced and settle, then one signal | sets of pages; no counters, queues or workers |
| `SourceIntake` | what the API accepts as a source, as an uploaded file, as a crawl's target | operators on a request; the rows that come of it are what the resolver reads |
| `UrlDiscovery` | edits of the sources with the files of CSV sources, and a crawl's URL set: resolver, sitemap walk, orchestrator's registration and fan-out, the links that are followed | `table` and `files` (rows, objects in storage), `request` (what an API request that touches both has left to do); `seeds`, `walk` (the recursive walk as a stack of documents to visit), `pages`, `seen`, `total`, `jobs`; one action per API statement, source, sitemap document and page |
| `UrlRules` | `normalizeUrl`, `registrableDomain`, `UrlFilter` | operators on URLs as records of host labels, path and query tokens |
| `FetchPath` | a page's or link's way through rate limit, guard, redirects, bodies and browser | `pc[job]`, its request and the address it is pinned to; `window`, `stored` (the configuration in Redis), `pool` and the browsers that run |
| `SafeFetcher` | the fetcher's decisions: address classes, guard, redirects, bodies, crawl configuration | operators on addresses as octets and groups |
| `PageAudit` | one page over several crawls: audit, carry-forward, link verification, finalizer's link issues and scores | `report` is the snapshot with its issues, `previous` that of the last crawl, `checked` the link_checks; the page and its links change in between |
| `SeoEngine` | extraction, the 42 checks of the runner, the catalog and the score | operators on a document as a record; scores in ten-thousandths of a point |
| `SchemaHistory` | structured data over several crawls: persisting, carrying forward, baseline, diff, metrics | `report[page]` holds the entity rows and the snapshot's summary, `baseline` the crawl the finalizer compares with |
| `SchemaVerdicts` | the vocabulary, validation, rich results, a page's summary | operators on an entity; the packs and the walk into an entity are constants |
| `SchemaEngine`, `SchemaPacks` | extraction from JSON-LD, microdata and RDFa, the walk; the packs the code ships with | recursive operators on JSON and DOM trees; the values of those constants |
| `MC*` | small instances for TLC | – |
| `ControlProofs` | theorems about `CrawlAdmission` and `ScheduleSync`, whose names are therefore kept apart | – |
| other `*Proofs` | theorems about the module they are named after | – |
| `Folding` | what a loop over a sequence has done after k elements | lemmas for any loop body and about sums over finite sets, which the proof modules instantiate |

`PagePipeline` is the composition of the workers; its property `ImplementsBarrier` says, with
`INSTANCE CrawlBarrier WITH` the history of announced and settled pages, that counters and queues implement
the barrier as long as no job is delivered again after its work showed. The four specifications about data
fill in what it takes as constants: `UrlDiscovery` its `Seeds` and `Outlinks`, `FetchPath` what a fetch
answers and which page is `Rendered`, `PageAudit` and `SchemaHistory` what a snapshot holds. They run one
crawl after another without faults, which `PagePipeline` and `CrawlFinalize` have.

Otherwise the modules meet at the crawl row. `PagePipeline` ends where `CrawlFinalize` begins (a finalize job, all
pages settled, link batches drained: its `Init`). `CrawlAdmission` uses of both only that a status may be
written as active or over at any time, which is what `CrawlsRepository.setStatus` allows. `ScheduleSync`
produces the firings that are starters of `CrawlAdmission`.

Names follow the code: an action has the name of the method or of the statement it models, a variable
that of the key or column. Operators whose comment begins with "Mutant" change one definition
the way a plausible bug would; no specification uses them. History variables are marked in the
declarations; no action's guard reads one, except where a bound counts.

## 3. The runs

| Run | Instance | Shows |
| --- | --- | --- |
| `pipeline_spider` | 2 seeds, 2 pages found by following links (with a link back and a page two pages lead to), one conditional hint, one flaky page, one death of an orchestrate or fetch job, each outcome of resolving, the crawl's deletion before it included | `TypeOK`, `CompletionIsExact`, `CountersMatchSnapshots`, `WatchdogCanSee`, `EventuallyFinalized`, `ImplementsBarrier` |
| `pipeline_links` | 2 listed pages sharing a link target, cancel, one death of a fetch or link job, a crawl deleted while it is queued | `LinkBarrier`, `EventuallyFinalized`, `CancelTerminates` |
| `pipeline_control` | 2 listed pages, one with a hint and flaky, one rendered, and a link target; two of pause, resume and cancel, one retry-failed | `SnapshotsReady` |
| `finalize` | one duplicate and two link-based checks, one of them carried and gone, one carried and found again, one new; two deaths or lost locks, two control requests | `TypeOK`, `DerivedOnce`, `AggregateTells`, `ChangesKept`, `Recovers` |
| `schedule_sync` | one schedule, 2 crons, any table at first, 3 edits, 2 reconciles at a time, one death or lost lock | `SyncTypeOK`, `InSync`, `RemovesOnlyLapsed`, `Converges` |
| `admission` | 3 starters with any request, 2 categories and their removal, one crawl that turns active after its end | `TypeOK`, `OneCrawlPerScope`, `RemovesOnlyIdle` |
| `page_audit` | a page in order, the pages with each defect alone, one with many, four other responses; 3 link targets, 3 crawls, one change of the page or of a target | `TypeOK`, `CarriedIsCurrent`, `BrokenLinksReported`, `RescoringAgrees` |
| `url_discovery` | crawls of each scope, every kind of source and an edit of them before or during a crawl of the website, nine sitemaps (with cycles, junk and failures), eight pages in circles, addresses spelled differently; 2 file keys, one bad row in three, 3 URLs, 5 sitemaps, depth 3, chunks of 2 | `TypeOK`, `OnePagePerAddress`, `StaysOnSite`, `SitemapExact`, `TotalMatchesJobs`, `ListedFilesStored`, `DiscoveryEnds` |
| `schema_history` | a product page in ten versions (each format, entities lost, repeated, grown too large) and a rated page in three; 3 crawls of the site or of one page, one change | `EligibilityAgrees`, `RollupMatchesPages`, `ChangesAreReal`, `LossIsTold` |
| `fetch_path` | a page with a hint, a page that redirects, and a link target with mixed DNS records; compressed, broken, empty and oversized bodies, rate 1.2 per second, a browser recycled after every page, one death of the process, the configuration lost | `VettedConnections`, `AuditedIsServed`, `PageEnds` |
| `early_finalize`, `page_baseline` | the smallest instance that shows it, and that of `schema_history` | a promise of a comment that the code does not keep (section 5) |

### Why the bounds are enough

*Pages.* Completion can go wrong between two pages at a time: one that discovers and one that counts.
Four pages give a discoverer at depth 0 with a sibling, a page found by two at once, and a page found by
a page that was itself found, which `MaxDepth` then stops.
*Faults.* One death reaches every cut of every handler, since the fault may hit any job at any label;
a second one matters where attempts run out (`finalize` allows it).
*Edits.* Three edits make a deletion, a re-creation and a further change around a running reconcile; two
reconciles overtake each other. Schedules do not influence one another, so one is enough; the proof is for any set.
One edit of the sources is enough for a crawl to read rows and files at different times, as it reads the rows once.
Crawls of a page or a category read no sources, so they begin before any edit.
*Crawls.* Carrying forward needs a crawl to carry from, and a third to carry what was carried; a baseline
needs a crawl between two of the same scope. One change falls before, between or during them.
*Documents.* The checks are independent conditions on parts of a document, so each defect alone, and a
document with several for the score, reach every check; the versions of the product page differ in one
thing the diff must see or must not see. *URLs and sitemaps.* The limits are smaller than what the sitemaps
hold, so they are reached, passed and just not reached; chunks of 2 put equal spellings in one and in two.
*Fetching.* One redirect is allowed and two are offered; the body limit lies between the sizes sent.
*Starters.* Two race; the third meets what the race left. The proofs of section 4 lift the bounds where there
is one. `MaxFaults`, `MaxControls`, `MaxRetries`, `MaxEdits`, `MaxRevivals`,
`MaxCrawls`, `MaxChanges` and `MaxDeaths` bound the environment only; `MaxDepth`, `MaxUrls`, `MaxSitemaps`, `CHUNK`,
`RowsPerError` (20 in the code), `MAX_BODY`, `maxRedirects` and `RecycleAfter` are limits of the code with smaller values.

`CHECK_DEADLOCK FALSE` is used where a behaviour may really stop: a crawl that has ended, or starters
that all have been answered, the last of the crawls, or jobs that are done.
`schedule_sync` never stops, and is checked for deadlock.
`admission` uses the symmetry of starters and of categories; it checks no liveness.

### Fairness

- Every worker step that is possible is taken in the end (weak fairness per job): BullMQ hands jobs to
  workers, handlers have timeouts, and a job whose worker died is delivered again as stalled.
- `Deliver` of finalize is strongly fair: the job may become waiting and be removed and added again by the
  watchdog, each time it waits a worker may take it.
- The watchdog and the reconcile timers go on (`WF`): they are BullMQ job schedulers set up at every
  start of a worker.
- A control request that began is finished; none has to be made. No fairness for faults, edits,
  requests to reconcile, starters or removals: `CrawlAdmission` has none at all, a starter that dies
  is one that takes no more steps.
- `UrlDiscovery`: the resolver and the workers go on (`WF(Progress)`); nobody need edit a source or start a crawl,
  and an API request that began may die. `FetchPath`: some
  job that can take a step does (`WF(Work)`), timeouts among its steps, and a second passes
  (`WF(NextWindow)`); `PageEnds` needs no fairness between jobs, since each takes finitely many steps in a second.
  It holds for rates from one request a second on; for less the code never lets a page through (section 5).
- `PageAudit` and `SchemaHistory` check safety only and have none.

`EventuallyFinalized` and `Recovers` ask for a crawl that does not stay paused, as only an operator ends
a pause. `EventuallyFinalized` excuses a job that failed for good and a fault in one of the gaps
where work is recorded before it is queued (`severed`); the code needs the excuse (section 5).

## 4. The proofs

Every theorem holds for all values of the constants that satisfy the named `ASSUME`s: finite sets of
pages and link targets, seeds among the pages, natural bounds, `None` no value of its own, every listed sitemap
and every address with an answer, lists that end. TLC evaluates each of them on the runs' instances. Each
invariant below was model-checked on its run before it was proved.

**`PagePipelineProofs`.** Completion is not inductive: that the counters reach the total says nothing unless
one knows what the counters count. The invariant is `IndInv == TypeInv /\ (~repeated => Exact)`, and `Exact`
has a named part for each reason why counting is right: `OwnLabels` (a job stands only at labels of its own
handler), `FanOutFirst` (no page job exists before counters and fan-out), `CountersCount` (the total counts the
announced pages, the tallies the settled ones), `OneJobPerPage` (at most one job has yet to count a page),
`FoundIsNew` (what a page job is announcing is in nobody else's hands), `SignalMeansSettled` and
`SignalMeansFlushed`. `repeated` is set when a job is delivered again after its work showed, and when failed
pages are retried: there the code's promise fails (`early_finalize`), so the proof stops exactly where the
code does. From it follow `CompletionCorrect` and `WatchdogCorrect`.

`BarrierImplemented` is the refinement. Under `IndInv` a step of a page's job that leaves both sets of
pages alone is a stutter, one that adds to `announced` finds its own page open (`FoundIsNew`,
`OneJobPerPage`), and one that signals finds every announced page settled because `Exact` makes the
counters count the sets; a step that sets `repeated` is the barrier's `Disturb`.

`CountersCorrect` and `SnapshotsCorrect` need to know what a handler holds between its snapshot and its count:
`Told` says that a job's outcome is what the row of its page shows, and that the settled pages are
counted by what their rows show (a cancelled crawl skips pages without a row and is left out).
`LinkBarrierCorrect` rests on `Linked`: the counter of
outstanding batches is at least the number of targets that are queued or being checked (`BatchesCounted`),
a target a handler has marked is in its hands until it is queued (`InHand`), and a marked target is checked, queued or in somebody's hands
(`Tracked`). It does not hold where a process dies between recording a target and queueing it (`severed`), nor for
cancelled crawls; its hypothesis `"gone" \notin Resolutions` says that the website is not deleted meanwhile,
since then a link check settles its batch without storing results.

**`ControlProofs`.** `SyncCorrect` and `SyncRemovalCorrect`, about `ScheduleSync`. A reconcile is *fresh* when it read the
table after the last edit, *clean* when moreover no older one ran beside it. Fresh reconciles agree with
the table and with each other (`FreshAgrees`), so beside a clean one nothing undoes what it has written
(`CleanProgress`), and when it finishes projection and table are equal (`Settled`). That clean is needed,
and fresh is not enough, is the hazard at `scheduler-sync.service.ts:48`: an older reconcile
still removes what a newer one registered.

`AdmissionCorrect` and `RemovalCorrect` are about `CrawlAdmission`. The guard's look is stale when the
crawl is created; the invariant says what it still means then (`LookHolds`: whatever now stands in the way
was not yet created at the look) and that two who have both looked have raced (`LookersRaced`). For
removals: `LateCovers` and `DoomedOwn`.

**`CrawlFinalizeProofs`.** What a completed crawl promises is a conjunction over all that was walked before, so
each invariant says how far an execution has got. `Kept`: the changes an execution has walked past
are recorded, by whomever; deaths and overlaps do no harm here, so `ChangesSurvive` has no exception. `Once`:
an execution that runs alone has derived the checks before its position, and has cleared the one it is at;
`DerivedCorrect` follows unless two executions `overlapped`. `Told`: scores, metrics, aggregate and trends up to
its position were computed from the issues as they are, which change no more. `AggregateCorrect` has the hypothesis
`Rescorable`: the page keeps an issue of its own, or found a new one, or had none. The excluded case is a finding: a page
that loses its last issue is not in the join that rescores (`page-issues.repository.ts:376`).

**`FetchPathProofs`.** `VettedCorrect` needs that the guard's arithmetic covers the reserved blocks: `PrivateIPv4`
and `PrivateIPv6` prove it for every address, mapped and embedded ones included, where TLC has a few. `FetchInv`
keeps with every job in flight that its connection is pinned to an address that was vetted for this hop.
`ServedCorrect`: a report says what the last answer was (`Reported`), through redirects,
renderings, a dying browser and a dying process.

**`UrlDiscoveryProofs`.** The invariant has three parts. `Filed`: a listed file is stored or is what the one
request in hand has yet to list or remove. `Resolving`: a walk's agenda, visited and listed sets
account for each other, so `truncated` is set exactly when something is left out (`SitemapCorrect`), and the seeds'
addresses differ but for a category's. `Queued`: jobs, pages, hashes and total grow together
(`TotalCorrect`), each job's depth and domain come from the job that found it (`SiteCorrect`). The resolver's
loops are folds; that they give lists of what they should is proved by induction over their traces.
`PagesCorrect` needs that what is crawled is in normal form, and that normal forms do not coincide: a path
that was decoded and collapsed has nothing left to decode or to collapse (`PathNormal`), so it stands in full for
what a server tells apart (`OnePath`); a stable sort puts every parameter somewhere and the keys in order
(`Sorted`), and a rearrangement between two such queries that keeps the values of each key in order only grows,
so it is the identity (`Growing`, `OneOrder`). The assumption is that a decoded character is not an encoding
(`UnreservedAssumption`); that paths are split into characters and encodings leaves a stray `%` out.

**`PageAuditProofs`.** A carried report was made crawls ago, so the invariant must keep what is true of it from the
audit on: `Sound` says that its own issues are what an audit of its body finds with the response that was
audited, through any number of copies and of finalizers that add link issues and take them away.
`Scored` and `Verified` are what one crawl's steps leave for the finalizer: the score of the issues, and
results for every target. `CarriedCorrect` and `BrokenLinksCorrect` follow. `RescoringCorrect` is about two
programs that compute one sum: over the checks that failed, in TypeScript by a map and the runner's weights, in SQL
by rows grouped by check *and severity*, joined with the catalog's weights and a table of multipliers. They agree
for every page that was fetched, carried ones included, because a row has its check's severity
(`SeveritiesKnown`), which makes the groups the same, and because every check that an audit or the link
checker can name is one `getCheck` knows, at the catalog's weight (`ScoresAgree`). It rests on lemmas about sums over finite sets (`TotalSplits`: any element may come first; `SumGrows`), on the
catalogs being disjoint (`OwnChecksApart`) and on an audit finding finitely many results (`AuditFinite`), which
is why the lists and the resources of a document are assumed finite. `TypeCorrect` shows the score between 0 and
100 for any results.

**`SchemaHistoryProofs`.** A crawl is compared with one of long ago, so the invariant says what a record of a page
can be, however often it was carried: nothing yet, a failure, or the rows *and* the summary of one document
(`Recorded`); and of a completed crawl that it tells the rollup of its report and, of each page, what some pair of
indexes differs in (`Told`: SQL does not say which of two rows with one key comes first). The theorems hold for
every choice. `RollupCorrect` goes through the sums over pages of `Folding`, since SQL adds up rows and the engine
pages. `ChangesCorrect` shows that an index says what its rows say when keys are distinct (`IndexSays`), so
that two indexes have no difference exactly when the rows say the same (`DiffIsSaid`). `LossCorrect` follows a lost
rich result to its cause: an entity that is gone, or a required property it no longer has (`RemovalIsTold`), which
the profile applies to still because key and type were kept (`TypeIsJudged`). `EligibilityCorrect` compares what
validation and the rich results make of one entity.

They assume of the packs what the two files must agree on (`PacksAgree`: profiles are of types other than
`Unknown` and ask for properties of these types), and of the engine that one hash means one set of types and the
presence of the same properties (`HashAssumption`, what a collision would break) and that types and entities are
lists. The proof found a corner: a row stores `Unknown` for an empty type, so an entity typed both `""` and
`Unknown` can swap the two and its row stays the same, while its first type changed. `EntitiesAssumption`
excludes it. The run evaluates these assumptions on the packs and the engine that `SchemaPacks` and `SchemaEngine`
translate.

**Induction.** The library's induction theorems take an operator, which no installed prover can
instantiate. Two set forms take their place: `Folding!Upto`, on the numbers up to n, and `Subsets`
(there too), on the subsets of a finite set. With the first, `Unfold` turns any `FoldLeft` into a function
of the number of elements seen; the module is instantiated once for each loop body. So loops over sequences and
sums over sets *are* proved about here; recursion over trees is not.

**Only model-checked.** All liveness (`EventuallyFinalized`, `CancelTerminates`, `Recovers`, `Converges`,
`DiscoveryEnds`, `PageEnds`): fairness and `ENABLED` are beyond the prover. That extraction
and the walk into an entity give what `SchemaHistory` assumes of them: `SchemaEngine` is recursive as the code is,
over trees of any depth, and the prover loses its SMT backend where an operator is declared `RECURSIVE`. To the
proofs they are constants; on the run's documents they are the real operators.

## 5. What the code does not keep

Two runs of TLC end in a counterexample, each against a sentence of a comment (quoted in `PROJECT.json`,
`findings`):

- `early_finalize`: a page job redelivered after `recordPage` counts its page twice, finalize starts early.
- `page_baseline`: the baseline of a crawl is the last completed crawl of the website, whatever its scope; after
  a crawl of one page, every other page's structured data is reported as changed.

The other findings have no run of their own. Each names the definition that has it:

- *Crawls that do not end*: the bound on waiting for link batches is kept in memory only and never reached; a
  page job that exhausts its attempts is never counted; a page waiting for the browser when the crawl is
  cancelled is not counted; a finalize that completed the crawl, ran again and died leaves it in `finalizing`,
  unseen by the watchdog; a crawl created and never queued blocks its scope; two spellings of one address in a
  category's sitemap fail the crawl or leave it waiting; a rate below one per second lets nothing through.
- *Races of the controls*: terminal statuses overwritten by pause and resume; a schedule edit deduplicated
  away; a category deleted under a crawl that started meanwhile; a website-wide crawl filed under a
  category, which blocks nobody else's; a prioritized finalize job taken for a dead one; counters
  that nothing rebuilds after a loss of Redis; two browsers launched at once, one of them never closed.
- *Reports*: schema changes repeated by a second finalize; a page whose last issue disappeared keeps its lowered
  score, a failed page's score of 0 becomes 60; the broken links of an unchanged page vanish; a page whose
  headers alone changed is not audited again; inlined images are reported broken; an oversized
  or unfetched entity is reported as removed; a lost second type is hardly told; duplicate keys make changes
  out of nothing; pages that failed count as pages without structured data.
- *Checks*: 4xx and 5xx checks that cannot fire, "english" as a language, a zoom of 1.5 as none, times and durations
  that are never valid, unparsable blocks that are not stored, a severity that is never critical, an empty body audited.
- *Limits*: robots.txt, concurrency per domain, pages found by discovery, a source's own bounds and path scopes are
  configured and not enforced; the bucket of uploads is configured for the API and fixed in the worker;
  link checks, the browser's second fetch and redirects pass the rate limit by; patterns are
  matched against links as written.

The properties of the passing runs name these exceptions (`~repeated`, `severed`, `overlapped`, `revived`,
`widened`, `Raced`, a page that was carried or failed, equal keys, a category whose entries coincide) and say
that nothing *else* breaks them.

## 6. Abstractions

`PagePipeline`
- What resolving, fetching and extracting return are constants (`Seeds`, `Outlinks`, `Targets`, `Flaky`,
  ...) or choices; a batch of 100 URLs is one URL.
- A denial by the rate limiter, a pause and an outstanding link batch delay a job, which changes nothing
  anyone reads: a stuttering step.
- `replaceSnapshot` is one step, as it is one transaction. Marking the seeds as seen belongs to the fan-out.
- A page job found stalled starts again and its first handler is taken for dead. A worker that only lost its
  lock, and stores or counts its page beside the second delivery, is left out: all it adds is a page counted
  twice, which `early_finalize` shows of a job that died between counting and its answer. Handlers that overlap
  are in `CrawlFinalize` and `ScheduleSync`.
- A crawl is deleted, if at all, before its orchestrator starts (`"vanished"`).
- A page that is carried forward has the snapshot of the crawl its hint came from. Where that crawl was deleted
  meanwhile (`prior` undefined), the code leaves the page without issues and entities.
- One API request is worked on at a time, and a retry-failed request ends before the next begins.
- Fixed job ids stay known to BullMQ for as long as the crawl runs (the retention is 24 hours).
- `CancelTerminates` is checked where no page is rendered, because a skipped render is not counted (section 5).

`CrawlFinalize`
- One page carried forward from the previous crawl stands for all: its rows are independent of other pages'.
- Copies of an issue or a change are told apart up to two. `finalize` uses two attempts and one stall;
  the code's numbers only add repetitions of the same steps.

`ScheduleSync`: a schedule is its cron and timezone; `markFired`, modes and next-run times are left out.
Job schedulers are written and removed in any order.

`CrawlAdmission`: one website, one crawl per starter; a firing's second delivery is another starter.
Statuses are `active` or `over`. Statements of the removal's transaction see what others commit between
them, as under READ COMMITTED; deletes of dependent rows are one step with the crawl row's.

`UrlDiscovery` runs one crawl at a time, one page after another: interleaving of discovery is `PagePipeline`'s.
A host is a sequence of labels without IP literals, a path a sequence of tokens, of which some are percent-encodings; a query
key is a number, as only its order counts. A CSV object is read whole or not at all. The rows of a file are kept
with its row, since a key is never written twice; limits of sizes and content types are left out. A category's sitemap
is as `assertSameOrigin` left it.

`FetchPath`: a page has one host at a time per request; DNS answers may differ from look-up to look-up. A body
is the size it is sent with and the size it decodes to. A timeout may happen at any point of a request. Texts of
errors, TLS and timings are left out; a second is a window.

`PageAudit`: a text is what it says and its length, the document a record of what the extractor looks at.
The logarithm of the surcharge is the one operator both scores share, in thousandths: by octaves, and by quarters
between them, exact up to eight instances, where the two programs' rounding could differ in digits nobody compares.
One page stands for all, except that link targets are shared with other pages. Checks for duplicates across pages
are `CrawlFinalize`'s. Messages and suggestions are left out.

`SchemaHistory`: a text is its words and the formats it has (a date, a URL, a number). The identifiers of
entities without `@id` and positions in the source are left out, as nothing compares them. The profile pack
is whole; the types of the vocabulary keep the properties the profiles ask for and a few of every other kind.

## 7. Not modelled

HTML storage and partition maintenance (I/O whose failure is logged), the CRUD services of projects,
websites, audit and authentication (single statements behind guards), and the dashboard.
The progress stream: callbacks composed in the API process that change no state of a crawl; planned.
`robots.ts`, which nothing calls; `previewSitemap`, which counts what the walk collects; `pageLevelChecks`, the
duplicate and mixed-format checks of a page, whose results are not stored; the closing of the browser at shutdown;
queries that only the dashboard reads.

## 8. Plan

Done: the modules of section 2, with proofs of every safety property that a run checks (section 4), one of them a
refinement. In order of importance, next:

1. `CrawlLifecycle`: the state diagram of the crawl pipeline's document as an abstract specification,
   and `PagePipeline` with `CrawlFinalize` shown to implement it, with the late writes it has to allow; there too
   what a retry does to a finalized crawl.
2. `SnapshotStore`: `replaceSnapshot` statement by statement under concurrent deliveries; trend rows shared by
   site, page and category crawls. `ProgressStream`: every subscriber that stays sees the end.
