---------------------------- MODULE PagePipeline ----------------------------
(***************************************************************************)
(* One crawl of SEO Guardian, from the orchestrator's fan-out to the       *)
(* moment the finalizer decides to analyse it: the crawl-orchestrate,      *)
(* page-fetch, page-render and link-check workers, the live counters in    *)
(* Redis, the rows they write in Postgres and the operator's controls.     *)
(*                                                                         *)
(* A handler is cut at the awaits where another worker can observe or      *)
(* change what it works on; a job that dies at any such point is           *)
(* delivered again by BullMQ (action Fault).  A delayed job (politeness,   *)
(* pause, outstanding link batches) changes nothing anyone reads, so a     *)
(* denied delivery is a stuttering step and not an action.                 *)
(***************************************************************************)
EXTENDS Integers, FiniteSets

CONSTANTS
  Pages,        \* pages of the website, by normalized URL
  Seeds,        \* what the URL resolver returns for this crawl
  Spiders,      \* seeds listed with allowDiscovery
  Hinted,       \* pages with a conditional hint from the previous crawl
  Flaky,        \* pages whose server may answer with an error
  Rendered,     \* pages whose static HTML is routed to the render queue
  Outlinks,     \* in-scope internal links of each page's body
  Urls,         \* link and image targets; one stands for one batch of them
  Targets,      \* the targets on each page
  MaxDepth,     \* config.discoveryMaxDepth
  MaxAttempts,  \* DEFAULT_JOB_OPTIONS.attempts
  MaxStalled,   \* BullMQ's maxStalledCount for these queues
  Resolutions,  \* what resolving may come to: "seeds", "invalid", "empty", or before
                \* it that the crawl is "vanished" or its website "gone"
  Controls,     \* control endpoints in use: "pause", "resume", "cancel"
  Faulty,       \* kinds of job that may die
  MaxFaults,    \* bound: deaths of a job
  MaxControls,  \* bound: control requests
  MaxRetries    \* bound: retry-failed requests

ASSUME PagesAssumption ==
  /\ IsFiniteSet(Pages)
  /\ Seeds \subseteq Pages /\ Seeds # {}
  /\ Spiders \subseteq Seeds
  /\ {Hinted, Flaky, Rendered} \subseteq SUBSET Pages
  /\ Outlinks \in [Pages -> SUBSET Pages]

ASSUME LinksAssumption ==
  /\ IsFiniteSet(Urls)
  /\ Targets \in [Pages -> SUBSET Urls]

ASSUME BoundsAssumption ==
  /\ {MaxDepth, MaxStalled, MaxFaults, MaxControls, MaxRetries} \subseteq Nat
  /\ MaxAttempts \in Nat \ {0}
  /\ Resolutions \subseteq {"seeds", "vanished", "gone", "invalid", "empty"}
  /\ Controls \subseteq {"pause", "resume", "cancel"}

-----------------------------------------------------------------------------
(* Jobs.  A page-fetch and a page-render job have a fixed id per (crawl,   *)
(* page); a retry has a fresh one, and so has a link-check job, named here *)
(* by its target because a target is put in a batch once.                  *)

PageJobs == {"fetch", "render", "retry"} \X Pages
LinkJobs == {"link"} \X Urls
Orchestrate == <<"orchestrate", "crawl">>
Jobs == PageJobs \cup LinkJobs \cup {Orchestrate}

Kind(j) == j[1]
Page(j) == j[2]
Url(j) == j[2]

Outcomes == {"crawled", "unchanged", "failed"}

(* Where a job stands, in the order its handler goes. *)
OrchestrateSteps == {"resolving", "init", "running", "stats", "fanout"}
ProcessSteps == {"rendering", "carry", "copy", "entities", "error", "persist", "route",
                 "targets", "batches", "links", "discover", "announce", "enqueue", "record"}
FinishSteps == {"flush", "signal"}
LinkSteps == {"decr"}
Live == {"waiting", "ack"} \cup OrchestrateSteps \cup ProcessSteps \cup FinishSteps
          \cup LinkSteps
Labels == {"none", "completed", "failed"} \cup Live

Statuses == {"queued", "resolving", "running", "paused", "finalizing",
             "completed", "failed", "cancelled", "deleted"}
Terminal == {"completed", "failed", "cancelled"}
Controllable == {"queued", "resolving", "running", "paused"}

VARIABLES
  (* BullMQ: each job's progress, its failed attempts and its stalls *)
  pc, tries, stalls,
  (* what a running handler holds in memory *)
  outcome, todo, found, shot,
  (* job data: jobs without hints and discovery, and each page's depth *)
  plain, depth,
  (* the finalize job *)
  finalize,
  (* Postgres: crawls.status, whether finished_at is set, crawls.stats,   *)
  (* page_snapshots, link_checks                                          *)
  status, finished, stats, snap, checked,
  (* Redis: counters, seen, linktargets, linkbatches and the flags *)
  total, tally, seen, linkTargets, linkBatches, cancelled, paused,
  (* the control request in progress in the API process *)
  api,
  (* history: the pages counted in total and in the outcomes, whether a   *)
  (* job ran again after its work showed, whether a fault hit a gap       *)
  (* between recording work as queued and queueing it                     *)
  announced, settled, repeated, severed,
  (* how often the bounded actions happened *)
  faults, controls, retries

queue == <<pc, tries, stalls>>
memory == <<outcome, todo, found, shot>>
data == <<plain, depth>>
rows == <<status, finished, stats, snap, checked>>
counters == <<total, tally>>
sets == <<seen, linkTargets>>
flags == <<cancelled, paused>>
history == <<announced, settled, repeated, severed>>
bounds == <<faults, controls, retries>>

vars == <<queue, memory, data, finalize, rows, counters, sets, linkBatches, flags, api,
          history, bounds>>

-----------------------------------------------------------------------------

Done == tally["crawled"] + tally["unchanged"] + tally["failed"]

NoCounts == [o \in Outcomes |-> 0]
NoStats == [total |-> 0, done |-> 0]

Init ==
  /\ pc = [j \in Jobs |-> IF j = Orchestrate THEN "waiting" ELSE "none"]
  /\ tries = [j \in Jobs |-> 0]
  /\ stalls = [j \in Jobs |-> 0]
  /\ outcome = [j \in Jobs |-> "unchanged"]
  /\ todo = [j \in Jobs |-> {}]
  /\ found = [j \in Jobs |-> {}]
  /\ shot = [j \in Jobs |-> NoStats]
  /\ plain = {}
  /\ depth = [p \in Pages |-> 0]
  /\ finalize = "none"
  /\ status = "queued"
  /\ finished = FALSE
  /\ stats = NoStats
  /\ snap = [p \in Pages |-> "none"]
  /\ checked = {}
  /\ total = 0
  /\ tally = NoCounts
  /\ seen = {}
  /\ linkTargets = {}
  /\ linkBatches = 0
  /\ cancelled = FALSE
  /\ paused = FALSE
  /\ api = "idle"
  /\ announced = {}
  /\ settled = {}
  /\ repeated = FALSE
  /\ severed = FALSE
  /\ faults = 0
  /\ controls = 0
  /\ retries = 0

(* setStatus: a terminal status sets finished_at, no status clears it.  An *)
(* update of a row that is not there writes nothing.                       *)
SetStatus(to) ==
  /\ status' = (IF status = "deleted" THEN status ELSE to)
  /\ finished' = (finished \/ to \in Terminal)

Goto(j, label) == pc' = [pc EXCEPT ![j] = label]

(* BullMQ takes a job off its queue for good once its handler returned. *)
Ack(j) ==
  /\ pc[j] = "ack"
  /\ Goto(j, "completed")
  /\ UNCHANGED <<tries, stalls, memory, data, finalize, rows, counters, sets,
                 linkBatches, flags, api, history, bounds>>

-----------------------------------------------------------------------------
(* The orchestrator.                                                       *)

(* The crawl row is read, then the cancel flag, then the website.  Nothing *)
(* is done for a crawl that was deleted before.                            *)
OrchestrateStart ==
  /\ pc[Orchestrate] = "waiting"
  /\ \/ /\ "vanished" \in Resolutions /\ status \in {"queued", "deleted"}
        /\ status' = "deleted" /\ UNCHANGED finished
        /\ Goto(Orchestrate, "ack")
     \/ /\ status # "deleted" /\ cancelled
        /\ SetStatus("cancelled")
        /\ Goto(Orchestrate, "ack")
     \/ /\ status # "deleted" /\ ~cancelled
        /\ "gone" \in Resolutions
        /\ SetStatus("failed")
        /\ Goto(Orchestrate, "ack")
     \/ /\ status # "deleted" /\ ~cancelled
        /\ SetStatus("resolving")
        /\ Goto(Orchestrate, "resolving")
  /\ UNCHANGED <<tries, stalls, memory, data, finalize, stats, snap, checked, counters,
                 sets, linkBatches, flags, api, history, bounds>>

InitCounters(n) ==
  /\ total' = n
  /\ tally' = NoCounts

(* Nothing to crawl ends the crawl here: a page or category crawl without  *)
(* a target fails, an empty URL set completes, and the counters read 0.    *)
Resolve ==
  /\ pc[Orchestrate] = "resolving"
  /\ \/ /\ "seeds" \in Resolutions
        /\ Goto(Orchestrate, "init")
        /\ UNCHANGED <<status, finished, counters>>
     \/ \E r \in Resolutions \cap {"invalid", "empty"} :
          /\ SetStatus(IF r = "invalid" THEN "failed" ELSE "completed")
          /\ InitCounters(0)
          /\ Goto(Orchestrate, "ack")
  /\ UNCHANGED <<tries, stalls, memory, data, finalize, stats, snap, checked, sets,
                 linkBatches, flags, api, history, bounds>>

(* state.init: the counters are set, whatever they were. *)
SeedCounters ==
  /\ pc[Orchestrate] = "init"
  /\ InitCounters(Cardinality(Seeds))
  /\ announced' = announced \cup Seeds
  /\ Goto(Orchestrate, "running")
  /\ UNCHANGED <<tries, stalls, memory, data, finalize, rows, sets, linkBatches, flags,
                 api, settled, repeated, severed, bounds>>

SetRunning ==
  /\ pc[Orchestrate] = "running"
  /\ SetStatus("running")
  /\ Goto(Orchestrate, "stats")
  /\ UNCHANGED <<tries, stalls, memory, data, finalize, stats, snap, checked, counters,
                 sets, linkBatches, flags, api, history, bounds>>

ResetStats ==
  /\ pc[Orchestrate] = "stats"
  /\ stats' = [total |-> Cardinality(Seeds), done |-> 0]
  /\ Goto(Orchestrate, "fanout")
  /\ UNCHANGED <<tries, stalls, memory, data, finalize, status, finished, snap, checked,
                 counters, sets, linkBatches, flags, api, history, bounds>>

(* addBulk with a fixed job id: an id BullMQ still knows, live or ended, is *)
(* ignored.                                                                *)
Enqueued(pages) ==
  {j \in {"fetch"} \X pages : pc[j] = "none"}

(* Marking the seeds seen is one SADD each whose answer is ignored. *)
FanOut ==
  /\ pc[Orchestrate] = "fanout"
  /\ seen' = seen \cup Seeds
  /\ pc' = [j \in Jobs |-> IF j \in Enqueued(Seeds) THEN "waiting"
                           ELSE IF j = Orchestrate THEN "ack" ELSE pc[j]]
  /\ UNCHANGED <<tries, stalls, memory, data, finalize, rows, counters, linkTargets,
                 linkBatches, flags, api, history, bounds>>

-----------------------------------------------------------------------------
(* Page jobs: what a delivery finds, and what it does about it.            *)

Discovers(j) ==
  /\ j \notin plain
  /\ Page(j) \in Spiders \cup (Pages \ Seeds)
  /\ depth[Page(j)] < MaxDepth

(* What the network and the content hash may say.  Only a job with hints   *)
(* can find its page unchanged.                                            *)
Answers(j) ==
  {"body"} \cup (IF Page(j) \in Flaky THEN {"failed"} ELSE {})
           \cup (IF Page(j) \in Hinted /\ j \notin plain THEN {"unchanged"} ELSE {})

Branch(j, answer) ==
  CASE answer = "unchanged" -> "carry"
    [] answer = "failed" -> "error"
    [] answer = "body" -> IF Kind(j) # "render" /\ Page(j) \in Rendered
                          THEN "route" ELSE "persist"

(* Mutant: a cancelled page returns without finishPage.                    *)
ProcessFetchUncounted(j) ==
  /\ Kind(j) # "render"
  /\ pc[j] = "waiting"
  /\ \/ cancelled /\ Goto(j, "ack")
     \/ /\ ~cancelled /\ ~paused
        /\ \E answer \in Answers(j) : Goto(j, Branch(j, answer))
  /\ UNCHANGED <<tries, stalls, memory, data, finalize, rows, counters, sets,
                 linkBatches, flags, api, history, bounds>>

(* shouldSkip, politeness and the fetch write nothing.  A cancelled page   *)
(* counts as unchanged; a paused one is delayed.                           *)
ProcessFetch(j) ==
  /\ Kind(j) # "render"
  /\ pc[j] = "waiting"
  /\ \/ cancelled /\ Goto(j, "record")
     \/ /\ ~cancelled /\ ~paused
        /\ \E answer \in Answers(j) : Goto(j, Branch(j, answer))
  /\ UNCHANGED <<tries, stalls, memory, data, finalize, rows, counters, sets,
                 linkBatches, flags, api, history, bounds>>

(* enqueueRender has a fixed job id too. *)
EnqueueRender(j) ==
  LET render == <<"render", Page(j)>> IN
  /\ pc[j] = "route"
  /\ pc' = [pc EXCEPT ![j] = "ack",
                      ![render] = IF @ = "none" THEN "waiting" ELSE @]
  /\ plain' = (IF j \in plain /\ pc[render] = "none" THEN plain \cup {render} ELSE plain)
  /\ UNCHANGED <<tries, stalls, memory, depth, finalize, rows, counters, sets,
                 linkBatches, flags, api, history, bounds>>

(* The render processor looks at the cancel flag on its own first, and     *)
(* then returns without counting the page.                                 *)
BeginRender(j) ==
  /\ Kind(j) = "render"
  /\ pc[j] = "waiting"
  /\ Goto(j, IF cancelled THEN "ack" ELSE "rendering")
  /\ UNCHANGED <<tries, stalls, memory, data, finalize, rows, counters, sets,
                 linkBatches, flags, api, history, bounds>>

(* The browser took its time: shouldSkip is asked again. *)
ProcessRendered(j) ==
  /\ pc[j] = "rendering"
  /\ \/ cancelled /\ Goto(j, "record")
     \/ ~cancelled /\ paused /\ Goto(j, "waiting")
     \/ /\ ~cancelled /\ ~paused
        /\ \E answer \in Answers(j) : Goto(j, Branch(j, answer))
  /\ UNCHANGED <<tries, stalls, memory, data, finalize, rows, counters, sets,
                 linkBatches, flags, api, history, bounds>>

(* replaceSnapshot is one transaction: delete the page's snapshot, insert. *)
ReplaceSnapshot(j, kind) == snap' = [snap EXCEPT ![Page(j)] = kind]

(* Mutant: the carried-forward snapshot never gets its issues.             *)
CarryForwardBare(j) ==
  /\ pc[j] = "carry"
  /\ ReplaceSnapshot(j, "bare")
  /\ Goto(j, "record")
  /\ UNCHANGED <<tries, stalls, memory, data, finalize, status, finished, stats,
                 checked, counters, sets, linkBatches, flags, api, history, bounds>>

(* A carried-forward snapshot starts bare; its issues and then its schema  *)
(* entities are copied after the transaction.                              *)
CarryForward(j) ==
  /\ pc[j] = "carry"
  /\ ReplaceSnapshot(j, "bare")
  /\ Goto(j, "copy")
  /\ UNCHANGED <<tries, stalls, memory, data, finalize, status, finished, stats,
                 checked, counters, sets, linkBatches, flags, api, history, bounds>>

CopyIssues(j) ==
  /\ pc[j] = "copy"
  /\ snap' = [snap EXCEPT ![Page(j)] = "issues"]
  /\ Goto(j, "entities")
  /\ UNCHANGED <<tries, stalls, memory, data, finalize, status, finished, stats,
                 checked, counters, sets, linkBatches, flags, api, history, bounds>>

CopyForCarryForward(j) ==
  /\ pc[j] = "entities"
  /\ snap' = [snap EXCEPT ![Page(j)] = "carried"]
  /\ Goto(j, "record")
  /\ UNCHANGED <<tries, stalls, memory, data, finalize, status, finished, stats,
                 checked, counters, sets, linkBatches, flags, api, history, bounds>>

(* Mutant: an error snapshot is reported as an unchanged page.             *)
PersistFetchErrorQuietly(j) ==
  /\ pc[j] = "error"
  /\ ReplaceSnapshot(j, "error")
  /\ Goto(j, "record")
  /\ UNCHANGED <<tries, stalls, memory, data, finalize, status, finished, stats,
                 checked, counters, sets, linkBatches, flags, api, history, bounds>>

PersistFetchError(j) ==
  /\ pc[j] = "error"
  /\ ReplaceSnapshot(j, "error")
  /\ outcome' = [outcome EXCEPT ![j] = "failed"]
  /\ Goto(j, "record")
  /\ UNCHANGED <<tries, stalls, todo, found, shot, data, finalize, status, finished,
                 stats, checked, counters, sets, linkBatches, flags, api, history,
                 bounds>>

PersistPage(j) ==
  /\ pc[j] = "persist"
  /\ ReplaceSnapshot(j, "ok")
  /\ outcome' = [outcome EXCEPT ![j] = "crawled"]
  /\ Goto(j, "targets")
  /\ UNCHANGED <<tries, stalls, todo, found, shot, data, finalize, status, finished,
                 stats, checked, counters, sets, linkBatches, flags, api, history,
                 bounds>>

-----------------------------------------------------------------------------
(* enqueueLinkTargets: mark, count, queue.                                 *)

LeaveLinks(j) ==
  IF Discovers(j) /\ Outlinks[Page(j)] # {}
  THEN Goto(j, "discover") /\ todo' = [todo EXCEPT ![j] = Outlinks[Page(j)]]
  ELSE Goto(j, "record") /\ todo' = [todo EXCEPT ![j] = {}]

MarkLinkTargets(j) ==
  LET fresh == Targets[Page(j)] \ linkTargets IN
  /\ pc[j] = "targets"
  /\ linkTargets' = linkTargets \cup fresh
  /\ IF fresh = {} THEN LeaveLinks(j)
     ELSE Goto(j, "batches") /\ todo' = [todo EXCEPT ![j] = fresh]
  /\ UNCHANGED <<tries, stalls, outcome, found, shot, data, finalize, rows, counters,
                 seen, linkBatches, flags, api, history, bounds>>

(* Mutant: the batches are queued without being counted.                   *)
IncrLinkBatchesForgotten(j) ==
  /\ pc[j] = "batches"
  /\ Goto(j, "links")
  /\ UNCHANGED <<tries, stalls, memory, data, finalize, rows, counters, sets,
                 linkBatches, flags, api, history, bounds>>

IncrLinkBatches(j) ==
  /\ pc[j] = "batches"
  /\ linkBatches' = linkBatches + Cardinality(todo[j])
  /\ Goto(j, "links")
  /\ UNCHANGED <<tries, stalls, memory, data, finalize, rows, counters, sets, flags,
                 api, history, bounds>>

(* One add per batch.  A target is fresh once until a cancelled finalize   *)
(* deletes the set; the model then waits for its earlier job to end.       *)
EnqueueLinkCheck(j) ==
  /\ pc[j] = "links"
  /\ \E u \in todo[j] :
       LET batch == <<"link", u>>
           rest == todo[j] \ {u}
           next == IF rest # {} THEN "links"
                   ELSE IF Discovers(j) /\ Outlinks[Page(j)] # {} THEN "discover"
                   ELSE "record"
       IN /\ pc[batch] \notin Live
          /\ pc' = [pc EXCEPT ![batch] = "waiting", ![j] = next]
          /\ tries' = [tries EXCEPT ![batch] = 0]
          /\ stalls' = [stalls EXCEPT ![batch] = 0]
          /\ todo' = [todo EXCEPT ![j] = IF next = "discover" THEN Outlinks[Page(j)]
                                         ELSE rest]
  /\ UNCHANGED <<outcome, found, shot, data, finalize, rows, counters, sets,
                 linkBatches, flags, api, history, bounds>>

-----------------------------------------------------------------------------
(* expandDiscovery: mark seen one link at a time, count, queue.            *)

MarkSeen(j) ==
  /\ pc[j] = "discover"
  /\ \E q \in todo[j] :
       LET rest == todo[j] \ {q}
           new == found[j] \cup ({q} \ seen)
       IN /\ seen' = seen \cup {q}
          /\ todo' = [todo EXCEPT ![j] = rest]
          /\ found' = [found EXCEPT ![j] = new]
          /\ Goto(j, IF rest # {} THEN "discover"
                     ELSE IF new # {} THEN "announce" ELSE "record")
  /\ UNCHANGED <<tries, stalls, outcome, shot, data, finalize, rows, counters,
                 linkTargets, linkBatches, flags, api, history, bounds>>

AddToTotal(j) ==
  /\ pc[j] = "announce"
  /\ total' = total + Cardinality(found[j])
  /\ announced' = announced \cup found[j]
  /\ Goto(j, "enqueue")
  /\ UNCHANGED <<tries, stalls, memory, data, finalize, rows, tally, sets, linkBatches,
                 flags, api, settled, repeated, severed, bounds>>

EnqueuePageFetch(j) ==
  /\ pc[j] = "enqueue"
  /\ pc' = [i \in Jobs |-> IF i \in Enqueued(found[j]) THEN "waiting"
                           ELSE IF i = j THEN "record" ELSE pc[i]]
  /\ depth' = [p \in Pages |-> IF <<"fetch", p>> \in Enqueued(found[j])
                               THEN depth[Page(j)] + 1 ELSE depth[p]]
  /\ found' = [found EXCEPT ![j] = {}]
  /\ UNCHANGED <<tries, stalls, outcome, todo, shot, plain, finalize, rows, counters,
                 sets, linkBatches, flags, api, history, bounds>>

-----------------------------------------------------------------------------
(* finishPage: count the page, and signal when that made the crawl         *)
(* complete.                                                               *)

(* Mutants: the comparison is off by one, in either direction.             *)
CompleteEarly(all, done) == all > 0 /\ done + 1 >= all
CompleteLate(all, done) == all > 0 /\ done > all

Complete(all, done) == all > 0 /\ done >= all

(* Mutant: finalize is signalled without flushing the stats.               *)
RecordPageUnflushed(j) ==
  /\ pc[j] = "record"
  /\ tally' = [tally EXCEPT ![outcome[j]] = @ + 1]
  /\ settled' = settled \cup {Page(j)}
  /\ Goto(j, IF Complete(total, Done + 1) THEN "signal" ELSE "ack")
  /\ outcome' = [outcome EXCEPT ![j] = "unchanged"]
  /\ UNCHANGED <<tries, stalls, todo, found, shot, data, finalize, rows, total, sets,
                 linkBatches, flags, api, announced, repeated, severed, bounds>>

(* The increment and the reading of all counters are one MULTI. *)
RecordPage(j) ==
  /\ pc[j] = "record"
  /\ tally' = [tally EXCEPT ![outcome[j]] = @ + 1]
  /\ settled' = settled \cup {Page(j)}
  /\ LET done == Done + 1 IN
       IF Complete(total, done)
       THEN /\ Goto(j, "flush")
            /\ shot' = [shot EXCEPT ![j] = [total |-> total, done |-> done]]
       ELSE Goto(j, "ack") /\ UNCHANGED shot
  /\ outcome' = [outcome EXCEPT ![j] = "unchanged"]
  /\ UNCHANGED <<tries, stalls, todo, found, data, finalize, rows, total, sets,
                 linkBatches, flags, api, announced, repeated, severed, bounds>>

UpdateStats(j) ==
  /\ pc[j] = "flush"
  /\ stats' = shot[j]
  /\ shot' = [shot EXCEPT ![j] = NoStats]
  /\ Goto(j, "signal")
  /\ UNCHANGED <<tries, stalls, outcome, todo, found, data, finalize, status, finished,
                 snap, checked, counters, sets, linkBatches, flags, api, history,
                 bounds>>

(* One finalize job id per crawl: a second signal is dropped. *)
EnqueueFinalize(j) ==
  /\ pc[j] = "signal"
  /\ finalize' = (IF finalize = "none" THEN "waiting" ELSE finalize)
  /\ Goto(j, "ack")
  /\ UNCHANGED <<tries, stalls, memory, data, rows, counters, sets, linkBatches, flags,
                 api, history, bounds>>

-----------------------------------------------------------------------------
(* Link-check jobs.  A result is inserted once (ON CONFLICT DO NOTHING);   *)
(* a website deleted meanwhile leaves nothing to check.                    *)

CheckLinks(j) ==
  /\ Kind(j) = "link"
  /\ pc[j] = "waiting"
  /\ \/ checked' = checked \cup {Url(j)}
     \/ "gone" \in Resolutions /\ UNCHANGED checked
  /\ Goto(j, "decr")
  /\ UNCHANGED <<tries, stalls, memory, data, finalize, status, finished, stats, snap,
                 counters, sets, linkBatches, flags, api, history, bounds>>

(* Mutant: the batch stays outstanding.                                    *)
DecrLinkBatchesForgotten(j) ==
  /\ pc[j] = "decr"
  /\ Goto(j, "ack")
  /\ UNCHANGED <<tries, stalls, memory, data, finalize, rows, counters, sets,
                 linkBatches, flags, api, history, bounds>>

DecrLinkBatches(j) ==
  /\ pc[j] = "decr"
  /\ linkBatches' = linkBatches - 1
  /\ Goto(j, "ack")
  /\ UNCHANGED <<tries, stalls, memory, data, finalize, rows, counters, sets, flags,
                 api, history, bounds>>

-----------------------------------------------------------------------------
(* The finalizer up to its decision.  A delayed job comes back with the    *)
(* data it was stored with, so its count of waits never grows and only the *)
(* link batches decide.  What follows is module CrawlFinalize's.           *)

FinalizeCancelled ==
  /\ finalize = "waiting" /\ cancelled
  /\ finalize' = "cancelled"
  /\ SetStatus("cancelled")
  /\ seen' = {} /\ linkTargets' = {}
  /\ UNCHANGED <<queue, memory, data, stats, snap, checked, counters, linkBatches,
                 flags, api, history, bounds>>

FinalizeReady ==
  /\ finalize = "waiting" /\ ~cancelled
  /\ linkBatches <= 0
  /\ finalize' = "ready"
  /\ SetStatus("finalizing")
  /\ UNCHANGED <<queue, memory, data, stats, snap, checked, counters, sets, linkBatches,
                 flags, api, history, bounds>>

(* The maintenance worker's watchdog.  It sees a running crawl whose stats *)
(* show every page settled; a finalize job not yet taken is removed and    *)
(* added anew, which changes nothing here.                                 *)
ReapStuckCrawls ==
  /\ status = "running" /\ ~finished /\ Complete(stats.total, stats.done)
  /\ finalize = "none"
  /\ finalize' = "waiting"
  /\ UNCHANGED <<queue, memory, data, rows, counters, sets, linkBatches, flags, api,
                 history, bounds>>

-----------------------------------------------------------------------------
(* The API's control endpoints, one request at a time.  Each reads the     *)
(* status first and writes the flag and the status later.                  *)

Request(op) ==
  /\ api = "idle" /\ op \in Controls /\ controls < MaxControls
  /\ IF op = "resume" THEN status = "paused" ELSE status \in Controllable
  /\ api' = op
  /\ controls' = controls + 1
  /\ UNCHANGED <<queue, memory, data, finalize, rows, counters, sets, linkBatches,
                 flags, history, faults, retries>>

PauseFlag ==
  /\ api = "pause"
  /\ paused' = TRUE
  /\ api' = "pauseStatus"
  /\ UNCHANGED <<queue, memory, data, finalize, rows, counters, sets, linkBatches,
                 cancelled, history, bounds>>

PauseStatus ==
  /\ api = "pauseStatus"
  /\ SetStatus("paused")
  /\ api' = "idle"
  /\ UNCHANGED <<queue, memory, data, finalize, stats, snap, checked, counters, sets,
                 linkBatches, flags, history, bounds>>

ResumeFlag ==
  /\ api = "resume"
  /\ paused' = FALSE
  /\ api' = "resumeStatus"
  /\ UNCHANGED <<queue, memory, data, finalize, rows, counters, sets, linkBatches,
                 cancelled, history, bounds>>

ResumeStatus ==
  /\ api = "resumeStatus"
  /\ SetStatus("running")
  /\ api' = "idle"
  /\ UNCHANGED <<queue, memory, data, finalize, stats, snap, checked, counters, sets,
                 linkBatches, flags, history, bounds>>

CancelFlag ==
  /\ api = "cancel"
  /\ cancelled' = TRUE
  /\ api' = "unpause"
  /\ UNCHANGED <<queue, memory, data, finalize, rows, counters, sets, linkBatches,
                 paused, history, bounds>>

CancelUnpause ==
  /\ api = "unpause"
  /\ paused' = FALSE
  /\ api' = "idle"
  /\ UNCHANGED <<queue, memory, data, finalize, rows, counters, sets, linkBatches,
                 cancelled, history, bounds>>

(* retry-failed asks for no status.  Its jobs have fresh ids, no hints and *)
(* no discovery; the model lets one set of them run at a time.             *)
RetryFailed ==
  LET failed == {"retry"} \X {p \in Pages : snap[p] = "error"} IN
  /\ retries < MaxRetries
  /\ failed # {}
  /\ \A p \in Pages : pc[<<"retry", p>>] \notin Live
  /\ pc' = [j \in Jobs |-> IF j \in failed THEN "waiting" ELSE pc[j]]
  /\ tries' = [j \in Jobs |-> IF j \in failed THEN 0 ELSE tries[j]]
  /\ stalls' = [j \in Jobs |-> IF j \in failed THEN 0 ELSE stalls[j]]
  /\ plain' = plain \cup failed
  /\ repeated' = TRUE
  /\ retries' = retries + 1
  /\ UNCHANGED <<memory, depth, finalize, rows, counters, sets, linkBatches, flags, api,
                 announced, settled, severed, faults, controls>>

-----------------------------------------------------------------------------
(* BullMQ's at-least-once delivery.  A handler that throws uses up an      *)
(* attempt, one whose worker died is found stalled; either way the job is  *)
(* delivered from the start again, or fails for good.  Its answer is all a *)
(* job has left to give in "ack", so there only the worker can die.        *)

(* Work recorded as queued and not queued yet. *)
InGap(j) ==
  \/ pc[j] \in {"batches", "links", "announce", "enqueue"}
  \/ pc[j] = "discover" /\ found[j] # {}
  \/ j = Orchestrate /\ pc[j] = "ack"

(* Mutant: a job that may run again is left in a state no worker takes.    *)
RedeliverStalled(j, again) ==
  /\ Goto(j, IF again THEN "stalled" ELSE "failed")
  /\ outcome' = [outcome EXCEPT ![j] = "unchanged"]
  /\ todo' = [todo EXCEPT ![j] = {}]
  /\ found' = [found EXCEPT ![j] = {}]
  /\ shot' = [shot EXCEPT ![j] = NoStats]
  /\ repeated' = (repeated \/ (again /\ pc[j] \in FinishSteps \cup {"ack"}))
  /\ severed' = (severed \/ InGap(j))

Redeliver(j, again) ==
  /\ Goto(j, IF again THEN "waiting" ELSE "failed")
  /\ outcome' = [outcome EXCEPT ![j] = "unchanged"]
  /\ todo' = [todo EXCEPT ![j] = {}]
  /\ found' = [found EXCEPT ![j] = {}]
  /\ shot' = [shot EXCEPT ![j] = NoStats]
  /\ repeated' = (repeated \/ (again /\ pc[j] \in FinishSteps \cup {"ack"}))
  /\ severed' = (severed \/ InGap(j))

Throw(j) ==
  /\ pc[j] # "ack"
  /\ tries' = [tries EXCEPT ![j] = @ + 1]
  /\ Redeliver(j, tries[j] + 1 < MaxAttempts)
  /\ UNCHANGED stalls

Stall(j) ==
  /\ stalls' = [stalls EXCEPT ![j] = @ + 1]
  /\ Redeliver(j, stalls[j] + 1 <= MaxStalled)
  /\ UNCHANGED tries

Fault(j) ==
  /\ faults < MaxFaults /\ Kind(j) \in Faulty /\ pc[j] \in Live
  /\ Throw(j) \/ Stall(j)
  /\ faults' = faults + 1
  /\ UNCHANGED <<data, finalize, rows, counters, sets, linkBatches, flags, api,
                 announced, settled, controls, retries>>

-----------------------------------------------------------------------------

OrchestrateStep ==
  OrchestrateStart \/ Resolve \/ SeedCounters \/ SetRunning \/ ResetStats \/ FanOut

PageStep(j) ==
  \/ ProcessFetch(j) \/ BeginRender(j) \/ ProcessRendered(j) \/ EnqueueRender(j)
  \/ CarryForward(j) \/ CopyIssues(j) \/ CopyForCarryForward(j)
  \/ PersistFetchError(j) \/ PersistPage(j)
  \/ MarkLinkTargets(j) \/ IncrLinkBatches(j) \/ EnqueueLinkCheck(j)
  \/ MarkSeen(j) \/ AddToTotal(j) \/ EnqueuePageFetch(j)
  \/ RecordPage(j) \/ UpdateStats(j) \/ EnqueueFinalize(j)

LinkStep(j) == CheckLinks(j) \/ DecrLinkBatches(j)

FinalizeStep == FinalizeCancelled \/ FinalizeReady

ApiStep ==
  PauseFlag \/ PauseStatus \/ ResumeFlag \/ ResumeStatus \/ CancelFlag \/ CancelUnpause

Next ==
  \/ OrchestrateStep
  \/ \E j \in PageJobs : PageStep(j)
  \/ \E j \in LinkJobs : LinkStep(j)
  \/ \E j \in Jobs : Ack(j) \/ Fault(j)
  \/ FinalizeStep
  \/ ReapStuckCrawls
  \/ \E op \in Controls : Request(op)
  \/ ApiStep
  \/ RetryFailed

Safe == Init /\ [][Next]_vars

(* Workers keep taking jobs, the watchdog keeps running and an API request *)
(* under way is served; nobody has to send one, and no job has to die.     *)
Fairness ==
  /\ WF_vars(OrchestrateStep)
  /\ \A j \in PageJobs : WF_vars(PageStep(j))
  /\ \A j \in LinkJobs : WF_vars(LinkStep(j))
  /\ \A j \in Jobs : WF_vars(Ack(j))
  /\ WF_vars(FinalizeStep)
  /\ WF_vars(ReapStuckCrawls)
  /\ WF_vars(ApiStep)

Spec == Safe /\ Fairness

-----------------------------------------------------------------------------
(* Correctness.                                                            *)

QueueType ==
  /\ pc \in [Jobs -> Labels]
  /\ tries \in [Jobs -> Nat]
  /\ stalls \in [Jobs -> Nat]

MemoryType ==
  /\ outcome \in [Jobs -> Outcomes]
  /\ todo \in [Jobs -> SUBSET (Pages \cup Urls)]
  /\ found \in [Jobs -> SUBSET Pages]
  /\ shot \in [Jobs -> [total : Nat, done : Nat]]

DataType ==
  /\ plain \subseteq PageJobs
  /\ depth \in [Pages -> Nat]
  /\ finalize \in {"none", "waiting", "cancelled", "ready"}

RowType ==
  /\ status \in Statuses
  /\ finished \in BOOLEAN
  /\ stats \in [total : Nat, done : Nat]
  /\ snap \in [Pages -> {"none", "error", "ok", "bare", "issues", "carried"}]
  /\ checked \subseteq Urls

CounterType ==
  /\ total \in Nat
  /\ tally \in [Outcomes -> Nat]
  /\ linkBatches \in Int
  /\ seen \subseteq Pages
  /\ linkTargets \subseteq Urls

FlagType ==
  /\ cancelled \in BOOLEAN
  /\ paused \in BOOLEAN
  /\ api \in {"idle", "pause", "pauseStatus", "resume", "resumeStatus", "cancel",
              "unpause"}

HistoryType ==
  /\ announced \subseteq Pages
  /\ settled \subseteq Pages
  /\ repeated \in BOOLEAN
  /\ severed \in BOOLEAN
  /\ {faults, controls, retries} \subseteq Nat

TypeOK ==
  /\ QueueType /\ MemoryType /\ DataType /\ RowType
  /\ CounterType /\ FlagType /\ HistoryType

(* Finalize is signalled only when every page counted in the total has     *)
(* settled (FinalizeProcessor: "when all pages settle"): no interleaving   *)
(* of discovery and counting signals early, as long as no job was          *)
(* delivered again after its work showed.                                  *)
CompletionIsExact == finalize # "none" /\ ~repeated => announced \subseteq settled

(* The finalizer joins broken links from link_checks: when it starts, the  *)
(* targets of every page crawled with a body have been checked.            *)
LinkBarrier ==
  finalize = "ready" /\ ~repeated /\ ~severed =>
    \A p \in Pages : snap[p] = "ok" => Targets[p] \subseteq checked

(* The live counters and the stored snapshots tell the same story: each    *)
(* outcome counts the settled pages whose snapshot has that kind.          *)
SnapshotKind == [crawled |-> "ok", unchanged |-> "carried", failed |-> "error"]
CountersMatchSnapshots ==
  ~repeated /\ ~cancelled =>
    \A o \in Outcomes :
      tally[o] = Cardinality({p \in settled : snap[p] = SnapshotKind[o]})

(* Once finalize is signalled the flushed stats already show a complete    *)
(* crawl, which is what the watchdog's query looks for should the finalize *)
(* job die.                                                                *)
WatchdogCanSee ==
  finalize # "none" /\ ~repeated => Complete(stats.total, stats.done)

(* The finalizer scores what page_snapshots holds: when it starts, every   *)
(* page has its final snapshot, a carried-forward one with its issues.     *)
SnapshotsReady ==
  finalize = "ready" /\ ~repeated /\ ~cancelled =>
    \A p \in announced : snap[p] \in {"ok", "carried", "error"}

(* A crawl that is deleted or has no sources ends at once; any other       *)
(* reaches the finalizer, unless it stays paused, a job failed for good or *)
(* a fault hit a gap between recording work as queued and queueing it.     *)
Stranded == severed \/ \E j \in Jobs : pc[j] = "failed"
Ended == finalize = "ready" \/ status \in Terminal \cup {"deleted"}
EventuallyFinalized == <>[](~paused) => <>(Ended \/ Stranded)

(* After a cancel request the crawl is cancelled, or the finalizer had     *)
(* already begun (CrawlsService.cancel: "a terminal status is set by them  *)
(* or the finalizer"), or there is no crawl left to cancel.                *)
CancelTerminates ==
  cancelled ~> (status \in {"cancelled", "deleted"} \/ finalize = "ready")

(* Counters, flags, queues and redelivered jobs together implement the     *)
(* plain barrier of CrawlBarrier: a page settles once, after it was        *)
(* announced, only a page still open announces others, and finalize is     *)
(* signalled once nothing is open.                                         *)
Barrier == INSTANCE CrawlBarrier WITH
  signalled <- finalize # "none", disturbed <- repeated

ImplementsBarrier == Barrier!Spec

-----------------------------------------------------------------------------
(* What a comment promises and the code does not keep.                     *)

(* FinalizeProcessor: "Runs once per crawl when all pages settle".         *)
FinalizesWhenSettled == finalize # "none" => announced \subseteq settled

=============================================================================
