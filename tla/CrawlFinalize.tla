---------------------------- MODULE CrawlFinalize ----------------------------
(***************************************************************************)
(* The finalizer of SEO Guardian, for one crawl whose pages have settled   *)
(* and whose link batches have drained (module PagePipeline): cross-page   *)
(* issues, scores, schema changes, aggregates and the terminal status, the *)
(* watchdog that re-drives a finalize job that died, and the operator's    *)
(* late pause, resume and cancel.                                          *)
(*                                                                         *)
(* The handler is cut at every statement it awaits.  Its worker may die or *)
(* throw at each, and a worker that only lost its lock goes on next to the *)
(* one that took the job over.  Issue rows are those of one page carried   *)
(* forward from the previous crawl; per check their number is told apart   *)
(* up to two.                                                              *)
(***************************************************************************)
EXTENDS Integers, Sequences

CONSTANTS
  Slots,        \* executions of the handler that may overlap
  Duplicates,   \* the duplicate checks, in order: title, description, h1
  LinkBased,    \* the checks on link_checks, in order: links, images, redirects
  Own,          \* whether the page has issues of its own rules
  Carried,      \* checks the page was carried forward with
  Found,        \* checks that find the page now
  Changes,      \* INSERTs of schema changes against the previous crawl
  Trends,       \* the trend tables this crawl writes
  MaxAttempts,  \* DEFAULT_JOB_OPTIONS.attempts
  MaxStalled,   \* the processor's maxStalledCount
  Controls,     \* control endpoints in use: "pause", "resume", "cancel"
  Lingering,    \* steps at which a worker may lose its lock and go on
  MaxFaults,    \* bound: deaths of an execution
  MaxControls   \* bound: control requests

Rows(checks) == {checks[i] : i \in DOMAIN checks}
Checks == Rows(Duplicates) \cup Rows(LinkBased)

ASSUME ChecksAssumption ==
  /\ Duplicates \in Seq(Rows(Duplicates)) \ {<<>>}
  /\ LinkBased \in Seq(Rows(LinkBased)) \ {<<>>}

ASSUME PageAssumption ==
  /\ Own \in BOOLEAN
  /\ Carried \subseteq Checks /\ Found \subseteq Checks

ASSUME FinalizeAssumption ==
  /\ Changes \in Nat
  /\ Trends \in {<<"site">>, <<"site", "group">>}
  /\ MaxAttempts \in Nat \ {0}
  /\ {MaxStalled, MaxFaults, MaxControls} \subseteq Nat
  /\ Controls \subseteq {"pause", "resume", "cancel"}
  /\ Slots \subseteq Nat /\ Slots # {}

Terminal == {"completed", "cancelled"}
Controllable == {"running", "paused"}
Statuses == Terminal \cup Controllable \cup {"finalizing"}

(* Where an execution stands, in the order the handler goes. *)
Steps == {"begin", "duplicates", "clear", "insert", "rescore", "changes", "measure",
          "aggregate", "trend", "complete", "cleanup", "ack"}

(* A page's issues: the carried ones left and the copies inserted anew. *)
Issues == [old : SUBSET Checks, new : [Checks -> 0 .. 2]]
NoIssues == [old |-> {}, new |-> [c \in Checks |-> 0]]

VARIABLES
  (* the finalize job, its failed attempts and stalls, and who holds it *)
  job, tries, stalls, holder,
  (* the executions: place, position in the current list, metrics read *)
  pc, at, metrics,
  (* Postgres: crawls, page_issues, the score of the page, crawl_changes, *)
  (* crawl_aggregates and the trend tables                                *)
  status, finished, issues, score, changes, aggregate, trend,
  (* Redis: the cancel flag, and the keys that cleanup deletes *)
  cancelled, keys,
  (* the watchdog's sweep and the control request in progress *)
  sweep, api,
  (* history: whether two executions ever overlapped; bounded actions *)
  overlapped, faults, controls

queue == <<job, tries, stalls, holder>>
runs == <<pc, at, metrics>>
crawl == <<status, finished>>
rows == <<issues, score, changes, aggregate, trend>>
redis == <<cancelled, keys>>
bounds == <<faults, controls>>

vars == <<queue, runs, crawl, rows, redis, sweep, api, overlapped, bounds>>

-----------------------------------------------------------------------------

(* finishPage has flushed the stats and signalled finalize. *)
Init ==
  /\ job = "waiting" /\ tries = 0 /\ stalls = 0
  /\ holder = {}
  /\ pc = [r \in Slots |-> "free"]
  /\ at = [r \in Slots |-> 1]
  /\ metrics = [r \in Slots |-> NoIssues]
  /\ status = "running" /\ finished = FALSE
  /\ issues = [NoIssues EXCEPT !.old = Carried]
  /\ score = [NoIssues EXCEPT !.old = Carried]
  /\ changes = [i \in 1 .. Changes |-> 0]
  /\ aggregate = NoIssues
  /\ trend = [t \in Rows(Trends) |-> NoIssues]
  /\ cancelled = FALSE
  /\ keys = TRUE
  /\ sweep = "idle"
  /\ api = "idle"
  /\ overlapped = FALSE
  /\ faults = 0 /\ controls = 0

SetStatus(to) ==
  /\ status' = to
  /\ finished' = (finished \/ to \in Terminal)

More(n) == IF n < 2 THEN n + 1 ELSE n

(* Execution r goes on at a step, from the first entry of that step's list. *)
Goto(r, step) ==
  /\ pc' = [pc EXCEPT ![r] = step]
  /\ at' = [at EXCEPT ![r] = 1]

(* Execution r goes on with the next entry of its list, or past its end.    *)
Advance(r, size, again, done) ==
  IF at[r] < size
  THEN pc' = [pc EXCEPT ![r] = again] /\ at' = [at EXCEPT ![r] = @ + 1]
  ELSE Goto(r, done)

(* Execution r is over, with what it held in memory. *)
Release(r) ==
  /\ Goto(r, "free")
  /\ metrics' = [metrics EXCEPT ![r] = NoIssues]

-----------------------------------------------------------------------------
(* BullMQ: delivery, and the end of a job for the worker that holds it.    *)

(* An execution takes the first free slot: slots have no meaning.          *)
Deliver(r) ==
  /\ job = "waiting"
  /\ pc[r] = "free" /\ \A q \in Slots : q < r => pc[q] # "free"
  /\ job' = "active"
  /\ holder' = {r}
  /\ Goto(r, "begin")
  /\ overlapped' = (overlapped \/ \E q \in Slots : pc[q] # "free")
  /\ UNCHANGED <<tries, stalls, metrics, crawl, rows, redis, sweep, api, bounds>>

(* The backoff of a failed attempt is over. *)
Promote ==
  /\ job = "delayed"
  /\ job' = "waiting"
  /\ UNCHANGED <<tries, stalls, holder, runs, crawl, rows, redis, sweep, api,
                 overlapped, bounds>>

(* A worker that lost the job is refused when it reports its end. *)
Ack(r) ==
  /\ pc[r] = "ack"
  /\ IF r \in holder THEN job' = "completed" ELSE UNCHANGED job
  /\ holder' = holder \ {r}
  /\ Release(r)
  /\ UNCHANGED <<tries, stalls, crawl, rows, redis, sweep, api, overlapped, bounds>>

-----------------------------------------------------------------------------
(* FinalizeProcessor.process, from its decision on.                        *)

(* A cancelled crawl ends here, its keys deleted a statement later; nothing *)
(* reads them in between.                                                  *)
Begin(r) ==
  /\ pc[r] = "begin"
  /\ IF cancelled
     THEN SetStatus("cancelled") /\ keys' = FALSE /\ Goto(r, "ack")
     ELSE SetStatus("finalizing") /\ Goto(r, "duplicates") /\ UNCHANGED keys
  /\ UNCHANGED <<queue, metrics, rows, cancelled, sweep, api, overlapped, bounds>>

Cleared(c) == [old |-> issues.old \ {c}, new |-> [issues.new EXCEPT ![c] = 0]]

(* insertDuplicateIssues is one transaction: delete, then insert. *)
InsertDuplicateIssues(r) ==
  LET c == Duplicates[at[r]] IN
  /\ pc[r] = "duplicates"
  /\ issues' = (IF c \in Found THEN [Cleared(c) EXCEPT !.new[c] = 1] ELSE Cleared(c))
  /\ Advance(r, Len(Duplicates), "duplicates", "clear")
  /\ UNCHANGED <<queue, metrics, crawl, score, changes, aggregate, trend, redis, sweep,
                 api, overlapped, bounds>>

(* Mutant: the issues of an earlier attempt stay.                          *)
ClearChecksForgotten(r) ==
  /\ pc[r] = "clear"
  /\ pc' = [pc EXCEPT ![r] = "insert"]
  /\ UNCHANGED <<queue, at, metrics, crawl, rows, redis, sweep, api, overlapped, bounds>>

(* The link-based checks delete and insert in two statements. *)
ClearChecks(r) ==
  /\ pc[r] = "clear"
  /\ issues' = Cleared(LinkBased[at[r]])
  /\ pc' = [pc EXCEPT ![r] = "insert"]
  /\ UNCHANGED <<queue, at, metrics, crawl, score, changes, aggregate, trend, redis,
                 sweep, api, overlapped, bounds>>

InsertLinkIssues(r) ==
  LET c == LinkBased[at[r]] IN
  /\ pc[r] = "insert"
  /\ issues' = (IF c \in Found THEN [issues EXCEPT !.new[c] = More(@)] ELSE issues)
  /\ Advance(r, Len(LinkBased), "clear", "rescore")
  /\ UNCHANGED <<queue, metrics, crawl, score, changes, aggregate, trend, redis, sweep,
                 api, overlapped, bounds>>

(* Mutant: scores keep what the page's own rules deducted.                 *)
RecomputeSnapshotScoresSkipped(r) ==
  /\ pc[r] = "rescore"
  /\ Goto(r, IF Changes = 0 THEN "measure" ELSE "changes")
  /\ UNCHANGED <<queue, metrics, crawl, rows, redis, sweep, api, overlapped, bounds>>

(* The updates join page_issues: a page without a row keeps its score. *)
RecomputeSnapshotScores(r) ==
  /\ pc[r] = "rescore"
  /\ score' = (IF Own \/ issues # NoIssues THEN issues ELSE score)
  /\ Goto(r, IF Changes = 0 THEN "measure" ELSE "changes")
  /\ UNCHANGED <<queue, metrics, crawl, issues, changes, aggregate, trend, redis, sweep,
                 api, overlapped, bounds>>

(* Mutant: the last batch of changes is left out.                          *)
DetectSchemaChangesShort(r) ==
  /\ pc[r] = "changes"
  /\ changes' = (IF at[r] < Changes THEN [changes EXCEPT ![at[r]] = More(@)] ELSE changes)
  /\ Advance(r, Changes, "changes", "measure")
  /\ UNCHANGED <<queue, metrics, crawl, issues, score, aggregate, trend, redis, sweep,
                 api, overlapped, bounds>>

(* One INSERT after another, none of them after a delete. *)
DetectSchemaChanges(r) ==
  /\ pc[r] = "changes"
  /\ changes' = [changes EXCEPT ![at[r]] = More(@)]
  /\ Advance(r, Changes, "changes", "measure")
  /\ UNCHANGED <<queue, metrics, crawl, issues, score, aggregate, trend, redis, sweep,
                 api, overlapped, bounds>>

(* computeAggregates reads the scores and counts once ... *)
ScoreComponents(r) ==
  /\ pc[r] = "measure"
  /\ metrics' = [metrics EXCEPT ![r] = score]
  /\ Goto(r, "aggregate")
  /\ UNCHANGED <<queue, crawl, rows, redis, sweep, api, overlapped, bounds>>

(* ... and upserts what it read into one table after the other. *)
UpsertAggregate(r) ==
  /\ pc[r] = "aggregate"
  /\ aggregate' = metrics[r]
  /\ Goto(r, "trend")
  /\ UNCHANGED <<queue, metrics, crawl, issues, score, changes, trend, redis, sweep, api,
                 overlapped, bounds>>

UpsertTrend(r) ==
  /\ pc[r] = "trend"
  /\ trend' = [trend EXCEPT ![Trends[at[r]]] = metrics[r]]
  /\ Advance(r, Len(Trends), "trend", "complete")
  /\ UNCHANGED <<queue, metrics, crawl, issues, score, changes, aggregate, redis, sweep,
                 api, overlapped, bounds>>

Complete(r) ==
  /\ pc[r] = "complete"
  /\ SetStatus("completed")
  /\ Goto(r, "cleanup")
  /\ UNCHANGED <<queue, metrics, rows, redis, sweep, api, overlapped, bounds>>

Cleanup(r) ==
  /\ pc[r] = "cleanup"
  /\ keys' = FALSE
  /\ Goto(r, "ack")
  /\ UNCHANGED <<queue, metrics, crawl, rows, cancelled, sweep, api, overlapped, bounds>>

-----------------------------------------------------------------------------
(* An execution ends early.  A handler that throws uses up an attempt; a   *)
(* worker that does not renew its lock stalls the job, dead or not.        *)

Throw(r) ==
  /\ pc[r] \in Steps \ {"ack"}
  /\ Release(r)
  /\ IF r \in holder
     THEN /\ tries' = tries + 1
          /\ job' = (IF tries + 1 < MaxAttempts THEN "delayed" ELSE "failed")
          /\ holder' = {}
     ELSE UNCHANGED <<job, tries, holder>>
  /\ UNCHANGED stalls

(* Mutant: the stalled job still counts as the lost worker's.              *)
StallHeld(r) ==
  /\ r \in holder
  /\ Release(r) \/ (pc[r] \in Lingering /\ UNCHANGED runs)
  /\ stalls' = stalls + 1
  /\ job' = (IF stalls + 1 <= MaxStalled THEN "waiting" ELSE "failed")
  /\ UNCHANGED <<tries, holder>>

Stall(r) ==
  /\ r \in holder
  /\ Release(r) \/ (pc[r] \in Lingering /\ UNCHANGED runs)
  /\ stalls' = stalls + 1
  /\ job' = (IF stalls + 1 <= MaxStalled THEN "waiting" ELSE "failed")
  /\ holder' = {}
  /\ UNCHANGED tries

Fault(r) ==
  /\ faults < MaxFaults
  /\ Throw(r) \/ Stall(r)
  /\ faults' = faults + 1
  /\ UNCHANGED <<crawl, rows, redis, sweep, api, overlapped, controls>>

-----------------------------------------------------------------------------
(* The watchdog.  The stats of a crawl in this module are complete.        *)

FindStuckFinalizing ==
  /\ sweep = "idle"
  /\ status \in {"finalizing", "running"} /\ ~finished
  /\ sweep' = "look"
  /\ UNCHANGED <<queue, runs, crawl, rows, redis, api, overlapped, bounds>>

(* Mutant: a failed job is taken for one in flight.                        *)
RedriveLookTimid ==
  /\ sweep = "look"
  /\ sweep' = (IF job = "none" THEN "add" ELSE "idle")
  /\ UNCHANGED <<queue, runs, crawl, rows, redis, api, overlapped, bounds>>

(* A finalize job has a priority, so BullMQ calls it "prioritized" and not *)
(* "waiting" while it waits, and it is not left alone.                     *)
RedriveLook ==
  /\ sweep = "look"
  /\ sweep' = CASE job \in {"active", "delayed"} -> "idle"
                [] job = "none" -> "add"
                [] OTHER -> "remove"
  /\ UNCHANGED <<queue, runs, crawl, rows, redis, api, overlapped, bounds>>

(* The state may have changed since: an active job cannot be removed, and  *)
(* the sweep throws.                                                       *)
RedriveRemove ==
  /\ sweep = "remove"
  /\ IF job = "active" THEN sweep' = "idle" /\ UNCHANGED job
     ELSE sweep' = "add" /\ job' = "none"
  /\ UNCHANGED <<tries, stalls, holder, runs, crawl, rows, redis, api, overlapped,
                 bounds>>

RedriveAdd ==
  /\ sweep = "add"
  /\ sweep' = "idle"
  /\ job' = "waiting" /\ tries' = 0 /\ stalls' = 0
  /\ UNCHANGED <<holder, runs, crawl, rows, redis, api, overlapped, bounds>>

-----------------------------------------------------------------------------
(* Control requests that were admitted just before the finalizer began.    *)

Request(op) ==
  /\ api = "idle" /\ op \in Controls /\ controls < MaxControls
  /\ IF op = "resume" THEN status = "paused" ELSE status \in Controllable
  /\ api' = op
  /\ controls' = controls + 1
  /\ UNCHANGED <<queue, runs, crawl, rows, redis, sweep, overlapped, faults>>

(* The paused flag is not looked at any more; the status is. *)
PauseOrResume ==
  /\ api \in {"pause", "resume"}
  /\ SetStatus(IF api = "pause" THEN "paused" ELSE "running")
  /\ api' = "idle"
  /\ UNCHANGED <<queue, runs, rows, redis, sweep, overlapped, bounds>>

Cancel ==
  /\ api = "cancel"
  /\ cancelled' = TRUE
  /\ api' = "idle"
  /\ UNCHANGED <<queue, runs, crawl, rows, keys, sweep, overlapped, bounds>>

-----------------------------------------------------------------------------

Process(r) ==
  \/ Begin(r) \/ InsertDuplicateIssues(r) \/ ClearChecks(r) \/ InsertLinkIssues(r)
  \/ RecomputeSnapshotScores(r) \/ DetectSchemaChanges(r) \/ ScoreComponents(r)
  \/ UpsertAggregate(r) \/ UpsertTrend(r) \/ Complete(r) \/ Cleanup(r)

Redrive == RedriveLook \/ RedriveRemove \/ RedriveAdd

Next ==
  \/ \E r \in Slots : Deliver(r) \/ Process(r) \/ Ack(r) \/ Fault(r)
  \/ Promote
  \/ FindStuckFinalizing
  \/ Redrive
  \/ \E op \in Controls : Request(op)
  \/ PauseOrResume
  \/ Cancel

Safe == Init /\ [][Next]_vars

(* Workers keep taking jobs and the maintenance schedule keeps sweeping.   *)
(* A sweep takes a waiting job off the queue for a moment, every couple of *)
(* minutes, so a worker that keeps asking gets the job between two sweeps: *)
(* strong fairness for delivery.                                           *)
Fairness ==
  /\ SF_vars(\E r \in Slots : Deliver(r))
  /\ \A r \in Slots : WF_vars(Process(r)) /\ WF_vars(Ack(r))
  /\ WF_vars(Promote)
  /\ WF_vars(FindStuckFinalizing)
  /\ WF_vars(Redrive)
  /\ WF_vars(PauseOrResume)
  /\ WF_vars(Cancel)

Spec == Safe /\ Fairness

-----------------------------------------------------------------------------
(* Correctness.                                                            *)

QueueType ==
  /\ job \in {"none", "waiting", "delayed", "active", "failed", "completed"}
  /\ tries \in Nat /\ stalls \in Nat
  /\ holder \subseteq Slots
  /\ job = "active" <=> \E r \in Slots : holder = {r}
  /\ job # "active" => holder = {}

RunType ==
  /\ pc \in [Slots -> Steps \cup {"free"}]
  /\ at \in [Slots -> Nat \ {0}]
  /\ metrics \in [Slots -> Issues]

RowType ==
  /\ status \in Statuses /\ finished \in BOOLEAN
  /\ {issues, score, aggregate} \subseteq Issues
  /\ changes \in [1 .. Changes -> 0 .. 2]
  /\ trend \in [Rows(Trends) -> Issues]

TypeOK ==
  /\ QueueType /\ RunType /\ RowType
  /\ cancelled \in BOOLEAN /\ keys \in BOOLEAN /\ overlapped \in BOOLEAN
  /\ sweep \in {"idle", "look", "remove", "add"}
  /\ api \in {"idle"} \cup Controls
  /\ faults \in Nat /\ controls \in Nat

(* A completed crawl has each cross-page issue once and none of the ones   *)
(* it was carried forward with, however often finalize was cut short and   *)
(* started over (FinalizeProcessor: "duplicate/broken issues are cleared   *)
(* first"), unless two executions overlapped.                              *)
DerivedOnce ==
  status = "completed" /\ ~overlapped =>
    issues = [old |-> {}, new |-> [c \in Checks |-> IF c \in Found THEN 1 ELSE 0]]

(* The aggregates and the trends of a completed crawl were computed from   *)
(* scores that counted every issue it ended with (FinalizeProcessor: "or   *)
(* the site average is a mean of stale numbers").                          *)
AggregateTells ==
  status = "completed" /\ ~overlapped =>
    aggregate = issues /\ \A t \in DOMAIN trend : trend[t] = issues

(* No schema change is lost to a crash: a completed crawl recorded each at *)
(* least once, also where executions overlapped.                           *)
ChangesKept == status = "completed" => \A i \in DOMAIN changes : changes[i] > 0

(* A settled crawl becomes terminal although finalize jobs die, for good   *)
(* even, unless an operator leaves it paused (MaintenanceProcessor:        *)
(* "Recover crawls whose finalize died").                                  *)
Recovers == <>[](status # "paused") => <>(status \in Terminal)

=============================================================================
