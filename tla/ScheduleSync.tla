---------------------------- MODULE ScheduleSync ----------------------------
(***************************************************************************)
(* Crawl schedules of SEO Guardian.  The schedules table is the source of  *)
(* truth; the job schedulers BullMQ fires from are a projection of it that *)
(* SchedulerSyncService.reconcile brings up to date: when a worker starts, *)
(* hourly, and when the API asks for it after an edit.                     *)
(*                                                                         *)
(* A reconcile reads the table once and then works on what it read, one    *)
(* scheduler after the other, while the table changes and other workers    *)
(* reconcile too.                                                          *)
(***************************************************************************)
EXTENDS Integers, FiniteSets

CONSTANTS
  Schedules,    \* ids of schedules
  Crons,        \* cron expressions with their timezone
  NoCron,         \* no active row, or no job scheduler
  Reconcilers,  \* reconciles that may run at the same time
  MaxEdits,     \* bound: edits of the table
  MaxFaults     \* bound: deaths of a reconcile, and locks lost

ASSUME CronsAssumption == NoCron \notin Crons
ASSUME BoundsAssumption == {MaxEdits, MaxFaults} \subseteq Nat

VARIABLES
  rows,        \* Postgres: the cron of each active schedule, NoCron of any other
  registered,  \* BullMQ: the cron of each job scheduler, keyed by schedule id
  request,     \* the reconcile job the API asked for, one at a time
  due,         \* whether a timed reconcile waits: the hourly one, or a start
  asking,      \* edits written whose handler has not asked for a reconcile yet
  (* each reconcile: its place, what it read, the schedulers it has still to *)
  (* write or remove, and whether it works off the request                   *)
  stage, view, todo, requested,
  (* history: the reconciles that read the table after its last edit, those  *)
  (* of them no older one ran beside, the schedules without an active row at *)
  (* some moment since a reconcile read the table, and whether an edit is    *)
  (* still to be followed by a reconcile of the second kind                  *)
  fresh, clean, lapsed, dirty,
  edits, faults

jobs == <<request, due, asking>>
reconciles == <<stage, view, todo, requested>>
history == <<fresh, clean, lapsed, dirty>>
bounds == <<edits, faults>>

syncVars == <<rows, registered, jobs, reconciles, history, bounds>>

-----------------------------------------------------------------------------

Live(r) == stage[r] # "idle"
ActiveIn(table) == {s \in Schedules : table[s] # NoCron}

Table == [Schedules -> Crons \cup {NoCron}]
NoRows == [s \in Schedules |-> NoCron]

(* Some schedules exist and have been registered. *)
SyncInit ==
  /\ rows \in Table
  /\ registered = rows
  /\ request = "none" /\ due = FALSE /\ asking = 0
  /\ stage = [r \in Reconcilers |-> "idle"]
  /\ view = [r \in Reconcilers |-> NoRows]
  /\ todo = [r \in Reconcilers |-> {}]
  /\ requested = {}
  /\ fresh = {} /\ clean = {} /\ dirty = FALSE
  /\ lapsed = [r \in Reconcilers |-> {}]
  /\ edits = 0 /\ faults = 0

-----------------------------------------------------------------------------
(* SchedulesService: create, update and delete write the row, and ask for  *)
(* a reconcile after the audit entry.                                      *)

Edit(s) ==
  /\ edits < MaxEdits
  /\ rows' \in {[rows EXCEPT ![s] = c] : c \in Crons \cup {NoCron}}
  /\ asking' = asking + 1
  /\ fresh' = {} /\ clean' = {} /\ dirty' = TRUE
  /\ lapsed' = [r \in Reconcilers |->
                  IF Live(r) /\ rows'[s] = NoCron THEN lapsed[r] \cup {s} ELSE lapsed[r]]
  /\ edits' = edits + 1
  /\ UNCHANGED <<registered, request, due, reconciles, faults>>

(* The request is deduplicated until its job is over.  A queue out of      *)
(* reach is logged, and the edit stands.                                   *)
RequestScheduleReconcile ==
  /\ asking > 0
  /\ asking' = asking - 1
  /\ \/ request = "none" /\ request' = "waiting"
     \/ UNCHANGED request
  /\ UNCHANGED <<rows, registered, due, reconciles, history, bounds>>

(* The hour has come, or a worker starts. *)
Due ==
  /\ ~due
  /\ due' = TRUE
  /\ UNCHANGED <<rows, registered, request, asking, reconciles, history, bounds>>

-----------------------------------------------------------------------------
(* SchedulerSyncService.reconcile.                                         *)

ListAllActive(r) ==
  /\ ~Live(r)
  /\ \/ /\ request = "waiting" /\ request' = "active"
        /\ requested' = requested \cup {r}
        /\ UNCHANGED due
     \/ /\ due /\ due' = FALSE
        /\ UNCHANGED <<request, requested>>
  /\ stage' = [stage EXCEPT ![r] = "upsert"]
  /\ view' = [view EXCEPT ![r] = rows]
  /\ todo' = [todo EXCEPT ![r] = ActiveIn(rows)]
  /\ fresh' = fresh \cup {r}
  /\ clean' = (IF \A q \in Reconcilers : Live(q) => q \in fresh
               THEN clean \cup {r} ELSE clean)
  /\ lapsed' = [lapsed EXCEPT ![r] = Schedules \ ActiveIn(rows)]
  /\ UNCHANGED <<rows, registered, asking, dirty, bounds>>

(* Mutant: a scheduler that exists is left as it is.                       *)
UpsertMissing(r) ==
  /\ stage[r] = "upsert"
  /\ \E s \in todo[r] :
       /\ registered' = (IF registered[s] = NoCron
                         THEN [registered EXCEPT ![s] = view[r][s]] ELSE registered)
       /\ todo' = [todo EXCEPT ![r] = @ \ {s}]
  /\ UNCHANGED <<rows, jobs, stage, view, requested, history, bounds>>

UpsertJobScheduler(r) ==
  /\ stage[r] = "upsert"
  /\ \E s \in todo[r] :
       /\ registered' = [registered EXCEPT ![s] = view[r][s]]
       /\ todo' = [todo EXCEPT ![r] = @ \ {s}]
  /\ UNCHANGED <<rows, jobs, stage, view, requested, history, bounds>>

(* Mutant: schedulers that differ from what was read count as stale.       *)
GetJobSchedulersDiffering(r) ==
  /\ stage[r] = "upsert" /\ todo[r] = {}
  /\ stage' = [stage EXCEPT ![r] = "remove"]
  /\ todo' = [todo EXCEPT ![r] = {s \in ActiveIn(registered) : registered[s] # view[r][s]}]
  /\ view' = [view EXCEPT ![r] = NoRows]
  /\ UNCHANGED <<rows, registered, jobs, requested, history, bounds>>

(* What is registered now is compared with what was active then; the rest  *)
(* of what was read is of no more use.                                     *)
GetJobSchedulers(r) ==
  /\ stage[r] = "upsert" /\ todo[r] = {}
  /\ stage' = [stage EXCEPT ![r] = "remove"]
  /\ todo' = [todo EXCEPT ![r] = ActiveIn(registered) \ ActiveIn(view[r])]
  /\ view' = [view EXCEPT ![r] = NoRows]
  /\ UNCHANGED <<rows, registered, jobs, requested, history, bounds>>

RemoveJobScheduler(r) ==
  /\ stage[r] = "remove"
  /\ \E s \in todo[r] :
       /\ registered' = [registered EXCEPT ![s] = NoCron]
       /\ todo' = [todo EXCEPT ![r] = @ \ {s}]
  /\ UNCHANGED <<rows, jobs, stage, view, requested, history, bounds>>

(* A reconcile is over, with what it held in memory. *)
Leave(r) ==
  /\ stage' = [stage EXCEPT ![r] = "idle"]
  /\ view' = [view EXCEPT ![r] = NoRows]
  /\ todo' = [todo EXCEPT ![r] = {}]
  /\ requested' = requested \ {r}
  /\ fresh' = fresh \ {r} /\ clean' = clean \ {r}
  /\ lapsed' = [lapsed EXCEPT ![r] = {}]

(* Mutant: the request's job is kept when it completes.                    *)
FinishKept(r) ==
  /\ stage[r] = "remove" /\ todo[r] = {}
  /\ Leave(r)
  /\ request' = (IF r \in requested THEN "completed" ELSE request)
  /\ dirty' = (dirty /\ r \notin clean)
  /\ UNCHANGED <<rows, registered, due, asking, bounds>>

Finish(r) ==
  /\ stage[r] = "remove" /\ todo[r] = {}
  /\ Leave(r)
  /\ request' = (IF r \in requested THEN "none" ELSE request)
  /\ dirty' = (dirty /\ r \notin clean)
  /\ UNCHANGED <<rows, registered, due, asking, bounds>>

(* A reconcile throws or its worker dies: its job is retried or fails, and *)
(* a start that fails is tried again.                                      *)
Die(r) ==
  /\ Live(r) /\ faults < MaxFaults
  /\ Leave(r)
  /\ IF r \in requested
     THEN request' \in {"waiting", "none"} /\ UNCHANGED due
     ELSE due' \in {TRUE, due} /\ UNCHANGED request
  /\ faults' = faults + 1
  /\ UNCHANGED <<rows, registered, asking, dirty, edits>>

(* A worker loses the lock of the request's job and goes on with it, while *)
(* the job is delivered again or fails.                                    *)
Stall(r) ==
  /\ r \in requested /\ faults < MaxFaults
  /\ request' \in {"waiting", "none"}
  /\ requested' = requested \ {r}
  /\ faults' = faults + 1
  /\ UNCHANGED <<rows, registered, due, asking, stage, view, todo, history, edits>>

-----------------------------------------------------------------------------

Reconcile(r) ==
  \/ ListAllActive(r) \/ UpsertJobScheduler(r) \/ GetJobSchedulers(r)
  \/ RemoveJobScheduler(r) \/ Finish(r)

SyncNext ==
  \/ \E s \in Schedules : Edit(s)
  \/ RequestScheduleReconcile
  \/ Due
  \/ \E r \in Reconcilers : Reconcile(r) \/ Die(r) \/ Stall(r)

Safe == SyncInit /\ [][SyncNext]_syncVars

(* The timer goes on and workers take jobs; nobody has to edit a schedule  *)
(* or to ask.                                                              *)
Fairness ==
  /\ WF_syncVars(Due)
  /\ \A r \in Reconcilers : WF_syncVars(Reconcile(r))

SyncSpec == Safe /\ Fairness

-----------------------------------------------------------------------------
(* Correctness.                                                            *)

SyncTypeOK ==
  /\ rows \in Table /\ registered \in Table
  /\ request \in {"none", "waiting", "active"}
  /\ due \in BOOLEAN /\ dirty \in BOOLEAN
  /\ {asking, edits, faults} \subseteq Nat
  /\ stage \in [Reconcilers -> {"idle", "upsert", "remove"}]
  /\ view \in [Reconcilers -> Table]
  /\ todo \in [Reconcilers -> SUBSET Schedules]
  /\ lapsed \in [Reconcilers -> SUBSET Schedules]
  /\ requested \subseteq Reconcilers
  /\ fresh \subseteq Reconcilers /\ clean \subseteq Reconcilers

(* Once a reconcile that read the table after its last edit has finished,  *)
(* and none that read it before ran beside it, exactly the active schedules *)
(* are registered, each with its cron, and they stay so until the next edit *)
(* (SchedulerSyncService: "converges the projection").                     *)
InSync == ~dirty => registered = rows

(* A job scheduler is only ever removed by a reconcile during which its    *)
(* schedule was deleted or paused, or had not been created yet: an active  *)
(* schedule left alone keeps firing, whatever reconciles run at once.      *)
RemovesOnlyLapsed ==
  [][\A s \in Schedules : registered[s] # NoCron /\ registered'[s] = NoCron =>
       \E r \in Reconcilers : stage[r] = "remove" /\ s \in lapsed[r]]_syncVars

(* Whatever edits, lost requests and deaths there were, the projection     *)
(* converges when they end (the pipeline's document: hourly, "fixes drift  *)
(* after edits").                                                          *)
Converges == <>[](registered = rows)

=============================================================================
