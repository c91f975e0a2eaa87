------------------------ MODULE PagePipelineProofs ------------------------
(***************************************************************************)
(* Proofs about PagePipeline, for every website, every bound and every     *)
(* choice of faults and control requests.                                  *)
(*                                                                         *)
(* The first part proves type correctness, one lemma per action; the only  *)
(* strengthening is TodoInv, which keeps links apart from link targets     *)
(* while a handler works them off.  The second part proves what finalize   *)
(* and the watchdog rely on, the third what they find in the tables; their *)
(* invariants, Exact, Told and Linked, are explained there.                *)
(***************************************************************************)
EXTENDS PagePipeline, TLAPS, FiniteSetTheorems

USE DEF queue, memory, data, rows, counters, sets, flags, history, bounds

-----------------------------------------------------------------------------
(* Type correctness.                                                       *)

TodoInv == \A j \in PageJobs : pc[j] = "discover" => todo[j] \subseteq Pages
TypeInv == TypeOK /\ TodoInv

(* The jobs of pages and of links are disjoint, and each names its page or *)
(* link.                                                                   *)
LEMMA JobTypes ==
  /\ \A j \in PageJobs : j \in Jobs /\ Page(j) \in Pages
  /\ \A j \in LinkJobs : j \in Jobs /\ j \notin PageJobs /\ Url(j) \in Urls
  /\ \A p \in Pages : <<"fetch", p>> \in PageJobs /\ <<"render", p>> \in PageJobs
                      /\ <<"retry", p>> \in PageJobs
  /\ Orchestrate \in Jobs /\ Orchestrate \notin PageJobs
  BY DEF PageJobs, LinkJobs, Orchestrate, Jobs, Page, Url

(* A page job is the fetch, the render or the retry of its page.           *)
LEMMA PageJobKinds ==
  \A j \in PageJobs :
    j \in {<<"fetch", Page(j)>>, <<"render", Page(j)>>, <<"retry", Page(j)>>}
  BY DEF PageJobs, Page

(* Whatever a handler sets, the crawl row keeps a status of the enum.      *)
LEMMA StatusType ==
  ASSUME RowType, NEW to \in Statuses, SetStatus(to)
  PROVE  status' \in Statuses /\ finished' \in BOOLEAN
  BY DEF RowType, SetStatus

(* What a handler has left to do can be counted.                            *)
LEMMA FiniteTodo ==
  ASSUME NEW S \in SUBSET (Pages \cup Urls)
  PROVE  IsFiniteSet(S) /\ Cardinality(S) \in Nat
  BY PagesAssumption, LinksAssumption, FS_Union, FS_Subset, FS_CardinalityType

(* The seeds, which the orchestrator counts, are finitely many.            *)
LEMMA FiniteSeeds == Cardinality(Seeds) \in Nat
  BY PagesAssumption, FiniteTodo

(* A job that moves to a label leaves the queue well typed; unless it goes *)
(* on to discover links, so is what it has left to do.                     *)
LEMMA GotoType ==
  ASSUME TypeInv, NEW j \in Jobs, NEW label \in Labels, Goto(j, label),
         UNCHANGED <<tries, stalls>>
  PROVE  /\ QueueType'
         /\ label # "discover" /\ UNCHANGED todo => TodoInv'
  BY JobTypes DEF TypeInv, TypeOK, QueueType, TodoInv, Goto

(* The orchestrator as it starts keeps every variable in its type.         *)
LEMMA OrchestrateStartType ==
  ASSUME TypeInv, OrchestrateStart
  PROVE  TypeInv'
<1> USE DEF TypeInv, TypeOK, OrchestrateStart
<1>1. QueueType' /\ TodoInv'
  BY JobTypes DEF QueueType, TodoInv, MemoryType, Goto, Labels, Live, OrchestrateSteps,
     ProcessSteps, FinishSteps, LinkSteps
<1>2. RowType'
  BY StatusType DEF RowType, Statuses, SetStatus
<1>3. MemoryType' /\ DataType' /\ CounterType' /\ FlagType' /\ HistoryType'
  BY DEF MemoryType, DataType, CounterType, FlagType, HistoryType
<1>4. QED  BY <1>1, <1>2, <1>3

(* The resolution of the seeds keeps every variable in its type.           *)
LEMMA ResolveType ==
  ASSUME TypeInv, Resolve
  PROVE  TypeInv'
<1> USE DEF TypeInv, TypeOK, Resolve
<1>1. QueueType' /\ TodoInv'
  BY JobTypes DEF QueueType, TodoInv, MemoryType, Goto, Labels, Live, OrchestrateSteps,
     ProcessSteps, FinishSteps, LinkSteps
<1>2. RowType'
  BY StatusType DEF RowType, Statuses, SetStatus
<1>3. CounterType'
  BY DEF CounterType, InitCounters, NoCounts, Outcomes
<1>4. MemoryType' /\ DataType' /\ FlagType' /\ HistoryType'
  BY DEF MemoryType, DataType, FlagType, HistoryType
<1>5. QED  BY <1>1, <1>2, <1>3, <1>4

(* The counters' start from the seeds keeps every variable in its type.    *)
LEMMA SeedCountersType ==
  ASSUME TypeInv, SeedCounters
  PROVE  TypeInv'
<1> USE DEF TypeInv, TypeOK, SeedCounters
<1>1. QueueType' /\ TodoInv'
  BY JobTypes DEF QueueType, TodoInv, MemoryType, Goto, Labels, Live, OrchestrateSteps,
     ProcessSteps, FinishSteps, LinkSteps
<1>2. CounterType'
  BY FiniteSeeds DEF CounterType, InitCounters, NoCounts, Outcomes
<1>3. HistoryType'
  BY PagesAssumption DEF HistoryType
<1>4. MemoryType' /\ DataType' /\ RowType' /\ FlagType'
  BY DEF MemoryType, DataType, RowType, FlagType
<1>5. QED  BY <1>1, <1>2, <1>3, <1>4

(* The status running keeps every variable in its type.                    *)
LEMMA SetRunningType ==
  ASSUME TypeInv, SetRunning
  PROVE  TypeInv'
<1> USE DEF TypeInv, TypeOK, SetRunning
<1>1. QueueType' /\ TodoInv'
  BY JobTypes DEF QueueType, TodoInv, MemoryType, Goto, Labels, Live, OrchestrateSteps,
     ProcessSteps, FinishSteps, LinkSteps
<1>2. RowType'
  BY StatusType DEF RowType, Statuses, SetStatus
<1>3. MemoryType' /\ DataType' /\ CounterType' /\ FlagType' /\ HistoryType'
  BY DEF MemoryType, DataType, CounterType, FlagType, HistoryType
<1>4. QED  BY <1>1, <1>2, <1>3

(* The reset of the stats of the row keeps every variable in its type.     *)
LEMMA ResetStatsType ==
  ASSUME TypeInv, ResetStats
  PROVE  TypeInv'
<1> USE DEF TypeInv, TypeOK, ResetStats
<1>1. QueueType' /\ TodoInv'
  BY JobTypes DEF QueueType, TodoInv, MemoryType, Goto, Labels, Live, OrchestrateSteps,
     ProcessSteps, FinishSteps, LinkSteps
<1>2. RowType'
  BY FiniteSeeds DEF RowType
<1>3. MemoryType' /\ DataType' /\ CounterType' /\ FlagType' /\ HistoryType'
  BY DEF MemoryType, DataType, CounterType, FlagType, HistoryType
<1>4. QED  BY <1>1, <1>2, <1>3

(* The fan-out of the fetches keeps every variable in its type.            *)
LEMMA FanOutType ==
  ASSUME TypeInv, FanOut
  PROVE  TypeInv'
<1> USE DEF TypeInv, TypeOK, FanOut
<1>1. QueueType' /\ TodoInv'
  BY JobTypes DEF QueueType, TodoInv, MemoryType, Labels, Live, OrchestrateSteps,
     ProcessSteps, FinishSteps, LinkSteps
<1>2. CounterType'
  BY PagesAssumption DEF CounterType
<1>3. MemoryType' /\ DataType' /\ RowType' /\ FlagType' /\ HistoryType'
  BY DEF MemoryType, DataType, RowType, FlagType, HistoryType
<1>4. QED  BY <1>1, <1>2, <1>3

(* A fetch that processPage begins keeps every variable in its type.       *)
LEMMA ProcessFetchType ==
  ASSUME TypeInv, NEW j \in PageJobs, ProcessFetch(j)
  PROVE  TypeInv'
<1> USE DEF TypeInv, TypeOK, ProcessFetch
<1>a. PICK answer \in {"body", "failed", "unchanged"} :
        Goto(j, "record") \/ Goto(j, "waiting") \/ Goto(j, Branch(j, answer))
  BY DEF Answers
<1>b. PICK label \in {"record", "waiting", "carry", "error", "route", "persist"} :
        Goto(j, label)
  BY <1>a DEF Branch
<1>1. QueueType' /\ TodoInv'
  BY <1>b, GotoType, JobTypes DEF Labels, Live, ProcessSteps
<1>2. MemoryType' /\ DataType' /\ RowType' /\ CounterType' /\ FlagType' /\ HistoryType'
  BY DEF MemoryType, DataType, RowType, CounterType, FlagType, HistoryType
<1>3. QED  BY <1>1, <1>2

(* A render that begins keeps every variable in its type.                  *)
LEMMA BeginRenderType ==
  ASSUME TypeInv, NEW j \in PageJobs, BeginRender(j)
  PROVE  TypeInv'
<1> USE DEF TypeInv, TypeOK, BeginRender
<1>1. QueueType' /\ TodoInv'
  BY JobTypes DEF QueueType, TodoInv, MemoryType, Goto, Labels, Live, OrchestrateSteps,
     ProcessSteps, FinishSteps, LinkSteps
<1>2. MemoryType' /\ DataType' /\ RowType' /\ CounterType' /\ FlagType' /\ HistoryType'
  BY DEF MemoryType, DataType, RowType, CounterType, FlagType, HistoryType
<1>3. QED  BY <1>1, <1>2

(* A page that was rendered keeps every variable in its type.              *)
LEMMA ProcessRenderedType ==
  ASSUME TypeInv, NEW j \in PageJobs, ProcessRendered(j)
  PROVE  TypeInv'
<1> USE DEF TypeInv, TypeOK, ProcessRendered
<1>a. PICK answer \in {"body", "failed", "unchanged"} :
        Goto(j, "record") \/ Goto(j, "waiting") \/ Goto(j, Branch(j, answer))
  BY DEF Answers
<1>b. PICK label \in {"record", "waiting", "carry", "error", "route", "persist"} :
        Goto(j, label)
  BY <1>a DEF Branch
<1>1. QueueType' /\ TodoInv'
  BY <1>b, GotoType, JobTypes DEF Labels, Live, ProcessSteps
<1>2. MemoryType' /\ DataType' /\ RowType' /\ CounterType' /\ FlagType' /\ HistoryType'
  BY DEF MemoryType, DataType, RowType, CounterType, FlagType, HistoryType
<1>3. QED  BY <1>1, <1>2

(* The routing of a page to its render keeps every variable in its type.   *)
LEMMA EnqueueRenderType ==
  ASSUME TypeInv, NEW j \in PageJobs, EnqueueRender(j)
  PROVE  TypeInv'
<1> USE DEF TypeInv, TypeOK, EnqueueRender
<1>1. QueueType' /\ TodoInv'
  BY JobTypes DEF QueueType, TodoInv, MemoryType, Labels, Live, OrchestrateSteps,
     ProcessSteps, FinishSteps, LinkSteps
<1>2. DataType'
  BY JobTypes DEF DataType
<1>3. MemoryType' /\ RowType' /\ CounterType' /\ FlagType' /\ HistoryType'
  BY DEF MemoryType, RowType, CounterType, FlagType, HistoryType
<1>4. QED  BY <1>1, <1>2, <1>3

(* The carry-forward of a snapshot keeps every variable in its type.       *)
LEMMA CarryForwardType ==
  ASSUME TypeInv, NEW j \in PageJobs, CarryForward(j)
  PROVE  TypeInv'
<1> USE DEF TypeInv, TypeOK, CarryForward
<1>1. QueueType' /\ TodoInv'
  BY JobTypes DEF QueueType, TodoInv, MemoryType, Goto, Labels, Live, OrchestrateSteps,
     ProcessSteps, FinishSteps, LinkSteps
<1>2. RowType'
  BY JobTypes DEF RowType, ReplaceSnapshot
<1>3. MemoryType' /\ DataType' /\ CounterType' /\ FlagType' /\ HistoryType'
  BY DEF MemoryType, DataType, CounterType, FlagType, HistoryType
<1>4. QED  BY <1>1, <1>2, <1>3

(* The copy of its issues keeps every variable in its type.                *)
LEMMA CopyIssuesType ==
  ASSUME TypeInv, NEW j \in PageJobs, CopyIssues(j)
  PROVE  TypeInv'
<1> USE DEF TypeInv, TypeOK, CopyIssues
<1>1. QueueType' /\ TodoInv'
  BY JobTypes DEF QueueType, TodoInv, MemoryType, Goto, Labels, Live, OrchestrateSteps,
     ProcessSteps, FinishSteps, LinkSteps
<1>2. RowType'
  BY JobTypes DEF RowType
<1>3. MemoryType' /\ DataType' /\ CounterType' /\ FlagType' /\ HistoryType'
  BY DEF MemoryType, DataType, CounterType, FlagType, HistoryType
<1>4. QED  BY <1>1, <1>2, <1>3

(* The copy of its schema entities keeps every variable in its type.       *)
LEMMA CopyForCarryForwardType ==
  ASSUME TypeInv, NEW j \in PageJobs, CopyForCarryForward(j)
  PROVE  TypeInv'
<1> USE DEF TypeInv, TypeOK, CopyForCarryForward
<1>1. QueueType' /\ TodoInv'
  BY JobTypes DEF QueueType, TodoInv, MemoryType, Goto, Labels, Live, OrchestrateSteps,
     ProcessSteps, FinishSteps, LinkSteps
<1>2. RowType'
  BY JobTypes DEF RowType
<1>3. MemoryType' /\ DataType' /\ CounterType' /\ FlagType' /\ HistoryType'
  BY DEF MemoryType, DataType, CounterType, FlagType, HistoryType
<1>4. QED  BY <1>1, <1>2, <1>3

(* The snapshot of a failed fetch keeps every variable in its type.        *)
LEMMA PersistFetchErrorType ==
  ASSUME TypeInv, NEW j \in PageJobs, PersistFetchError(j)
  PROVE  TypeInv'
<1> USE DEF TypeInv, TypeOK, PersistFetchError
<1>1. QueueType' /\ TodoInv'
  BY JobTypes DEF QueueType, TodoInv, MemoryType, Goto, Labels, Live, OrchestrateSteps,
     ProcessSteps, FinishSteps, LinkSteps
<1>2. RowType'
  BY JobTypes DEF RowType, ReplaceSnapshot
<1>3. MemoryType'
  BY JobTypes DEF MemoryType, Outcomes
<1>4. DataType' /\ CounterType' /\ FlagType' /\ HistoryType'
  BY DEF DataType, CounterType, FlagType, HistoryType
<1>5. QED  BY <1>1, <1>2, <1>3, <1>4

(* The snapshot of a page keeps every variable in its type.                *)
LEMMA PersistPageType ==
  ASSUME TypeInv, NEW j \in PageJobs, PersistPage(j)
  PROVE  TypeInv'
<1> USE DEF TypeInv, TypeOK, PersistPage
<1>1. QueueType' /\ TodoInv'
  BY JobTypes DEF QueueType, TodoInv, MemoryType, Goto, Labels, Live, OrchestrateSteps,
     ProcessSteps, FinishSteps, LinkSteps
<1>2. RowType'
  BY JobTypes DEF RowType, ReplaceSnapshot
<1>3. MemoryType'
  BY JobTypes DEF MemoryType, Outcomes
<1>4. DataType' /\ CounterType' /\ FlagType' /\ HistoryType'
  BY DEF DataType, CounterType, FlagType, HistoryType
<1>5. QED  BY <1>1, <1>2, <1>3, <1>4

(* The marking of link targets keeps every variable in its type.           *)
LEMMA MarkLinkTargetsType ==
  ASSUME TypeInv, NEW j \in PageJobs, MarkLinkTargets(j)
  PROVE  TypeInv'
<1> USE DEF TypeInv, TypeOK, MarkLinkTargets
<1>a. Outlinks[Page(j)] \subseteq Pages /\ Targets[Page(j)] \subseteq Urls
  BY JobTypes, PagesAssumption, LinksAssumption
<1>b. PICK label \in {"record", "batches", "discover"} :
        /\ Goto(j, label)
        /\ label = "discover" => todo' = [todo EXCEPT ![j] = Outlinks[Page(j)]]
        /\ todo' = [todo EXCEPT ![j] = todo'[j]]
  BY JobTypes DEF LeaveLinks, MemoryType
<1>c. QueueType'
  BY <1>b, GotoType, JobTypes DEF Labels, Live, ProcessSteps
<1>1. QueueType' /\ TodoInv'
  BY <1>a, <1>b, <1>c, JobTypes DEF TodoInv, MemoryType, QueueType, Goto
<1>2. MemoryType'
  BY JobTypes, PagesAssumption, LinksAssumption DEF MemoryType, LeaveLinks
<1>3. CounterType'
  BY JobTypes, LinksAssumption DEF CounterType
<1>4. DataType' /\ RowType' /\ FlagType' /\ HistoryType'
  BY DEF DataType, RowType, FlagType, HistoryType
<1>5. QED  BY <1>1, <1>2, <1>3, <1>4

(* The count of open link batches keeps every variable in its type.        *)
LEMMA IncrLinkBatchesType ==
  ASSUME TypeInv, NEW j \in PageJobs, IncrLinkBatches(j)
  PROVE  TypeInv'
<1> USE DEF TypeInv, TypeOK, IncrLinkBatches
<1>1. QueueType' /\ TodoInv'
  BY JobTypes DEF QueueType, TodoInv, MemoryType, Goto, Labels, Live, OrchestrateSteps,
     ProcessSteps, FinishSteps, LinkSteps
<1>2. CounterType'
  BY JobTypes, FiniteTodo DEF CounterType, MemoryType
<1>3. MemoryType' /\ DataType' /\ RowType' /\ FlagType' /\ HistoryType'
  BY DEF MemoryType, DataType, RowType, FlagType, HistoryType
<1>4. QED  BY <1>1, <1>2, <1>3

(* A batch of links that is queued keeps every variable in its type.       *)
LEMMA EnqueueLinkCheckType ==
  ASSUME TypeInv, NEW j \in PageJobs, EnqueueLinkCheck(j)
  PROVE  TypeInv'
<1> USE DEF TypeInv, TypeOK, EnqueueLinkCheck
<1>a. Outlinks[Page(j)] \subseteq Pages /\ j \in Jobs
  BY JobTypes, PagesAssumption
<1>b. PICK u \in todo[j], label \in {"links", "discover", "record"} :
        /\ pc' = [pc EXCEPT ![<<"link", u>>] = "waiting", ![j] = label]
        /\ tries' = [tries EXCEPT ![<<"link", u>>] = 0]
        /\ stalls' = [stalls EXCEPT ![<<"link", u>>] = 0]
        /\ todo' = [todo EXCEPT ![j] = IF label = "discover" THEN Outlinks[Page(j)]
                                        ELSE todo[j] \ {u}]
  OBVIOUS
<1>c. QueueType'
  BY <1>a, <1>b DEF QueueType, Labels, Live, ProcessSteps
<1>1. QueueType' /\ TodoInv'
  BY <1>a, <1>b, <1>c, JobTypes DEF TodoInv, MemoryType, QueueType
<1>2. MemoryType'
  BY JobTypes, PagesAssumption DEF MemoryType
<1>3. DataType' /\ RowType' /\ CounterType' /\ FlagType' /\ HistoryType'
  BY DEF DataType, RowType, CounterType, FlagType, HistoryType
<1>4. QED  BY <1>1, <1>2, <1>3

(* The marking of what is seen keeps every variable in its type.           *)
LEMMA MarkSeenType ==
  ASSUME TypeInv, NEW j \in PageJobs, MarkSeen(j)
  PROVE  TypeInv'
<1> USE DEF TypeInv, TypeOK, MarkSeen
<1>1. QueueType' /\ TodoInv'
  BY JobTypes DEF QueueType, TodoInv, MemoryType, Goto, Labels, Live, OrchestrateSteps,
     ProcessSteps, FinishSteps, LinkSteps
<1>2. MemoryType'
  BY JobTypes DEF MemoryType, TodoInv
<1>3. CounterType'
  BY JobTypes DEF CounterType, TodoInv
<1>4. DataType' /\ RowType' /\ FlagType' /\ HistoryType'
  BY DEF DataType, RowType, FlagType, HistoryType
<1>5. QED  BY <1>1, <1>2, <1>3, <1>4

(* The addition to the total keeps every variable in its type.             *)
LEMMA AddToTotalType ==
  ASSUME TypeInv, NEW j \in PageJobs, AddToTotal(j)
  PROVE  TypeInv'
<1> USE DEF TypeInv, TypeOK, AddToTotal
<1>1. QueueType' /\ TodoInv'
  BY JobTypes DEF QueueType, TodoInv, MemoryType, Goto, Labels, Live, OrchestrateSteps,
     ProcessSteps, FinishSteps, LinkSteps
<1>2. CounterType'
  BY JobTypes, FiniteTodo DEF CounterType, MemoryType
<1>3. HistoryType'
  BY JobTypes DEF HistoryType, MemoryType
<1>4. MemoryType' /\ DataType' /\ RowType' /\ FlagType'
  BY DEF MemoryType, DataType, RowType, FlagType
<1>5. QED  BY <1>1, <1>2, <1>3, <1>4

(* The fetch of a page that was found keeps every variable in its type.    *)
LEMMA EnqueuePageFetchType ==
  ASSUME TypeInv, NEW j \in PageJobs, EnqueuePageFetch(j)
  PROVE  TypeInv'
<1> USE DEF TypeInv, TypeOK, EnqueuePageFetch
<1>1. QueueType' /\ TodoInv'
  BY JobTypes DEF QueueType, TodoInv, MemoryType, Labels, Live, OrchestrateSteps,
     ProcessSteps, FinishSteps, LinkSteps
<1>2. MemoryType'
  BY JobTypes DEF MemoryType
<1>3. DataType'
  BY JobTypes DEF DataType
<1>4. RowType' /\ CounterType' /\ FlagType' /\ HistoryType'
  BY DEF RowType, CounterType, FlagType, HistoryType
<1>5. QED  BY <1>1, <1>2, <1>3, <1>4

(* The count of a page keeps every variable in its type.                   *)
LEMMA RecordPageType ==
  ASSUME TypeInv, NEW j \in PageJobs, RecordPage(j)
  PROVE  TypeInv'
<1> USE DEF TypeInv, TypeOK, RecordPage
<1>a. j \in Jobs /\ Page(j) \in Pages
  BY JobTypes
<1>b. Done \in Nat
  BY DEF Done, CounterType, Outcomes
<1>1. QueueType' /\ TodoInv'
  <2>1. PICK label \in {"flush", "ack"} : Goto(j, label)
    OBVIOUS
  <2>2. QED  BY <1>a, <2>1, GotoType DEF Labels, Live, FinishSteps
<1>2. MemoryType'
  BY <1>a, <1>b DEF MemoryType, CounterType, Outcomes
<1>3. CounterType'
  BY <1>a DEF CounterType, MemoryType
<1>4. HistoryType'
  BY <1>a DEF HistoryType
<1>5. DataType' /\ RowType' /\ FlagType'
  BY DEF DataType, RowType, FlagType
<1>6. QED  BY <1>1, <1>2, <1>3, <1>4, <1>5

(* The flush of the stats keeps every variable in its type.                *)
LEMMA UpdateStatsType ==
  ASSUME TypeInv, NEW j \in PageJobs, UpdateStats(j)
  PROVE  TypeInv'
<1> USE DEF TypeInv, TypeOK, UpdateStats
<1>1. QueueType' /\ TodoInv'
  BY JobTypes DEF QueueType, TodoInv, MemoryType, Goto, Labels, Live, OrchestrateSteps,
     ProcessSteps, FinishSteps, LinkSteps
<1>2. RowType'
  BY JobTypes DEF RowType, MemoryType
<1>3. MemoryType'
  BY JobTypes DEF MemoryType, NoStats
<1>4. DataType' /\ CounterType' /\ FlagType' /\ HistoryType'
  BY DEF DataType, CounterType, FlagType, HistoryType
<1>5. QED  BY <1>1, <1>2, <1>3, <1>4

(* The signal to finalize keeps every variable in its type.                *)
LEMMA EnqueueFinalizeType ==
  ASSUME TypeInv, NEW j \in PageJobs, EnqueueFinalize(j)
  PROVE  TypeInv'
<1> USE DEF TypeInv, TypeOK, EnqueueFinalize
<1>1. QueueType' /\ TodoInv'
  BY JobTypes DEF QueueType, TodoInv, MemoryType, Goto, Labels, Live, OrchestrateSteps,
     ProcessSteps, FinishSteps, LinkSteps
<1>2. DataType'
  BY DEF DataType
<1>3. MemoryType' /\ RowType' /\ CounterType' /\ FlagType' /\ HistoryType'
  BY DEF MemoryType, RowType, CounterType, FlagType, HistoryType
<1>4. QED  BY <1>1, <1>2, <1>3

(* The completion of a job keeps every variable in its type.               *)
LEMMA AckType ==
  ASSUME TypeInv, NEW j \in Jobs, Ack(j)
  PROVE  TypeInv'
<1> USE DEF TypeInv, TypeOK, Ack
<1>1. QueueType' /\ TodoInv'
  BY JobTypes DEF QueueType, TodoInv, MemoryType, Goto, Labels, Live, OrchestrateSteps,
     ProcessSteps, FinishSteps, LinkSteps
<1>2. MemoryType' /\ DataType' /\ RowType' /\ CounterType' /\ FlagType' /\ HistoryType'
  BY DEF MemoryType, DataType, RowType, CounterType, FlagType, HistoryType
<1>3. QED  BY <1>1, <1>2

(* The check of links keeps every variable in its type.                    *)
LEMMA CheckLinksType ==
  ASSUME TypeInv, NEW j \in LinkJobs, CheckLinks(j)
  PROVE  TypeInv'
<1> USE DEF TypeInv, TypeOK, CheckLinks
<1>1. QueueType' /\ TodoInv'
  BY JobTypes DEF QueueType, TodoInv, MemoryType, Goto, Labels, Live, OrchestrateSteps,
     ProcessSteps, FinishSteps, LinkSteps
<1>2. RowType'
  BY JobTypes DEF RowType
<1>3. MemoryType' /\ DataType' /\ CounterType' /\ FlagType' /\ HistoryType'
  BY DEF MemoryType, DataType, CounterType, FlagType, HistoryType
<1>4. QED  BY <1>1, <1>2, <1>3

(* The end of a batch of links keeps every variable in its type.           *)
LEMMA DecrLinkBatchesType ==
  ASSUME TypeInv, NEW j \in LinkJobs, DecrLinkBatches(j)
  PROVE  TypeInv'
<1> USE DEF TypeInv, TypeOK, DecrLinkBatches
<1>1. QueueType' /\ TodoInv'
  BY JobTypes DEF QueueType, TodoInv, MemoryType, Goto, Labels, Live, OrchestrateSteps,
     ProcessSteps, FinishSteps, LinkSteps
<1>2. CounterType'
  BY DEF CounterType
<1>3. MemoryType' /\ DataType' /\ RowType' /\ FlagType' /\ HistoryType'
  BY DEF MemoryType, DataType, RowType, FlagType, HistoryType
<1>4. QED  BY <1>1, <1>2, <1>3

(* The finalize of a cancelled crawl keeps every variable in its type.     *)
LEMMA FinalizeCancelledType ==
  ASSUME TypeInv, FinalizeCancelled
  PROVE  TypeInv'
<1> USE DEF TypeInv, TypeOK, FinalizeCancelled
<1>1. QueueType' /\ TodoInv'
  BY DEF QueueType, TodoInv
<1>2. RowType'
  BY StatusType DEF RowType, Statuses, SetStatus
<1>3. DataType'
  BY DEF DataType
<1>4. CounterType'
  BY DEF CounterType
<1>5. MemoryType' /\ FlagType' /\ HistoryType'
  BY DEF MemoryType, FlagType, HistoryType
<1>6. QED  BY <1>1, <1>2, <1>3, <1>4, <1>5

(* The finalize of a complete crawl keeps every variable in its type.      *)
LEMMA FinalizeReadyType ==
  ASSUME TypeInv, FinalizeReady
  PROVE  TypeInv'
<1> USE DEF TypeInv, TypeOK, FinalizeReady
<1>1. QueueType' /\ TodoInv'
  BY DEF QueueType, TodoInv
<1>2. RowType'
  BY StatusType DEF RowType, Statuses, SetStatus
<1>3. DataType'
  BY DEF DataType
<1>4. MemoryType' /\ CounterType' /\ FlagType' /\ HistoryType'
  BY DEF MemoryType, CounterType, FlagType, HistoryType
<1>5. QED  BY <1>1, <1>2, <1>3, <1>4

(* The watchdog keeps every variable in its type.                          *)
LEMMA ReapStuckCrawlsType ==
  ASSUME TypeInv, ReapStuckCrawls
  PROVE  TypeInv'
<1> USE DEF TypeInv, TypeOK, ReapStuckCrawls
<1>1. QueueType' /\ TodoInv'
  BY DEF QueueType, TodoInv
<1>2. DataType'
  BY DEF DataType
<1>3. MemoryType' /\ RowType' /\ CounterType' /\ FlagType' /\ HistoryType'
  BY DEF MemoryType, RowType, CounterType, FlagType, HistoryType
<1>4. QED  BY <1>1, <1>2, <1>3

(* A request of the API keeps every variable in its type.                  *)
LEMMA RequestType ==
  ASSUME TypeInv, NEW op \in Controls, Request(op)
  PROVE  TypeInv'
<1> USE DEF TypeInv, TypeOK, Request
<1>1. QueueType' /\ TodoInv'
  BY DEF QueueType, TodoInv
<1>2. FlagType'
  BY BoundsAssumption DEF FlagType
<1>3. HistoryType'
  BY DEF HistoryType
<1>4. MemoryType' /\ DataType' /\ RowType' /\ CounterType'
  BY DEF MemoryType, DataType, RowType, CounterType
<1>5. QED  BY <1>1, <1>2, <1>3, <1>4

(* The first step of a pause, its flag, keeps the types.                   *)
LEMMA PauseFlagType ==
  ASSUME TypeInv, PauseFlag
  PROVE  TypeInv'
<1> USE DEF TypeInv, TypeOK, PauseFlag
<1>1. QueueType' /\ TodoInv'
  BY DEF QueueType, TodoInv
<1>2. FlagType'
  BY DEF FlagType
<1>3. MemoryType' /\ DataType' /\ RowType' /\ CounterType' /\ HistoryType'
  BY DEF MemoryType, DataType, RowType, CounterType, HistoryType
<1>4. QED  BY <1>1, <1>2, <1>3

(* The first step of a resume, its flag, keeps the types.                  *)
LEMMA ResumeFlagType ==
  ASSUME TypeInv, ResumeFlag
  PROVE  TypeInv'
<1> USE DEF TypeInv, TypeOK, ResumeFlag
<1>1. QueueType' /\ TodoInv'
  BY DEF QueueType, TodoInv
<1>2. FlagType'
  BY DEF FlagType
<1>3. MemoryType' /\ DataType' /\ RowType' /\ CounterType' /\ HistoryType'
  BY DEF MemoryType, DataType, RowType, CounterType, HistoryType
<1>4. QED  BY <1>1, <1>2, <1>3

(* The first step of a cancel, its flag, keeps the types.                  *)
LEMMA CancelFlagType ==
  ASSUME TypeInv, CancelFlag
  PROVE  TypeInv'
<1> USE DEF TypeInv, TypeOK, CancelFlag
<1>1. QueueType' /\ TodoInv'
  BY DEF QueueType, TodoInv
<1>2. FlagType'
  BY DEF FlagType
<1>3. MemoryType' /\ DataType' /\ RowType' /\ CounterType' /\ HistoryType'
  BY DEF MemoryType, DataType, RowType, CounterType, HistoryType
<1>4. QED  BY <1>1, <1>2, <1>3

(* Its second step, the end of a pause, keeps the types.                   *)
LEMMA CancelUnpauseType ==
  ASSUME TypeInv, CancelUnpause
  PROVE  TypeInv'
<1> USE DEF TypeInv, TypeOK, CancelUnpause
<1>1. QueueType' /\ TodoInv'
  BY DEF QueueType, TodoInv
<1>2. FlagType'
  BY DEF FlagType
<1>3. MemoryType' /\ DataType' /\ RowType' /\ CounterType' /\ HistoryType'
  BY DEF MemoryType, DataType, RowType, CounterType, HistoryType
<1>4. QED  BY <1>1, <1>2, <1>3

(* Its second step, the status, keeps the types.                           *)
LEMMA PauseStatusType ==
  ASSUME TypeInv, PauseStatus
  PROVE  TypeInv'
<1> USE DEF TypeInv, TypeOK, PauseStatus
<1>1. QueueType' /\ TodoInv'
  BY DEF QueueType, TodoInv
<1>2. RowType'
  BY StatusType DEF RowType, Statuses, SetStatus
<1>3. FlagType'
  BY DEF FlagType
<1>4. MemoryType' /\ DataType' /\ CounterType' /\ HistoryType'
  BY DEF MemoryType, DataType, CounterType, HistoryType
<1>5. QED  BY <1>1, <1>2, <1>3, <1>4

(* Its second step, the status, keeps the types.                           *)
LEMMA ResumeStatusType ==
  ASSUME TypeInv, ResumeStatus
  PROVE  TypeInv'
<1> USE DEF TypeInv, TypeOK, ResumeStatus
<1>1. QueueType' /\ TodoInv'
  BY DEF QueueType, TodoInv
<1>2. RowType'
  BY StatusType DEF RowType, Statuses, SetStatus
<1>3. FlagType'
  BY DEF FlagType
<1>4. MemoryType' /\ DataType' /\ CounterType' /\ HistoryType'
  BY DEF MemoryType, DataType, CounterType, HistoryType
<1>5. QED  BY <1>1, <1>2, <1>3, <1>4

(* The retry of failed pages keeps every variable in its type.             *)
LEMMA RetryFailedType ==
  ASSUME TypeInv, RetryFailed
  PROVE  TypeInv'
<1> USE DEF TypeInv, TypeOK, RetryFailed
<1>a. PICK failed \in SUBSET PageJobs :
        /\ pc' = [j \in Jobs |-> IF j \in failed THEN "waiting" ELSE pc[j]]
        /\ tries' = [j \in Jobs |-> IF j \in failed THEN 0 ELSE tries[j]]
        /\ stalls' = [j \in Jobs |-> IF j \in failed THEN 0 ELSE stalls[j]]
        /\ plain' = plain \cup failed
  <2>1. {"retry"} \X {p \in Pages : snap[p] = "error"} \in SUBSET PageJobs
    BY DEF PageJobs
  <2>2. QED  BY <2>1
<1>b. QueueType'
  BY <1>a DEF QueueType, Labels, Live
<1>1. QueueType' /\ TodoInv'
  BY <1>a, <1>b, JobTypes DEF TodoInv, QueueType
<1>2. DataType'
  BY <1>a DEF DataType
<1>3. HistoryType'
  BY DEF HistoryType
<1>4. MemoryType' /\ RowType' /\ CounterType' /\ FlagType'
  BY DEF MemoryType, RowType, CounterType, FlagType
<1>5. QED  BY <1>1, <1>2, <1>3, <1>4

(* An exception, a stall or a redelivery keeps the types.                  *)
LEMMA FaultType ==
  ASSUME TypeInv, NEW j \in Jobs, Fault(j)
  PROVE  TypeInv'
<1> USE DEF TypeInv, TypeOK, Fault
<1>a. /\ outcome' = [outcome EXCEPT ![j] = "unchanged"]
      /\ todo' = [todo EXCEPT ![j] = {}]
      /\ found' = [found EXCEPT ![j] = {}]
      /\ shot' = [shot EXCEPT ![j] = NoStats]
  BY DEF Throw, Stall, Redeliver
<1>b. /\ tries' = tries \/ tries' = [tries EXCEPT ![j] = @ + 1]
      /\ stalls' = stalls \/ stalls' = [stalls EXCEPT ![j] = @ + 1]
  BY DEF Throw, Stall
<1>c. PICK label \in {"waiting", "failed"} : Goto(j, label)
  BY DEF Throw, Stall, Redeliver
<1>1. QueueType'
  BY <1>b, <1>c DEF QueueType, Goto, Labels, Live
<1>2. TodoInv'
  BY <1>a, <1>c, JobTypes DEF TodoInv, QueueType, MemoryType, Goto
<1>3. MemoryType'
  BY <1>a DEF MemoryType, Outcomes, NoStats
<1>4. HistoryType'
  <2>1. repeated' \in BOOLEAN /\ severed' \in BOOLEAN
    BY DEF Throw, Stall, Redeliver
  <2>2. QED  BY <2>1 DEF HistoryType
<1>5. RowType' /\ DataType' /\ CounterType' /\ FlagType'
  BY DEF RowType, DataType, CounterType, FlagType
<1>6. QED  BY <1>1, <1>2, <1>3, <1>4, <1>5

(* A stuttering step keeps the types.                                      *)
LEMMA StutterType ==
  ASSUME TypeInv, UNCHANGED vars
  PROVE  TypeInv'
  BY DEF vars, TypeInv, TypeOK, TodoInv, QueueType, MemoryType, DataType, RowType,
         CounterType, FlagType, HistoryType

(* A crawl that is yet to be orchestrated is well typed.                   *)
LEMMA InitType == Init => TypeInv
<1> SUFFICES ASSUME Init PROVE TypeInv
  OBVIOUS
<1> USE DEF Init
<1>1. QueueType /\ TodoInv
  BY JobTypes DEF QueueType, TodoInv, Labels, Live
<1>2. MemoryType /\ DataType
  BY DEF MemoryType, DataType, Outcomes, NoStats
<1>3. /\ finished \in BOOLEAN /\ cancelled \in BOOLEAN /\ paused \in BOOLEAN
      /\ repeated \in BOOLEAN /\ severed \in BOOLEAN
  OBVIOUS
<1>4. RowType /\ CounterType /\ FlagType /\ HistoryType
  BY <1>3 DEF RowType, CounterType, FlagType, HistoryType, Statuses, NoStats, NoCounts,
              Outcomes
<1>5. QED  BY <1>1, <1>2, <1>3, <1>4 DEF TypeInv, TypeOK

(* Each step keeps the types: the lemmas of the actions together.          *)
LEMMA NextType == TypeInv /\ [Next]_vars => TypeInv'
<1> SUFFICES ASSUME TypeInv, [Next]_vars PROVE TypeInv'
  OBVIOUS
<1>1. ASSUME OrchestrateStep PROVE TypeInv'
  BY <1>1, OrchestrateStartType, ResolveType, SeedCountersType, SetRunningType,
     ResetStatsType, FanOutType DEF OrchestrateStep
<1>2. ASSUME NEW j \in PageJobs, PageStep(j) PROVE TypeInv'
  BY <1>2, ProcessFetchType, BeginRenderType, ProcessRenderedType, EnqueueRenderType,
     CarryForwardType, CopyIssuesType, CopyForCarryForwardType,
     PersistFetchErrorType, PersistPageType, MarkLinkTargetsType,
     IncrLinkBatchesType, EnqueueLinkCheckType, MarkSeenType,
     AddToTotalType, EnqueuePageFetchType, RecordPageType, UpdateStatsType,
     EnqueueFinalizeType DEF PageStep
<1>3. ASSUME NEW j \in LinkJobs, LinkStep(j) PROVE TypeInv'
  BY <1>3, CheckLinksType, DecrLinkBatchesType DEF LinkStep
<1>4. ASSUME NEW j \in Jobs, Ack(j) \/ Fault(j) PROVE TypeInv'
  BY <1>4, AckType, FaultType
<1>5. ASSUME FinalizeStep \/ ReapStuckCrawls \/ RetryFailed PROVE TypeInv'
  BY <1>5, FinalizeCancelledType, FinalizeReadyType, ReapStuckCrawlsType,
     RetryFailedType DEF FinalizeStep
<1>6. ASSUME NEW op \in Controls, Request(op) PROVE TypeInv'
  BY <1>6, RequestType
<1>7. ASSUME ApiStep PROVE TypeInv'
  BY <1>7, PauseFlagType, PauseStatusType, ResumeFlagType, ResumeStatusType,
     CancelFlagType, CancelUnpauseType DEF ApiStep
<1>8. QED
  BY <1>1, <1>2, <1>3, <1>4, <1>5, <1>6, <1>7, StutterType DEF Next

(* The state is always well typed.                                         *)
THEOREM TypeCorrect == Safe => []TypeOK
<1>1. TypeInv => TypeOK
  BY DEF TypeInv
<1>2. QED  BY <1>1, InitType, NextType, PTL DEF Safe

-----------------------------------------------------------------------------
(* Exactness.  As long as no job ran again after its work showed, the      *)
(* counters count sets, a page has one job at a time and discovery         *)
(* announces a page once; a signal to finalize then means that every       *)
(* announced page settled.  The second half of the module proves these     *)
(* facts together, since each needs the others.                            *)

BeforeFanOut == {"waiting"} \cup OrchestrateSteps
Counted == {"running", "stats", "fanout"}
BeforeRecord == {"waiting"} \cup ProcessSteps
Discovering == {"discover", "announce", "enqueue"}

(* A job is at a step of its own handler.                                  *)
OwnLabels ==
  /\ \A j \in PageJobs : pc[j] \notin OrchestrateSteps \cup LinkSteps
  /\ pc[Orchestrate] \in BeforeFanOut \cup {"ack", "completed", "failed"}

NoPageJob == \A j \in PageJobs : pc[j] = "none"

(* Nothing is queued, settled or signalled before the fan-out, and the     *)
(* counters it leaves to the page jobs are those of the seeds.             *)
FanOutFirst ==
  /\ pc[Orchestrate] \in BeforeFanOut => NoPageJob
  /\ pc[Orchestrate] \in Counted =>
       announced = Seeds /\ total = Cardinality(Seeds) /\ Done = 0
  /\ NoPageJob => /\ settled = {} /\ announced \subseteq Seeds
                  /\ finalize = "none" /\ ~Complete(stats.total, stats.done)

CountersCount ==
  ~NoPageJob => /\ total = Cardinality(announced)
                /\ Done = Cardinality(settled)
                /\ settled \subseteq announced

(* A page has at most one job that has not counted it yet.                 *)
OneJobPerPage ==
  /\ \A j \in PageJobs : pc[j] \in BeforeRecord => Page(j) \in announced \ settled
  /\ \A p \in Pages :
       /\ pc[<<"retry", p>>] = "none"
       /\ pc[<<"fetch", p>>] \in BeforeRecord \cup {"none"} => pc[<<"render",
          p>>] = "none"
       /\ p \in settled => pc[<<"fetch", p>>] # "none"

(* What a handler found is its own until it is announced.                  *)
FoundIsNew ==
  /\ finalize = "none" /\ ~NoPageJob => announced \subseteq seen
  /\ \A j \in PageJobs :
       /\ pc[j] \notin Discovering => found[j] = {}
       /\ pc[j] \in {"discover", "announce"} => found[j] \cap announced = {}
       /\ pc[j] = "enqueue" => found[j] \subseteq announced
       /\ finalize = "none" => found[j] \subseteq seen
  /\ \A i, j \in PageJobs : i # j => found[i] \cap found[j] = {}

Signalled ==
  \/ finalize # "none"
  \/ Complete(stats.total, stats.done)
  \/ \E j \in PageJobs : pc[j] \in FinishSteps

SignalMeansSettled == Signalled => announced \subseteq settled

SignalMeansFlushed ==
  /\ finalize # "none" \/ (\E j \in PageJobs : pc[j] = "signal") =>
       Complete(stats.total, stats.done)
  /\ \A j \in PageJobs : pc[j] = "flush" => Complete(shot[j].total, shot[j].done)

Exact ==
  /\ OwnLabels /\ FanOutFirst /\ CountersCount /\ OneJobPerPage
  /\ FoundIsNew /\ SignalMeansSettled /\ SignalMeansFlushed

(* Before the crawl nothing is counted, announced or signalled.            *)
LEMMA InitExact == Init => Exact
<1> SUFFICES ASSUME Init PROVE Exact
  OBVIOUS
<1>1. NoPageJob
  BY JobTypes DEF Init, NoPageJob
<1>2. ~Signalled
  BY <1>1 DEF Init, Signalled, NoPageJob, FinishSteps, Complete, NoStats
<1>3. FanOutFirst /\ CountersCount
  BY <1>1, JobTypes DEF Init, FanOutFirst, CountersCount, Counted, Complete, NoStats
<1>4. OneJobPerPage /\ FoundIsNew
  BY <1>1, JobTypes DEF Init, OneJobPerPage, FoundIsNew, NoPageJob, BeforeRecord,
     ProcessSteps, Discovering
<1>5. SignalMeansSettled /\ SignalMeansFlushed
  BY <1>1, <1>2 DEF Init, SignalMeansSettled, SignalMeansFlushed, NoPageJob, Signalled
<1>6. OwnLabels
  BY <1>1 DEF Init, OwnLabels, NoPageJob, BeforeFanOut, OrchestrateSteps, LinkSteps, Jobs
<1>7. QED  BY <1>3, <1>4, <1>5, <1>6 DEF Exact

(* A step is quiet when it counts nothing and finds nothing: page jobs     *)
(* move on within their work or leave it, and the orchestrator stays       *)
(* behind or ahead of what it has counted.                                 *)
QuietJob(j) ==
  /\ pc'[j] \notin OrchestrateSteps \cup LinkSteps
  /\ pc'[j] = "none" <=> pc[j] = "none"
  /\ pc'[j] \in BeforeRecord => pc[j] \in BeforeRecord
  /\ pc'[j] \in FinishSteps => pc'[j] = pc[j] /\ shot'[j] = shot[j]
  /\ \/ pc'[j] = pc[j] /\ found'[j] = found[j]
     \/ pc'[j] \notin Discovering /\ found'[j] = {}
     \/ pc'[j] = "discover" /\ pc[j] \notin Discovering /\ found'[j] = found[j]

Quiet ==
  /\ \A j \in PageJobs : QuietJob(j)
  /\ pc'[Orchestrate] \in BeforeFanOut \cup {"ack", "completed", "failed"}
  /\ pc'[Orchestrate] \in BeforeFanOut => pc[Orchestrate] \in BeforeFanOut
  /\ pc'[Orchestrate] \in Counted => pc[Orchestrate] \in Counted
  /\ UNCHANGED <<total, tally, announced, settled, seen, stats, finalize>>

(* A step that counts, announces and signals nothing keeps the counts      *)
(* exact.                                                                  *)
LEMMA QuietExact ==
  ASSUME Exact, Quiet
  PROVE  Exact'
<1> USE DEF Exact, Quiet
<1>1. NoPageJob' = NoPageJob /\ Done' = Done
  BY DEF NoPageJob, QuietJob, Done
<1>2. OwnLabels' /\ FanOutFirst' /\ CountersCount'
  BY <1>1 DEF OwnLabels, QuietJob, FanOutFirst, CountersCount
<1>3. OneJobPerPage'
  BY JobTypes DEF OneJobPerPage, QuietJob, BeforeRecord, ProcessSteps
<1>4. FoundIsNew'
  BY <1>1 DEF FoundIsNew, QuietJob, Discovering
<1>5. Signalled' => Signalled
  BY DEF Signalled, QuietJob
<1>6. SignalMeansSettled' /\ SignalMeansFlushed'
  BY <1>5 DEF SignalMeansSettled, SignalMeansFlushed, QuietJob, FinishSteps
<1>7. QED  BY <1>2, <1>3, <1>4, <1>6

(* So does a page job that moves on, or ends, before it discovered         *)
(* anything.                                                               *)
LEMMA QuietPageExact ==
  ASSUME TypeInv, Exact, NEW j \in PageJobs, pc[j] \in BeforeRecord \ Discovering,
         NEW label \in (BeforeRecord \ {"announce", "enqueue"}) \cup {"ack"},
         pc'[j] = label,
         \A i \in PageJobs \cup {Orchestrate} : i # j => pc'[i] = pc[i],
         UNCHANGED <<found, shot, total, tally, announced, settled, seen, stats,
            finalize>>
  PROVE  Exact'
<1>1. found[j] = {}
  BY DEF Exact, FoundIsNew
<1>2. QuietJob(j)
  BY <1>1 DEF QuietJob, BeforeRecord, ProcessSteps, FinishSteps, Discovering,
     OrchestrateSteps, LinkSteps
<1>3. \A i \in PageJobs : i # j => QuietJob(i)
  BY DEF QuietJob, Exact, OwnLabels
<1>4. Quiet
  BY <1>2, <1>3, JobTypes DEF Quiet, Exact, OwnLabels
<1>5. QED  BY <1>4, QuietExact

(* Nothing but the label of one job that is not a page job changes.        *)
LEMMA QuietOtherExact ==
  ASSUME TypeInv, Exact,
         \A i \in PageJobs : pc'[i] = pc[i],
         pc'[Orchestrate] \in BeforeFanOut \cup {"ack", "completed", "failed"},
         pc'[Orchestrate] \in BeforeFanOut => pc[Orchestrate] \in BeforeFanOut,
         pc'[Orchestrate] \in Counted => pc[Orchestrate] \in Counted,
         UNCHANGED <<found, shot, total, tally, announced, settled, seen, stats,
            finalize>>
  PROVE  Exact'
<1>1. \A i \in PageJobs : QuietJob(i)
  BY DEF QuietJob, Exact, OwnLabels
<1>2. Quiet
  BY <1>1 DEF Quiet
<1>3. QED  BY <1>2, QuietExact

(* The steps of processPage before discovery count nothing.                *)
LEMMA QuietPageStepExact ==
  ASSUME TypeInv, Exact, NEW j \in PageJobs,
         \/ ProcessFetch(j) \/ BeginRender(j) \/ ProcessRendered(j)
         \/ CarryForward(j) \/ CopyIssues(j) \/ CopyForCarryForward(j)
         \/ PersistFetchError(j) \/ PersistPage(j)
         \/ MarkLinkTargets(j) \/ IncrLinkBatches(j) \/ EnqueueLinkCheck(j)
  PROVE  Exact'
<1> USE JobTypes DEF TypeInv, TypeOK, QueueType, Goto, BeforeRecord, ProcessSteps,
   Discovering
<1> DEFINE Labelled(label) ==
      /\ label \in (BeforeRecord \ {"announce", "enqueue"}) \cup {"ack"}
      /\ pc[j] \in BeforeRecord \ Discovering
      /\ pc'[j] = label
      /\ \A i \in PageJobs \cup {Orchestrate} : i # j => pc'[i] = pc[i]
      /\ UNCHANGED <<found, shot, total, tally, announced, settled, seen, stats,
         finalize>>
<1>1. CASE ProcessFetch(j)
  <2>1. PICK label \in {"record", "carry", "error", "route", "persist"} : Goto(j, label)
    BY <1>1 DEF ProcessFetch, Answers, Branch
  <2>2. Labelled(label)
    BY <1>1, <2>1 DEF ProcessFetch
  <2>3. QED  BY <2>2, QuietPageExact
<1>2. CASE BeginRender(j)
  BY <1>2, QuietPageExact DEF BeginRender
<1>3. CASE ProcessRendered(j)
  <2>1. PICK label \in {"record", "waiting", "carry", "error", "route", "persist"} :
          Goto(j, label)
    BY <1>3 DEF ProcessRendered, Answers, Branch
  <2>2. Labelled(label)
    BY <1>3, <2>1 DEF ProcessRendered
  <2>3. QED  BY <2>2, QuietPageExact
<1>4. CASE CarryForward(j)
  BY <1>4, QuietPageExact DEF CarryForward
<1>5. CASE CopyIssues(j) \/ CopyForCarryForward(j)
  BY <1>5, QuietPageExact DEF CopyIssues, CopyForCarryForward
<1>6. CASE PersistFetchError(j)
  BY <1>6, QuietPageExact DEF PersistFetchError
<1>7. CASE PersistPage(j)
  BY <1>7, QuietPageExact DEF PersistPage
<1>8. CASE MarkLinkTargets(j)
  <2>1. PICK label \in {"record", "batches", "discover"} : Goto(j, label)
    BY <1>8 DEF MarkLinkTargets, LeaveLinks
  <2>2. Labelled(label)
    BY <1>8, <2>1 DEF MarkLinkTargets
  <2>3. QED  BY <2>2, QuietPageExact
<1>9. CASE IncrLinkBatches(j)
  BY <1>9, QuietPageExact DEF IncrLinkBatches
<1>10. CASE EnqueueLinkCheck(j)
  <2>1. PICK u \in todo[j], label \in {"links", "discover", "record"} :
          pc' = [pc EXCEPT ![<<"link", u>>] = "waiting", ![j] = label]
    BY <1>10 DEF EnqueueLinkCheck
  <2>2. <<"link", u>> \notin PageJobs /\ <<"link", u>> # Orchestrate
    BY DEF PageJobs, Orchestrate
  <2>3. Labelled(label)
    BY <1>10, <2>1, <2>2 DEF EnqueueLinkCheck
  <2>4. QED  BY <2>3, QuietPageExact
<1>11. QED
  BY <1>1, <1>2, <1>3, <1>4, <1>5, <1>6, <1>7, <1>8, <1>9, <1>10

(* Neither does the orchestrator as it starts or marks the crawl as        *)
(* running.                                                                *)
LEMMA QuietOrchestrateExact ==
  ASSUME TypeInv, Exact, OrchestrateStart \/ SetRunning
  PROVE  Exact'
<1> USE JobTypes DEF TypeInv, TypeOK, QueueType, Goto, BeforeFanOut, OrchestrateSteps,
   Counted
<1>1. CASE OrchestrateStart
  <2>1. PICK label \in {"ack", "resolving"} : Goto(Orchestrate, label)
    BY <1>1 DEF OrchestrateStart
  <2>2. QED  BY <1>1, <2>1, QuietOtherExact DEF OrchestrateStart
<1>2. CASE SetRunning
  BY <1>2, QuietOtherExact DEF SetRunning
<1>3. QED  BY <1>1, <1>2

(* The check of a batch of links has counters of its own.                  *)
LEMMA QuietLinkExact ==
  ASSUME TypeInv, Exact, NEW j \in LinkJobs, CheckLinks(j) \/ DecrLinkBatches(j)
  PROVE  Exact'
<1>1. j \in Jobs /\ j \notin PageJobs /\ j # Orchestrate
  BY JobTypes DEF LinkJobs, Orchestrate
<1>2. pc' = [pc EXCEPT ![j] = pc'[j]]
  BY <1>1 DEF CheckLinks, DecrLinkBatches, Goto, TypeInv, TypeOK, QueueType
<1>3. UNCHANGED <<found, shot, total, tally, announced, settled, seen, stats, finalize>>
  BY DEF CheckLinks, DecrLinkBatches
<1>4. \A i \in PageJobs \cup {Orchestrate} : pc'[i] = pc[i]
  BY <1>1, <1>2, JobTypes DEF TypeInv, TypeOK, QueueType
<1>5. QED
  BY <1>3, <1>4, QuietOtherExact DEF Exact, OwnLabels

(* A request to pause, resume or cancel touches flags and the status only. *)
LEMMA QuietApiExact ==
  ASSUME TypeInv, Exact,
         ApiStep \/ (\E op \in Controls : Request(op)) \/ UNCHANGED vars
  PROVE  Exact'
  BY QuietOtherExact DEF ApiStep, PauseFlag, PauseStatus, ResumeFlag, ResumeStatus,
     CancelFlag, CancelUnpause, Request, vars, Exact, OwnLabels

(* A job that BullMQ completes has done its counting already.              *)
LEMMA AckExact ==
  ASSUME TypeInv, Exact, NEW j \in Jobs, Ack(j)
  PROVE  Exact'
<1> USE JobTypes DEF Ack, Goto, TypeInv, TypeOK, QueueType, BeforeFanOut,
   OrchestrateSteps,
     Counted, BeforeRecord, ProcessSteps, FinishSteps, Discovering
<1>1. \A i \in PageJobs : i = j => found[i] = {}
  BY DEF Exact, FoundIsNew
<1>2. \A i \in PageJobs : QuietJob(i)
  BY <1>1 DEF QuietJob, Exact, OwnLabels, LinkSteps
<1>3. Quiet
  BY <1>2 DEF Quiet, Exact, OwnLabels
<1>4. QED  BY <1>3, QuietExact

(* A job that goes back to the start counts as fresh work, unless it had   *)
(* counted its page already: then repeated is set.                         *)
LEMMA FaultExact ==
  ASSUME TypeInv, Exact, NEW j \in Jobs, Fault(j), ~repeated'
  PROVE  Exact'
<1> USE JobTypes DEF TypeInv, TypeOK, QueueType, MemoryType
<1>1. PICK label \in {"waiting", "failed"} : Goto(j, label)
  BY DEF Fault, Throw, Stall, Redeliver
<1>2. label = "waiting" => pc[j] \notin FinishSteps \cup {"ack"}
  BY <1>1 DEF Fault, Throw, Stall, Redeliver, Goto
<1>3. /\ found' = [found EXCEPT ![j] = {}]
      /\ shot' = [shot EXCEPT ![j] = NoStats]
      /\ pc[j] \in Live
      /\ UNCHANGED <<total, tally, announced, settled, seen, stats, finalize>>
  BY DEF Fault, Throw, Stall, Redeliver
<1>4. ASSUME NEW i \in PageJobs PROVE QuietJob(i)
  <2>1. CASE i # j
    BY <2>1, <1>1, <1>3 DEF QuietJob, Goto, Exact, OwnLabels
  <2>2. CASE i = j
    BY <2>2, <1>1, <1>2, <1>3 DEF QuietJob, Goto, BeforeRecord, ProcessSteps, FinishSteps,
       Discovering, Live, OrchestrateSteps, LinkSteps, Exact, OwnLabels
  <2>3. QED  BY <2>1, <2>2
<1>5. /\ pc'[Orchestrate] \in BeforeFanOut \cup {"ack", "completed", "failed"}
      /\ pc'[Orchestrate] \in BeforeFanOut => pc[Orchestrate] \in BeforeFanOut
      /\ pc'[Orchestrate] \in Counted => pc[Orchestrate] \in Counted
  <2>1. CASE j # Orchestrate
    BY <2>1, <1>1 DEF Goto, Exact, OwnLabels
  <2>2. CASE j = Orchestrate
    BY <2>2, <1>1, <1>2, <1>3 DEF Goto, Exact, OwnLabels, BeforeFanOut, Counted, Live,
       OrchestrateSteps, ProcessSteps, FinishSteps, LinkSteps
  <2>3. QED  BY <2>1, <2>2
<1>6. QED  BY <1>3, <1>4, <1>5, QuietExact DEF Quiet

-----------------------------------------------------------------------------
(* The steps that count, find or signal, one lemma each.                   *)

(* What counters count are finite sets of pages.                           *)
LEMMA FiniteAnnounced ==
  ASSUME NEW S \in SUBSET Pages
  PROVE  IsFiniteSet(S) /\ Cardinality(S) \in Nat /\ (Cardinality(S) = 0 <=> S = {})
  BY PagesAssumption, FS_Subset, FS_CardinalityType, FS_EmptySet

(* A part of a finite set that has as many members is the whole set: how   *)
(* equal counters come to mean that every page settled.                    *)
LEMMA WholeSubset ==
  ASSUME NEW S, IsFiniteSet(S), NEW T \in SUBSET S, Cardinality(T) >= Cardinality(S)
  PROVE  S = T
<1>1. Cardinality(T) \in Nat /\ Cardinality(S) \in Nat
  BY FS_Subset, FS_CardinalityType
<1>2. Cardinality(T) <= Cardinality(S)
  BY FS_Subset
<1>3. Cardinality(S) = Cardinality(T)
  BY <1>1, <1>2
<1>4. QED  BY <1>3, FS_Subset

(* Where every step of a page job leads, for the conjuncts about labels.   *)
LEMMA BusyPage ==
  ASSUME Exact, NEW j \in PageJobs, pc[j] # "none"
  PROVE  ~NoPageJob /\ pc[Orchestrate] \notin BeforeFanOut
  BY DEF Exact, FanOutFirst, NoPageJob

(* A page that is still worked on has not settled, so nothing signalled.   *)
LEMMA WorkMeansNoSignal ==
  ASSUME TypeInv, Exact, NEW j \in PageJobs, pc[j] \in BeforeRecord
  PROVE  ~Signalled /\ finalize = "none"
  BY DEF Exact, SignalMeansSettled, Signalled, OneJobPerPage

(* The orchestrator finds the seeds, or a crawl without any, before any    *)
(* count.                                                                  *)
LEMMA ResolveExact ==
  ASSUME TypeInv, Exact, Resolve
  PROVE  Exact'
<1> USE JobTypes DEF TypeInv, TypeOK, QueueType, Resolve, Goto
<1>1. CASE Goto(Orchestrate, "init") /\ UNCHANGED counters
  BY <1>1, QuietOtherExact DEF BeforeFanOut, OrchestrateSteps, Counted
<1>2. CASE Goto(Orchestrate, "ack")
  <2>1. NoPageJob /\ NoPageJob'
    BY <1>2 DEF Exact, FanOutFirst, NoPageJob, BeforeFanOut, OrchestrateSteps
  <2>2. OwnLabels' /\ OneJobPerPage'
    BY <1>2 DEF Exact, OwnLabels, OneJobPerPage
  <2>3. FanOutFirst' /\ CountersCount'
    BY <1>2, <2>1 DEF Exact, FanOutFirst, CountersCount, BeforeFanOut, OrchestrateSteps,
       Counted
  <2>4. FoundIsNew'
    BY <1>2, <2>1 DEF Exact, FoundIsNew
  <2>5. SignalMeansSettled' /\ SignalMeansFlushed'
    BY <1>2 DEF Exact, SignalMeansSettled, Signalled, SignalMeansFlushed
  <2>6. QED  BY <2>2, <2>3, <2>4, <2>5 DEF Exact
<1>3. QED  BY <1>1, <1>2

(* The three steps between resolving and the fan-out.  There is no page    *)
(* job yet, so what is counted and announced are the seeds.                *)
LEMMA SeedStepExact ==
  ASSUME TypeInv, Exact, SeedCounters \/ ResetStats
  PROVE  Exact'
<1> USE JobTypes DEF TypeInv, TypeOK, QueueType, Goto
<1>1. NoPageJob
  BY DEF Exact, FanOutFirst, SeedCounters, ResetStats, BeforeFanOut, OrchestrateSteps
<1>2. settled = {} /\ announced \subseteq Seeds /\ ~Signalled
  BY <1>1 DEF Exact, FanOutFirst, Signalled, NoPageJob, FinishSteps
<1>3. /\ \A j \in PageJobs : pc'[j] = pc[j]
      /\ pc'[Orchestrate] \in {"running", "fanout"}
      /\ UNCHANGED <<found, shot, settled, seen, finalize>>
  BY DEF SeedCounters, ResetStats
<1>4. NoPageJob' /\ OwnLabels'
  BY <1>1, <1>3 DEF NoPageJob, Exact, OwnLabels, BeforeFanOut, OrchestrateSteps
<1>5. /\ announced' = Seeds /\ total' = Cardinality(Seeds) /\ Done' = 0
  <2>1. CASE SeedCounters
    BY <2>1, <1>2 DEF SeedCounters, InitCounters, NoCounts, Done, Outcomes
  <2>2. CASE ResetStats
    BY <2>2 DEF ResetStats, Exact, FanOutFirst, Counted, Done
  <2>3. QED  BY <2>1, <2>2
<1>6. ~Complete(stats.total, stats.done)'
  <2>1. CASE SeedCounters
    BY <2>1, <1>2 DEF SeedCounters, Signalled
  <2>2. CASE ResetStats
    BY <2>2, FiniteSeeds DEF ResetStats, Complete
  <2>3. QED  BY <2>1, <2>2
<1>7. FanOutFirst' /\ CountersCount'
  BY <1>2, <1>3, <1>4, <1>5, <1>6 DEF FanOutFirst, CountersCount, Signalled
<1>8. OneJobPerPage' /\ FoundIsNew'
  BY <1>1, <1>2, <1>3, <1>4 DEF OneJobPerPage, FoundIsNew, Exact, NoPageJob, BeforeRecord,
     ProcessSteps, Discovering
<1>9. ~Signalled'
  BY <1>2, <1>3, <1>4, <1>6 DEF Signalled, NoPageJob, FinishSteps
<1>10. SignalMeansSettled' /\ SignalMeansFlushed'
  BY <1>4, <1>9 DEF SignalMeansSettled, SignalMeansFlushed, Signalled, NoPageJob,
     FinishSteps
<1>11. QED  BY <1>4, <1>7, <1>8, <1>10 DEF Exact

(* The fan-out gives each seed, announced and counted before, its one      *)
(* fetch.                                                                  *)
LEMMA FanOutExact ==
  ASSUME TypeInv, Exact, FanOut
  PROVE  Exact'
<1> USE JobTypes DEF TypeInv, TypeOK, QueueType
<1>1. NoPageJob /\ announced = Seeds /\ total = Cardinality(Seeds) /\ Done = 0
  BY DEF Exact, FanOutFirst, FanOut, BeforeFanOut, OrchestrateSteps, Counted
<1>2. settled = {} /\ ~Signalled
  BY <1>1 DEF Exact, FanOutFirst, Signalled, NoPageJob, FinishSteps
<1>3. /\ pc'[Orchestrate] = "ack"
      /\ \A j \in PageJobs :
           \/ pc'[j] = "none"
           \/ pc'[j] = "waiting" /\ Kind(j) = "fetch" /\ Page(j) \in Seeds
      /\ seen' = seen \cup Seeds
      /\ UNCHANGED <<found, shot, total, tally, announced, settled, stats, finalize>>
  BY <1>1 DEF FanOut, Enqueued, NoPageJob, Kind, Page, Orchestrate
<1>4. ~NoPageJob'
  <2>1. PICK s \in Seeds : TRUE
    BY PagesAssumption
  <2>2. <<"fetch", s>> \in PageJobs /\ pc[<<"fetch", s>>] = "none"
    BY <1>1, <2>1, PagesAssumption DEF NoPageJob
  <2>3. pc'[<<"fetch", s>>] = "waiting"
    BY <2>1, <2>2 DEF FanOut, Enqueued
  <2>4. QED  BY <2>2, <2>3 DEF NoPageJob
<1>5. OwnLabels'
  BY <1>3 DEF OwnLabels, OrchestrateSteps, LinkSteps
<1>6. FanOutFirst'
  BY <1>3, <1>4 DEF FanOutFirst, BeforeFanOut, OrchestrateSteps, Counted
<1>7. CountersCount'
  BY <1>1, <1>2, <1>3, FS_EmptySet DEF CountersCount, Done
<1>8. OneJobPerPage'
  <2>1. \A p \in Pages : pc'[<<"retry", p>>] = "none" /\ pc'[<<"render", p>>] = "none"
    BY <1>3 DEF Kind
  <2>2. \A j \in PageJobs : pc'[j] \in BeforeRecord => Page(j) \in announced' \ settled'
    BY <1>1, <1>2, <1>3 DEF BeforeRecord, ProcessSteps
  <2>3. QED  BY <1>2, <1>3, <2>1, <2>2 DEF OneJobPerPage
<1>9. FoundIsNew'
  <2>1. \A j \in PageJobs : found[j] = {}
    BY <1>1 DEF Exact, FoundIsNew, NoPageJob, Discovering
  <2>2. QED  BY <1>1, <1>3, <2>1 DEF FoundIsNew
<1>10. ~Signalled'
  BY <1>2, <1>3 DEF Signalled, FinishSteps
<1>11. SignalMeansSettled' /\ SignalMeansFlushed'
  BY <1>3, <1>10 DEF SignalMeansSettled, SignalMeansFlushed, Signalled, FinishSteps
<1>12. QED  BY <1>5, <1>6, <1>7, <1>8, <1>9, <1>11 DEF Exact

(* A page that goes on to be rendered hands its turn to the render job.    *)
LEMMA EnqueueRenderExact ==
  ASSUME TypeInv, Exact, NEW j \in PageJobs, EnqueueRender(j)
  PROVE  Exact'
<1> USE JobTypes DEF TypeInv, TypeOK, QueueType
<1> DEFINE render == <<"render", Page(j)>>
<1>1. pc[j] = "route" /\ render \in PageJobs /\ render \in Jobs
  BY DEF EnqueueRender
<1>2. /\ ~NoPageJob /\ pc[Orchestrate] \notin BeforeFanOut
      /\ ~Signalled /\ finalize = "none" /\ Page(j) \in announced \ settled
  BY <1>1, BusyPage, WorkMeansNoSignal DEF BeforeRecord, ProcessSteps, Exact,
     OneJobPerPage
<1>3. CASE pc[render] # "none" \/ render = j
  <2>1. /\ pc'[j] = "ack"
        /\ \A i \in PageJobs \cup {Orchestrate} : i # j => pc'[i] = pc[i]
    BY <1>1, <1>3 DEF EnqueueRender
  <2>2. QED
    BY <1>1, <2>1, QuietPageExact DEF EnqueueRender, BeforeRecord, ProcessSteps,
       Discovering
<1>4. CASE pc[render] = "none" /\ render # j
  <2>1. /\ pc' = [pc EXCEPT ![j] = "ack", ![render] = "waiting"]
        /\ UNCHANGED <<found, shot, total, tally, announced, settled, seen, stats,
           finalize>>
    BY <1>1, <1>4 DEF EnqueueRender
  <2>2. /\ pc'[j] = "ack" /\ pc'[render] = "waiting"
        /\ \A i \in PageJobs \cup {Orchestrate} : i # j /\ i # render => pc'[i] = pc[i]
    BY <1>1, <1>4, <2>1
  <2>3. ~NoPageJob' /\ OwnLabels'
    BY <1>1, <2>2 DEF NoPageJob, OwnLabels, Exact, OrchestrateSteps, LinkSteps
  <2>4. FanOutFirst' /\ CountersCount'
    BY <1>1, <1>2, <2>1, <2>2, <2>3 DEF FanOutFirst, CountersCount, Exact, Done,
       BeforeFanOut, Counted, OrchestrateSteps
  <2>5. j = <<"fetch", Page(j)>>
    BY <1>1, <1>4, PageJobKinds DEF Exact, OneJobPerPage
  <2>6. OneJobPerPage'
    <3>1. Page(render) = Page(j)
      BY DEF Page
    <3>2. \A i \in PageJobs : pc'[i] \in BeforeRecord => Page(i) \in announced' \ settled'
      BY <1>2, <2>1, <2>2, <3>1 DEF Exact, OneJobPerPage, BeforeRecord, ProcessSteps
    <3>3. ASSUME NEW p \in Pages
          PROVE  /\ pc'[<<"retry", p>>] = "none"
                 /\ pc'[<<"fetch", p>>] \in BeforeRecord \cup {"none"} =>
                      pc'[<<"render", p>>] = "none"
                 /\ p \in settled' => pc'[<<"fetch", p>>] # "none"
      BY <1>1, <2>1, <2>2, <2>5 DEF Exact, OneJobPerPage, BeforeRecord, ProcessSteps
    <3>4. QED  BY <3>2, <3>3 DEF OneJobPerPage
  <2>7. FoundIsNew'
    BY <1>1, <1>2, <1>4, <2>1, <2>2, <2>3 DEF Exact, FoundIsNew, Discovering
  <2>8. ~Signalled'
    BY <1>1, <1>2, <2>1, <2>2 DEF Signalled, FinishSteps
  <2>9. SignalMeansSettled' /\ SignalMeansFlushed'
    BY <2>8 DEF SignalMeansSettled, SignalMeansFlushed, Signalled, FinishSteps
  <2>10. QED  BY <2>3, <2>4, <2>6, <2>7, <2>9 DEF Exact
<1>5. QED  BY <1>3, <1>4

(* A link that is not in seen is in nobody's hands and not announced.      *)
LEMMA MarkSeenExact ==
  ASSUME TypeInv, Exact, NEW j \in PageJobs, MarkSeen(j)
  PROVE  Exact'
<1> USE JobTypes DEF TypeInv, TypeOK, QueueType, MemoryType
<1>1. /\ pc[j] = "discover"
      /\ ~NoPageJob /\ pc[Orchestrate] \notin BeforeFanOut
      /\ ~Signalled /\ finalize = "none" /\ Page(j) \in announced \ settled
  BY BusyPage, WorkMeansNoSignal DEF MarkSeen, BeforeRecord, ProcessSteps, Exact,
     OneJobPerPage
<1>2. PICK q \in todo[j] :
        /\ seen' = seen \cup {q}
        /\ found' = [found EXCEPT ![j] = found[j] \cup ({q} \ seen)]
        /\ \/ pc' = [pc EXCEPT ![j] = "discover"]
           \/ pc' = [pc EXCEPT ![j] = "announce"]
           \/ pc' = [pc EXCEPT ![j] = "record"] /\ found'[j] = {}
        /\ UNCHANGED <<shot, total, tally, announced, settled, stats, finalize>>
  BY DEF MarkSeen, Goto
<1>3. /\ pc'[j] \in {"discover", "announce", "record"}
      /\ \A i \in PageJobs \cup {Orchestrate} : i # j => pc'[i] = pc[i]
      /\ \A i \in PageJobs : i # j => found'[i] = found[i]
      /\ found'[j] = found[j] \cup ({q} \ seen)
  BY <1>2
<1>4. ~NoPageJob' /\ OwnLabels'
  BY <1>3 DEF NoPageJob, OwnLabels, Exact, OrchestrateSteps, LinkSteps
<1>5. FanOutFirst' /\ CountersCount'
  BY <1>1, <1>2, <1>3, <1>4 DEF FanOutFirst, CountersCount, Exact, Done,
     BeforeFanOut, Counted, OrchestrateSteps
<1>6. OneJobPerPage'
  BY <1>1, <1>2, <1>3 DEF OneJobPerPage, Exact, BeforeRecord, ProcessSteps
<1>7. FoundIsNew'
  <2>1. announced' \subseteq seen' /\ \A i \in PageJobs : found'[i] \subseteq seen'
    BY <1>1, <1>2, <1>3 DEF Exact, FoundIsNew
  <2>2. \A i, k \in PageJobs : i # k => found'[i] \cap found'[k] = {}
    BY <1>1, <1>3 DEF Exact, FoundIsNew
  <2>3. found'[j] \cap announced' = {}
    BY <1>1, <1>2, <1>3 DEF Exact, FoundIsNew
  <2>4. ASSUME NEW i \in PageJobs
        PROVE  /\ pc'[i] \notin Discovering => found'[i] = {}
               /\ pc'[i] \in {"discover", "announce"} => found'[i] \cap announced' = {}
               /\ pc'[i] = "enqueue" => found'[i] \subseteq announced'
    BY <1>2, <1>3, <2>3 DEF Exact, FoundIsNew, Discovering
  <2>5. QED  BY <2>1, <2>2, <2>4 DEF FoundIsNew
<1>8. ~Signalled'
  BY <1>1, <1>2, <1>3 DEF Signalled, FinishSteps
<1>9. SignalMeansSettled' /\ SignalMeansFlushed'
  BY <1>8 DEF SignalMeansSettled, SignalMeansFlushed, Signalled, FinishSteps
<1>10. QED  BY <1>4, <1>5, <1>6, <1>7, <1>9 DEF Exact

(* found and announced are disjoint and finite: the total counts both.     *)
LEMMA AddToTotalExact ==
  ASSUME TypeInv, Exact, NEW j \in PageJobs, AddToTotal(j)
  PROVE  Exact'
<1> USE JobTypes DEF TypeInv, TypeOK, QueueType, MemoryType, HistoryType
<1>1. /\ pc[j] = "announce"
      /\ ~NoPageJob /\ pc[Orchestrate] \notin BeforeFanOut
      /\ ~Signalled /\ finalize = "none" /\ Page(j) \in announced \ settled
  BY BusyPage, WorkMeansNoSignal DEF AddToTotal, BeforeRecord, ProcessSteps, Exact,
     OneJobPerPage
<1>2. /\ pc'[j] = "enqueue"
      /\ \A i \in PageJobs \cup {Orchestrate} : i # j => pc'[i] = pc[i]
      /\ announced' = announced \cup found[j]
      /\ total' = total + Cardinality(found[j])
      /\ UNCHANGED <<found, shot, tally, settled, seen, stats, finalize>>
  BY DEF AddToTotal, Goto
<1>3. ~NoPageJob' /\ OwnLabels'
  BY <1>2 DEF NoPageJob, OwnLabels, Exact, OrchestrateSteps, LinkSteps
<1>4. FanOutFirst'
  BY <1>1, <1>2, <1>3 DEF FanOutFirst, BeforeFanOut, Counted, OrchestrateSteps
<1>5. CountersCount'
  <2>1. found[j] \cap announced = {}
    BY <1>1 DEF Exact, FoundIsNew
  <2>2. Cardinality(announced') = Cardinality(announced) + Cardinality(found[j])
    <3>1. IsFiniteSet(announced) /\ IsFiniteSet(found[j])
      BY FiniteAnnounced
    <3>2. Cardinality(announced \cup found[j])
            = Cardinality(announced) + Cardinality(found[j])
                - Cardinality(announced \cap found[j])
      BY <3>1, FS_Union
    <3>3. Cardinality(announced \cap found[j]) = 0
      BY <2>1, FS_EmptySet
    <3>4. QED  BY <1>2, <3>1, <3>2, <3>3, FS_CardinalityType
  <2>3. QED  BY <1>1, <1>2, <2>2 DEF CountersCount, Exact, Done
<1>6. OneJobPerPage'
  BY <1>1, <1>2 DEF OneJobPerPage, Exact, BeforeRecord, ProcessSteps
<1>7. FoundIsNew'
  BY <1>1, <1>2 DEF FoundIsNew, Exact, Discovering
<1>8. ~Signalled'
  BY <1>1, <1>2 DEF Signalled, FinishSteps
<1>9. SignalMeansSettled' /\ SignalMeansFlushed'
  BY <1>8 DEF SignalMeansSettled, SignalMeansFlushed, Signalled, FinishSteps
<1>10. QED  BY <1>3, <1>4, <1>5, <1>6, <1>7, <1>9 DEF Exact

(* The job of an announced page is new only if the page has not settled.   *)
LEMMA EnqueuePageFetchExact ==
  ASSUME TypeInv, Exact, NEW j \in PageJobs, EnqueuePageFetch(j)
  PROVE  Exact'
<1> USE JobTypes DEF TypeInv, TypeOK, QueueType, MemoryType
<1>1. /\ pc[j] = "enqueue" /\ found[j] \subseteq announced
      /\ ~NoPageJob /\ pc[Orchestrate] \notin BeforeFanOut
      /\ ~Signalled /\ finalize = "none" /\ Page(j) \in announced \ settled
  BY BusyPage, WorkMeansNoSignal DEF EnqueuePageFetch, BeforeRecord, ProcessSteps, Exact,
     OneJobPerPage, FoundIsNew
<1>2. /\ pc'[j] = "record"
      /\ \A i \in PageJobs \cup {Orchestrate} : i # j =>
           \/ pc'[i] = pc[i]
           \/ /\ pc[i] = "none" /\ pc'[i] = "waiting"
              /\ i \in PageJobs /\ i \in {"fetch"} \X found[j]
      /\ found'[j] = {} /\ \A i \in PageJobs : i # j => found'[i] = found[i]
      /\ UNCHANGED <<shot, total, tally, announced, settled, seen, stats, finalize>>
  <2>1. /\ pc' = [i \in Jobs |-> IF i \in Enqueued(found[j]) THEN "waiting"
                                 ELSE IF i = j THEN "record" ELSE pc[i]]
        /\ found' = [found EXCEPT ![j] = {}]
        /\ UNCHANGED <<shot, total, tally, announced, settled, seen, stats, finalize>>
    BY DEF EnqueuePageFetch
  <2>2. j \notin Enqueued(found[j])
    BY <1>1 DEF Enqueued
  <2>3. \A i \in Enqueued(found[j]) :
          i \in PageJobs /\ i \in {"fetch"} \X found[j] /\ pc[i] = "none"
    BY DEF Enqueued, PageJobs
  <2>4. QED  BY <2>1, <2>2, <2>3
<1>3. ~NoPageJob' /\ OwnLabels'
  BY <1>1, <1>2 DEF NoPageJob, OwnLabels, Exact, OrchestrateSteps, LinkSteps
<1>4. FanOutFirst' /\ CountersCount'
  BY <1>1, <1>2, <1>3 DEF FanOutFirst, CountersCount, Exact, Done, BeforeFanOut, Counted,
     OrchestrateSteps
<1>5. OneJobPerPage'
  <2>1. ASSUME NEW i \in PageJobs, pc[i] = "none", pc'[i] = "waiting"
        PROVE  i = <<"fetch", Page(i)>> /\ Page(i) \in announced \ settled
    <3>1. i # j
      BY <1>1, <2>1
    <3>2. i \in {"fetch"} \X found[j]
      BY <1>2, <2>1, <3>1
    <3>3. i = <<"fetch", Page(i)>> /\ Page(i) \in found[j]
      BY <3>2 DEF Page
    <3>4. QED  BY <1>1, <2>1, <3>3 DEF Exact, OneJobPerPage
  <2>2. \A i \in PageJobs : pc'[i] \in BeforeRecord => Page(i) \in announced' \ settled'
    BY <1>1, <1>2, <2>1 DEF Exact, OneJobPerPage
  <2>3. \A p \in Pages :
          /\ pc'[<<"retry", p>>] = pc[<<"retry", p>>]
               \/ pc[<<"retry", p>>] = "enqueue"
          /\ pc'[<<"render", p>>] = pc[<<"render", p>>]
               \/ pc[<<"render", p>>] = "enqueue"
          /\ pc'[<<"fetch", p>>] # "none" \/ pc[<<"fetch", p>>] = "none"
    BY <1>1, <1>2
  <2>4. ASSUME NEW p \in Pages
        PROVE  /\ pc'[<<"retry", p>>] = "none"
               /\ pc'[<<"fetch", p>>] \in BeforeRecord \cup {"none"} =>
                    pc'[<<"render", p>>] = "none"
               /\ p \in settled' => pc'[<<"fetch", p>>] # "none"
    BY <1>1, <1>2, <2>3 DEF Exact, OneJobPerPage, BeforeRecord, ProcessSteps
  <2>5. QED  BY <2>2, <2>4 DEF OneJobPerPage
<1>6. FoundIsNew'
  BY <1>1, <1>2, <1>3 DEF FoundIsNew, Exact, Discovering
<1>7. ~Signalled'
  BY <1>1, <1>2 DEF Signalled, FinishSteps
<1>8. SignalMeansSettled' /\ SignalMeansFlushed'
  BY <1>7 DEF SignalMeansSettled, SignalMeansFlushed, Signalled, FinishSteps
<1>9. QED  BY <1>3, <1>4, <1>5, <1>6, <1>8 DEF Exact

(* The page was not settled: the outcome counters and settled grow by one  *)
(* page together, and reach the total when settled reaches announced.      *)
LEMMA RecordPageExact ==
  ASSUME TypeInv, Exact, NEW j \in PageJobs, RecordPage(j)
  PROVE  Exact'
<1> USE JobTypes DEF TypeInv, TypeOK, QueueType, MemoryType, HistoryType
<1>1. /\ pc[j] = "record"
      /\ ~NoPageJob /\ pc[Orchestrate] \notin BeforeFanOut
      /\ ~Signalled /\ finalize = "none" /\ Page(j) \in announced \ settled
  BY BusyPage, WorkMeansNoSignal DEF RecordPage, BeforeRecord, ProcessSteps, Exact,
     OneJobPerPage
<1>2. /\ pc'[j] \in {"flush", "ack"}
      /\ \A i \in PageJobs \cup {Orchestrate} : i # j => pc'[i] = pc[i]
      /\ settled' = settled \cup {Page(j)}
      /\ \A i \in PageJobs : i # j => shot'[i] = shot[i]
      /\ UNCHANGED <<found, total, announced, seen, stats, finalize>>
  BY DEF RecordPage, Goto
<1>3. pc'[j] = "flush" => /\ Complete(total, Done + 1)
                          /\ shot'[j].total = total /\ shot'[j].done = Done + 1
  BY DEF RecordPage, Goto
<1>4. ~NoPageJob' /\ OwnLabels'
  BY <1>2 DEF NoPageJob, OwnLabels, Exact, OrchestrateSteps, LinkSteps
<1>5. FanOutFirst'
  BY <1>1, <1>2, <1>4 DEF FanOutFirst, BeforeFanOut, Counted, OrchestrateSteps
<1>6. Done' = Done + 1 /\ Done \in Nat
  <2>1. outcome[j] \in Outcomes /\ tally' = [tally EXCEPT ![outcome[j]] = @ + 1]
    BY DEF RecordPage
  <2>2. QED  BY <2>1 DEF Done, CounterType, Outcomes
<1>7. /\ Cardinality(settled') = Cardinality(settled) + 1
      /\ settled' \subseteq announced
  BY <1>1, <1>2, FiniteAnnounced, FS_AddElement DEF Exact, CountersCount
<1>8. CountersCount'
  BY <1>1, <1>2, <1>6, <1>7 DEF CountersCount, Exact
<1>9. OneJobPerPage'
  <2>1. ASSUME NEW i \in PageJobs, i # j, pc[i] \in BeforeRecord
        PROVE  Page(i) # Page(j)
    BY <1>1, <2>1, PageJobKinds DEF Exact, OneJobPerPage, BeforeRecord, ProcessSteps
  <2>2. \A i \in PageJobs : pc'[i] \in BeforeRecord => Page(i) \in announced' \ settled'
    BY <1>2, <2>1 DEF Exact, OneJobPerPage, BeforeRecord, ProcessSteps
  <2>3. pc[<<"fetch", Page(j)>>] # "none"
    BY <1>1, PageJobKinds DEF Exact, OneJobPerPage
  <2>4. ASSUME NEW p \in Pages
        PROVE  /\ pc'[<<"retry", p>>] = "none"
               /\ pc'[<<"fetch", p>>] \in BeforeRecord \cup {"none"} =>
                    pc'[<<"render", p>>] = "none"
               /\ p \in settled' => pc'[<<"fetch", p>>] # "none"
    BY <1>1, <1>2, <2>3 DEF Exact, OneJobPerPage, BeforeRecord, ProcessSteps
  <2>5. QED  BY <2>2, <2>4 DEF OneJobPerPage
<1>10. FoundIsNew'
  BY <1>1, <1>2 DEF FoundIsNew, Exact, Discovering
<1>11. SignalMeansSettled'
  <2>1. Signalled' => pc'[j] = "flush"
    BY <1>1, <1>2 DEF Signalled, FinishSteps
  <2>2. pc'[j] = "flush" => announced = settled'
    <3>1. SUFFICES ASSUME pc'[j] = "flush" PROVE announced = settled'
      OBVIOUS
    <3>2. Cardinality(settled') >= Cardinality(announced)
      <4>1. Done + 1 >= total
        BY <1>3, <3>1 DEF Complete
      <4>2. total = Cardinality(announced) /\ Done = Cardinality(settled)
        BY <1>1 DEF Exact, CountersCount
      <4>3. QED  BY <1>7, <4>1, <4>2
    <3>3. IsFiniteSet(announced) /\ settled' \in SUBSET announced
      BY <1>7, FiniteAnnounced
    <3>4. QED  BY <3>2, <3>3, WholeSubset
  <2>3. QED  BY <1>2, <2>1, <2>2 DEF SignalMeansSettled
<1>12. SignalMeansFlushed'
  BY <1>1, <1>2, <1>3 DEF SignalMeansFlushed, Signalled, FinishSteps, Complete
<1>13. QED  BY <1>4, <1>5, <1>8, <1>9, <1>10, <1>11, <1>12 DEF Exact

(* The rest of finishPage and the finalizer: all pages have settled.       *)
LEMMA UpdateStatsExact ==
  ASSUME TypeInv, Exact, NEW j \in PageJobs, UpdateStats(j)
  PROVE  Exact'
<1> USE JobTypes DEF TypeInv, TypeOK, QueueType, MemoryType
<1>1. /\ pc[j] = "flush" /\ Complete(shot[j].total, shot[j].done)
      /\ ~NoPageJob /\ pc[Orchestrate] \notin BeforeFanOut
      /\ announced \subseteq settled
  BY BusyPage DEF UpdateStats, Exact, SignalMeansSettled, SignalMeansFlushed, Signalled,
     FinishSteps
<1>2. /\ pc'[j] = "signal" /\ stats' = shot[j]
      /\ \A i \in PageJobs \cup {Orchestrate} : i # j => pc'[i] = pc[i]
      /\ \A i \in PageJobs : i # j => shot'[i] = shot[i]
      /\ UNCHANGED <<found, total, tally, announced, settled, seen, finalize>>
  BY DEF UpdateStats, Goto
<1>3. ~NoPageJob' /\ OwnLabels'
  BY <1>2 DEF NoPageJob, OwnLabels, Exact, OrchestrateSteps, LinkSteps
<1>4. FanOutFirst' /\ CountersCount'
  BY <1>1, <1>2, <1>3 DEF FanOutFirst, CountersCount, Exact, Done, BeforeFanOut, Counted,
     OrchestrateSteps
<1>5. OneJobPerPage'
  BY <1>1, <1>2 DEF OneJobPerPage, Exact, BeforeRecord, ProcessSteps
<1>6. FoundIsNew'
  BY <1>1, <1>2, <1>3 DEF FoundIsNew, Exact, Discovering
<1>7. SignalMeansSettled' /\ SignalMeansFlushed'
  BY <1>1, <1>2 DEF SignalMeansSettled, SignalMeansFlushed, Exact
<1>8. QED  BY <1>3, <1>4, <1>5, <1>6, <1>7 DEF Exact

(* A job signals finalize only after counters that were complete.          *)
LEMMA EnqueueFinalizeExact ==
  ASSUME TypeInv, Exact, NEW j \in PageJobs, EnqueueFinalize(j)
  PROVE  Exact'
<1> USE JobTypes DEF TypeInv, TypeOK, QueueType, DataType
<1>1. /\ pc[j] = "signal" /\ Complete(stats.total, stats.done)
      /\ ~NoPageJob /\ pc[Orchestrate] \notin BeforeFanOut
      /\ announced \subseteq settled
  BY BusyPage DEF EnqueueFinalize, Exact, SignalMeansSettled, SignalMeansFlushed,
     Signalled,
     FinishSteps
<1>2. /\ pc'[j] = "ack" /\ finalize' # "none"
      /\ \A i \in PageJobs \cup {Orchestrate} : i # j => pc'[i] = pc[i]
      /\ UNCHANGED <<found, shot, total, tally, announced, settled, seen, stats>>
  BY DEF EnqueueFinalize, Goto
<1>3. ~NoPageJob' /\ OwnLabels'
  BY <1>2 DEF NoPageJob, OwnLabels, Exact, OrchestrateSteps, LinkSteps
<1>4. FanOutFirst' /\ CountersCount'
  BY <1>1, <1>2, <1>3 DEF FanOutFirst, CountersCount, Exact, Done, BeforeFanOut, Counted,
     OrchestrateSteps
<1>5. OneJobPerPage'
  BY <1>1, <1>2 DEF OneJobPerPage, Exact, BeforeRecord, ProcessSteps
<1>6. FoundIsNew'
  BY <1>1, <1>2, <1>3 DEF FoundIsNew, Exact, Discovering
<1>7. SignalMeansSettled' /\ SignalMeansFlushed'
  BY <1>1, <1>2 DEF SignalMeansSettled, SignalMeansFlushed, Exact
<1>8. QED  BY <1>3, <1>4, <1>5, <1>6, <1>7 DEF Exact

(* Finalize and the watchdog read the counts and change none of them.      *)
LEMMA FinalizeExact ==
  ASSUME TypeInv, Exact, FinalizeStep \/ ReapStuckCrawls
  PROVE  Exact'
<1> USE JobTypes DEF FinalizeStep, FinalizeCancelled, FinalizeReady, ReapStuckCrawls
<1>1. /\ finalize' # "none" /\ Signalled /\ ~NoPageJob
      /\ Complete(stats.total, stats.done)
  BY DEF Signalled, Exact, FanOutFirst, SignalMeansFlushed
<1>2. UNCHANGED <<pc, found, shot, total, tally, announced, settled, stats>>
  OBVIOUS
<1>3. NoPageJob' = NoPageJob /\ OwnLabels' /\ OneJobPerPage'
  BY <1>2 DEF NoPageJob, OwnLabels, OneJobPerPage, Exact
<1>4. FanOutFirst' /\ CountersCount'
  BY <1>1, <1>2, <1>3 DEF FanOutFirst, CountersCount, Exact, Done
<1>5. FoundIsNew'
  BY <1>1, <1>2, <1>3 DEF FoundIsNew, Exact
<1>6. SignalMeansSettled' /\ SignalMeansFlushed'
  BY <1>1, <1>2 DEF SignalMeansSettled, SignalMeansFlushed, Signalled, Exact
<1>7. QED  BY <1>3, <1>4, <1>5, <1>6 DEF Exact

-----------------------------------------------------------------------------

IndInv == TypeInv /\ (~repeated => Exact)

(* Until a job runs again after its work showed, each step keeps Exact.    *)
LEMMA NextExact ==
  ASSUME TypeInv, Exact, [Next]_vars, ~repeated'
  PROVE  Exact'
<1>1. ASSUME OrchestrateStep PROVE Exact'
  BY <1>1, QuietOrchestrateExact, ResolveExact, SeedStepExact, FanOutExact
  DEF OrchestrateStep
<1>2. ASSUME NEW j \in PageJobs, PageStep(j) PROVE Exact'
  BY <1>2, QuietPageStepExact, EnqueueRenderExact, MarkSeenExact, AddToTotalExact,
     EnqueuePageFetchExact, RecordPageExact, UpdateStatsExact, EnqueueFinalizeExact
  DEF PageStep
<1>3. ASSUME NEW j \in LinkJobs, LinkStep(j) PROVE Exact'
  BY <1>3, QuietLinkExact DEF LinkStep
<1>4. ASSUME NEW j \in Jobs, Ack(j) \/ Fault(j) PROVE Exact'
  BY <1>4, AckExact, FaultExact
<1>5. ASSUME FinalizeStep \/ ReapStuckCrawls PROVE Exact'
  BY <1>5, FinalizeExact
<1>6. ASSUME ApiStep \/ (\E op \in Controls : Request(op)) \/ UNCHANGED vars PROVE Exact'
  BY <1>6, QuietApiExact
<1>7. ~RetryFailed
  BY DEF RetryFailed
<1>8. QED  BY <1>1, <1>2, <1>3, <1>4, <1>5, <1>6, <1>7 DEF Next

(* Nothing clears repeated.                                                *)
LEMMA RepeatedStays == ASSUME TypeInv, [Next]_vars, repeated PROVE repeated'
<1>1. ASSUME NEW j \in PageJobs, PageStep(j) PROVE repeated'
  BY <1>1 DEF PageStep, ProcessFetch, BeginRender, ProcessRendered, EnqueueRender,
     CarryForward, CopyIssues, CopyForCarryForward,
     PersistFetchError, PersistPage, MarkLinkTargets,
     IncrLinkBatches, EnqueueLinkCheck, MarkSeen, AddToTotal, EnqueuePageFetch,
        RecordPage,
     UpdateStats, EnqueueFinalize
<1>2. ASSUME NEW j \in Jobs, Ack(j) \/ Fault(j) PROVE repeated'
  BY <1>2 DEF Ack, Fault, Throw, Stall, Redeliver
<1>3. ASSUME OrchestrateStep PROVE repeated'
  BY <1>3 DEF OrchestrateStep, OrchestrateStart, Resolve, SeedCounters, SetRunning,
     ResetStats, FanOut
<1>4. ASSUME NEW j \in LinkJobs, LinkStep(j) PROVE repeated'
  BY <1>4 DEF LinkStep, CheckLinks, DecrLinkBatches
<1>5. ASSUME FinalizeStep \/ ReapStuckCrawls \/ RetryFailed PROVE repeated'
  BY <1>5 DEF FinalizeStep, FinalizeCancelled, FinalizeReady, ReapStuckCrawls, RetryFailed
<1>6. ASSUME ApiStep \/ (\E op \in Controls : Request(op)) \/ UNCHANGED vars PROVE repeated'
  BY <1>6 DEF ApiStep, PauseFlag, PauseStatus, ResumeFlag, ResumeStatus, CancelFlag,
     CancelUnpause, Request, vars
<1>7. QED  BY <1>1, <1>2, <1>3, <1>4, <1>5, <1>6 DEF Next

(* The inductive invariant: the types, and Exact until a job has run       *)
(* twice.                                                                  *)
LEMMA Inductive == Safe => []IndInv
<1>1. Init => IndInv
  BY InitType, InitExact DEF IndInv
<1>2. IndInv /\ [Next]_vars => IndInv'
  BY NextType, NextExact, RepeatedStays DEF IndInv
<1>3. QED  BY <1>1, <1>2, PTL DEF Safe

(* No interleaving of fetching, rendering, discovery, control requests and *)
(* deaths before a job counted its page signals the finalizer while an     *)
(* announced page is open.                                                 *)
THEOREM CompletionCorrect == Safe => []CompletionIsExact
<1>1. IndInv => CompletionIsExact
  BY DEF IndInv, Exact, SignalMeansSettled, Signalled, CompletionIsExact
<1>2. QED  BY <1>1, Inductive, PTL

(* Whenever the finalizer was signalled, the watchdog's query matches.     *)
THEOREM WatchdogCorrect == Safe => []WatchdogCanSee
<1>1. IndInv => WatchdogCanSee
  BY DEF IndInv, Exact, SignalMeansFlushed, WatchdogCanSee
<1>2. QED  BY <1>1, Inductive, PTL
-----------------------------------------------------------------------------
(* Refinement of CrawlBarrier.  A step that leaves the sets of pages and   *)
(* the finalize job alone is a stutter; the others are its actions, by the *)
(* invariant.                                                              *)

(* Nothing is announced, settled or signalled at first.                    *)
LEMMA BarrierInit == Init => Barrier!Init
  BY DEF Init, Barrier!Init

(* A crawl with a page job has announced a page: its seeds, at the least.  *)
Started == NoPageJob \/ announced # {}

(* No page is ever taken back from the total.                              *)
LEMMA AnnouncedGrows == TypeInv /\ [Next]_vars => announced \subseteq announced'
<1> SUFFICES ASSUME [Next]_vars PROVE announced \subseteq announced'
  OBVIOUS
<1>1. ASSUME NEW j \in PageJobs, PageStep(j) PROVE announced \subseteq announced'
  BY <1>1 DEF PageStep, ProcessFetch, BeginRender, ProcessRendered, EnqueueRender,
     CarryForward, CopyIssues, CopyForCarryForward,
     PersistFetchError, PersistPage, MarkLinkTargets,
     IncrLinkBatches, EnqueueLinkCheck, MarkSeen, AddToTotal, EnqueuePageFetch,
     RecordPage, UpdateStats, EnqueueFinalize, history
<1>2. ASSUME OrchestrateStep PROVE announced \subseteq announced'
  BY <1>2 DEF OrchestrateStep, OrchestrateStart, Resolve, SeedCounters, SetRunning,
     ResetStats, FanOut, history
<1>3. ASSUME NEW j \in Jobs, Ack(j) \/ Fault(j) PROVE announced \subseteq announced'
  BY <1>3 DEF Ack, Fault, history
<1>4. ASSUME NEW j \in LinkJobs, LinkStep(j) PROVE announced \subseteq announced'
  BY <1>4 DEF LinkStep, CheckLinks, DecrLinkBatches, history
<1>5. ASSUME FinalizeStep \/ ReapStuckCrawls \/ RetryFailed
      PROVE  announced \subseteq announced'
  BY <1>5 DEF FinalizeStep, FinalizeCancelled, FinalizeReady, ReapStuckCrawls,
     RetryFailed, history
<1>6. ASSUME ApiStep \/ (\E op \in Controls : Request(op)) \/ UNCHANGED vars
      PROVE  announced \subseteq announced'
  BY <1>6 DEF ApiStep, PauseFlag, PauseStatus, ResumeFlag, ResumeStatus, CancelFlag,
     CancelUnpause, Request, vars, history
<1>7. QED  BY <1>1, <1>2, <1>3, <1>4, <1>5, <1>6 DEF Next

(* The first page job comes from the fan-out, whose seeds are announced.   *)
LEMMA StartedStep ==
  ASSUME TypeInv, Exact, Started, [Next]_vars, ~repeated'
  PROVE  Started'
<1> USE JobTypes DEF TypeInv, TypeOK, QueueType, NoPageJob
<1>1. CASE announced # {}
  BY <1>1, AnnouncedGrows DEF Started
<1>2. CASE NoPageJob
  <2>1. ASSUME FanOut PROVE announced' # {}
    BY <2>1, PagesAssumption DEF FanOut, Exact, FanOutFirst, Counted, history
  <2>2. ASSUME OrchestrateStep, ~FanOut PROVE NoPageJob'
    BY <1>2, <2>2 DEF OrchestrateStep, OrchestrateStart, Resolve, SeedCounters, SetRunning,
       ResetStats, Goto
  <2>3. ASSUME NEW j \in PageJobs, PageStep(j) PROVE FALSE
    BY <1>2, <2>3 DEF PageStep, ProcessFetch, BeginRender, ProcessRendered,
       EnqueueRender, CarryForward, CopyIssues, CopyForCarryForward,
       PersistFetchError, PersistPage,
       MarkLinkTargets, IncrLinkBatches, EnqueueLinkCheck, MarkSeen, AddToTotal,
       EnqueuePageFetch, RecordPage, UpdateStats, EnqueueFinalize
  <2>4. ASSUME NEW j \in Jobs, Ack(j) \/ Fault(j) PROVE NoPageJob'
    <3>1. pc[j] # "none" /\ \A i \in PageJobs : i # j => pc'[i] = pc[i]
      BY <2>4 DEF Ack, Fault, Throw, Stall, Redeliver, Goto, Live, OrchestrateSteps,
         ProcessSteps, FinishSteps, LinkSteps
    <3>2. QED  BY <1>2, <3>1
  <2>5. ASSUME NEW j \in LinkJobs, LinkStep(j) PROVE NoPageJob'
    BY <1>2, <2>5 DEF LinkStep, CheckLinks, DecrLinkBatches, Goto
  <2>6. ASSUME \/ FinalizeStep \/ ReapStuckCrawls \/ ApiStep
               \/ (\E op \in Controls : Request(op)) \/ UNCHANGED vars
        PROVE  NoPageJob'
    BY <1>2, <2>6 DEF FinalizeStep, FinalizeCancelled, FinalizeReady, ReapStuckCrawls,
       ApiStep, PauseFlag, PauseStatus, ResumeFlag, ResumeStatus, CancelFlag,
       CancelUnpause, Request, vars, queue
  <2>7. ~RetryFailed
    BY DEF RetryFailed
  <2>8. QED  BY <2>1, <2>2, <2>3, <2>4, <2>5, <2>6, <2>7 DEF Next, Started
<1>3. QED  BY <1>1, <1>2 DEF Started

(* Finalize is never signalled for a crawl without pages.                  *)
LEMMA SignalledStarted ==
  ASSUME TypeInv, Exact, Started, Signalled
  PROVE  announced # {}
  BY DEF Exact, FanOutFirst, Signalled, Started, NoPageJob, FinishSteps

(* A step that leaves pages alone and does not signal is a stutter.        *)
LEMMA BarrierStutter ==
  ASSUME TypeInv, TypeInv', ~repeated, ~repeated', UNCHANGED <<announced, settled>>,
         finalize' = "none" <=> finalize = "none"
  PROVE  UNCHANGED Barrier!vars
<1>1. repeated' = repeated
  BY DEF TypeInv, TypeOK, HistoryType
<1>2. (finalize # "none")' = (finalize # "none")
  OBVIOUS
<1>3. QED  BY <1>1, <1>2, Zenon DEF Barrier!vars

(* The page steps that count, announce or signal.                          *)
LEMMA PageStepBarrier ==
  ASSUME TypeInv, TypeInv', Exact, Started, NEW j \in PageJobs, PageStep(j),
         ~repeated, ~repeated'
  PROVE  [Barrier!Next]_Barrier!vars
<1> USE JobTypes DEF TypeInv, TypeOK, QueueType, MemoryType, HistoryType
<1>1. CASE AddToTotal(j)
  <2>1. finalize = "none" /\ Page(j) \in announced \ settled /\ found[j] \subseteq Pages
    BY <1>1, WorkMeansNoSignal DEF AddToTotal, BeforeRecord, ProcessSteps, Exact,
       OneJobPerPage
  <2>2. announced' = announced \cup (found[j] \ announced)
    BY <1>1 DEF AddToTotal
  <2>3. UNCHANGED <<settled, finalize>>
    BY <1>1 DEF AddToTotal
  <2>4. Barrier!Announce
    BY <2>1, <2>2, <2>3 DEF Barrier!Announce, Barrier!Open
  <2>5. QED  BY <2>4 DEF Barrier!Next
<1>2. CASE RecordPage(j)
  <2>1. finalize = "none" /\ Page(j) \in announced \ settled
    BY <1>2, WorkMeansNoSignal DEF RecordPage, BeforeRecord, ProcessSteps, Exact,
       OneJobPerPage
  <2>2. settled' = settled \cup {Page(j)} /\ UNCHANGED <<announced, finalize>>
    BY <1>2 DEF RecordPage
  <2>3. Barrier!Settle
    BY <2>1, <2>2 DEF Barrier!Settle, Barrier!Open
  <2>4. QED  BY <2>3 DEF Barrier!Next
<1>3. CASE EnqueueFinalize(j)
  <2>1. UNCHANGED <<announced, settled>> /\ finalize' # "none"
    BY <1>3 DEF EnqueueFinalize
  <2>2. CASE finalize # "none"
    BY <2>1, <2>2, BarrierStutter
  <2>3. CASE finalize = "none"
    <3>1. announced \subseteq settled
      BY <1>3 DEF EnqueueFinalize, Exact, SignalMeansSettled, Signalled, FinishSteps
    <3>2. announced # {}
      BY <1>3, SignalledStarted DEF EnqueueFinalize, Signalled, FinishSteps
    <3>3. Barrier!Signal
      BY <2>1, <2>3, <3>1, <3>2 DEF Barrier!Signal, Barrier!Open
    <3>4. QED  BY <3>3 DEF Barrier!Next
  <2>4. QED  BY <2>2, <2>3
<1>4. CASE UNCHANGED <<announced, settled, finalize>>
  BY <1>4, BarrierStutter
<1>5. AddToTotal(j) \/ RecordPage(j) \/ EnqueueFinalize(j)
        \/ UNCHANGED <<announced, settled, finalize>>
  BY DEF PageStep, ProcessFetch, BeginRender, ProcessRendered, EnqueueRender,
     CarryForward, CopyIssues, CopyForCarryForward,
     PersistFetchError, PersistPage, MarkLinkTargets,
     IncrLinkBatches, EnqueueLinkCheck, MarkSeen, EnqueuePageFetch, UpdateStats, history
<1>6. QED  BY <1>1, <1>2, <1>3, <1>4, <1>5

(* Every other step that is not a stutter announces the seeds, signals, or *)
(* disturbs.                                                               *)
LEMMA OtherStepBarrier ==
  ASSUME TypeInv, TypeInv', Exact, Started, ~repeated, ~repeated',
         \/ OrchestrateStep
         \/ \E j \in LinkJobs : LinkStep(j)
         \/ \E j \in Jobs : Ack(j) \/ Fault(j)
         \/ FinalizeStep \/ ReapStuckCrawls \/ ApiStep
         \/ \E op \in Controls : Request(op)
         \/ UNCHANGED vars
  PROVE  [Barrier!Next]_Barrier!vars
<1> USE JobTypes DEF TypeInv, TypeOK, HistoryType
<1>1. CASE SeedCounters
  <2>1. NoPageJob
    BY <1>1 DEF SeedCounters, Exact, FanOutFirst, BeforeFanOut, OrchestrateSteps
  <2>2. settled = {} /\ announced \subseteq Seeds /\ finalize = "none"
    BY <2>1 DEF Exact, FanOutFirst
  <2>3. announced' = announced \cup (Seeds \ announced) /\ UNCHANGED <<settled, finalize>>
    BY <1>1 DEF SeedCounters
  <2>4. Barrier!Announce
    BY <2>2, <2>3, PagesAssumption DEF Barrier!Announce, Barrier!Open
  <2>5. QED  BY <2>4 DEF Barrier!Next
<1>2. CASE ReapStuckCrawls
  <2>1. Signalled /\ finalize = "none" /\ finalize' # "none"
    BY <1>2 DEF ReapStuckCrawls, Signalled
  <2>2. announced \subseteq settled /\ announced # {}
    BY <2>1, SignalledStarted DEF Exact, SignalMeansSettled
  <2>3. Barrier!Signal
    BY <1>2, <2>1, <2>2 DEF ReapStuckCrawls, history, Barrier!Signal, Barrier!Open
  <2>4. QED  BY <2>3 DEF Barrier!Next
<1>3. CASE FinalizeStep
  BY <1>3, BarrierStutter DEF FinalizeStep, FinalizeCancelled, FinalizeReady, history
<1>4. CASE UNCHANGED <<announced, settled, finalize>>
  BY <1>4, BarrierStutter
<1>5. ASSUME OrchestrateStep, ~SeedCounters
      PROVE  UNCHANGED <<announced, settled, finalize>>
  BY <1>5 DEF OrchestrateStep, OrchestrateStart, Resolve, SetRunning, ResetStats, FanOut,
     history
<1>6. ASSUME NEW j \in LinkJobs, LinkStep(j) PROVE UNCHANGED <<announced, settled, finalize>>
  BY <1>6 DEF LinkStep, CheckLinks, DecrLinkBatches, history
<1>7. ASSUME NEW j \in Jobs, Ack(j) \/ Fault(j)
      PROVE  UNCHANGED <<announced, settled, finalize>>
  BY <1>7 DEF Ack, Fault, history
<1>8. ASSUME ApiStep \/ (\E op \in Controls : Request(op)) \/ UNCHANGED vars
      PROVE  UNCHANGED <<announced, settled, finalize>>
  BY <1>8 DEF ApiStep, PauseFlag, PauseStatus, ResumeFlag, ResumeStatus, CancelFlag,
     CancelUnpause, Request, vars, history
<1>9. QED  BY <1>1, <1>2, <1>3, <1>4, <1>5, <1>6, <1>7, <1>8

(* Every step of the pipeline is a step of the barrier, or none.           *)
LEMMA NextBarrier ==
  ASSUME TypeInv, ~repeated => Exact /\ Started, [Next]_vars
  PROVE  [Barrier!Next]_Barrier!vars
<1>1. CASE repeated'
  BY <1>1 DEF Barrier!Next, Barrier!Disturb
<1>2. CASE ~repeated'
  <2>1. ~repeated
    BY <1>2, RepeatedStays
  <2>2. ~RetryFailed
    BY <1>2 DEF RetryFailed
  <2>3. TypeInv'
    BY NextType
  <2>4. QED  BY <1>2, <2>1, <2>2, <2>3, PageStepBarrier, OtherStepBarrier DEF Next
<1>3. QED  BY <1>1, <1>2

(* The pipeline of counters and queues implements the plain barrier: the   *)
(* workers of finishPage and expandDiscovery, the orchestrator and the     *)
(* watchdog take only its steps, until a job is delivered again after its  *)
(* work showed.                                                            *)
THEOREM BarrierImplemented == Safe => ImplementsBarrier
<1> DEFINE Inv == IndInv /\ (~repeated => Started)
<1>1. Init => Inv
  BY InitType, InitExact, JobTypes DEF IndInv, Started, NoPageJob, Init
<1>2. Inv /\ [Next]_vars => Inv'
  BY NextType, NextExact, RepeatedStays, StartedStep DEF IndInv
<1>3. Inv /\ [Next]_vars => [Barrier!Next]_Barrier!vars
  BY NextBarrier DEF IndInv
<1>4. QED
  BY <1>1, <1>2, <1>3, BarrierInit, PTL DEF Safe, ImplementsBarrier, Barrier!Spec

-----------------------------------------------------------------------------
(* Results: what page_snapshots and the link checks hold when the live     *)
(* counters and the finalizer speak of them; for the link checks, where    *)
(* the website is not deleted meanwhile.                                   *)
(*                                                                         *)
(* The invariant Told: a handler between its snapshot and its count holds  *)
(* the outcome that its page's snapshot has, and the counters count the    *)
(* settled pages by snapshot.  It needs Exact: a page has one job at a     *)
(* time, so no other handler replaces the snapshot in between, and a       *)
(* settled page has none left.                                             *)
(*                                                                         *)
(* The invariant Linked: its first half follows a link target from the     *)
(* moment a handler marks it to its result: it is in the hands of that one *)
(* handler, or in a job, or checked, and the counter of open batches is at *)
(* least the number of targets on their way.  Its second half says that a  *)
(* page stored with a body has its targets marked before it is counted.    *)
(* With Exact, by which every page has been counted when finalize is       *)
(* signalled, a drained counter means checked targets.                     *)

(* Where a handler has stored its page, and not counted it yet.            *)
Stored == {"targets", "batches", "links", "discover", "announce", "enqueue"}

OutcomeTold(j) ==
  /\ pc[j] \in Stored => snap[Page(j)] = "ok" /\ outcome[j] = "crawled"
  /\ pc[j] = "record" => snap[Page(j)] = SnapshotKind[outcome[j]]
  /\ pc[j] \notin Stored \cup {"record"} => outcome[j] = "unchanged"

Shown(o) == {p \in settled : snap[p] = SnapshotKind[o]}

Told ==
  /\ \A j \in PageJobs : OutcomeTold(j)
  /\ \A p \in settled : snap[p] \in {"ok", "carried", "error"}
  /\ \A o \in Outcomes : tally[o] = Cardinality(Shown(o))

(* Each outcome has a snapshot kind of its own.                            *)
LEMMA SnapshotKinds ==
  /\ SnapshotKind["crawled"] = "ok"
  /\ SnapshotKind["unchanged"] = "carried"
  /\ SnapshotKind["failed"] = "error"
  BY DEF SnapshotKind

(* Two jobs that have yet to count their page are of different pages.      *)
LEMMA OneAtATime ==
  ASSUME Exact, NEW i \in PageJobs, NEW j \in PageJobs, i # j,
         pc[i] \in BeforeRecord, pc[j] \in BeforeRecord
  PROVE  Page(i) # Page(j)
  BY PageJobKinds, JobTypes DEF Exact, OneJobPerPage, BeforeRecord, ProcessSteps

(* Nothing takes a cancel flag back.                                       *)
LEMMA CancelledStays == ASSUME TypeInv, [Next]_vars, cancelled PROVE cancelled'
<1>1. ASSUME NEW j \in PageJobs, PageStep(j) PROVE cancelled'
  BY <1>1 DEF PageStep, ProcessFetch, BeginRender, ProcessRendered, EnqueueRender,
     CarryForward, CopyIssues, CopyForCarryForward,
     PersistFetchError, PersistPage, MarkLinkTargets,
     IncrLinkBatches, EnqueueLinkCheck, MarkSeen, AddToTotal, EnqueuePageFetch,
     RecordPage, UpdateStats, EnqueueFinalize
<1>2. ASSUME NEW j \in Jobs, Ack(j) \/ Fault(j) PROVE cancelled'
  BY <1>2 DEF Ack, Fault
<1>3. ASSUME OrchestrateStep PROVE cancelled'
  BY <1>3 DEF OrchestrateStep, OrchestrateStart, Resolve, SeedCounters, SetRunning,
     ResetStats, FanOut
<1>4. ASSUME NEW j \in LinkJobs, LinkStep(j) PROVE cancelled'
  BY <1>4 DEF LinkStep, CheckLinks, DecrLinkBatches
<1>5. ASSUME FinalizeStep \/ ReapStuckCrawls \/ RetryFailed PROVE cancelled'
  BY <1>5 DEF FinalizeStep, FinalizeCancelled, FinalizeReady, ReapStuckCrawls, RetryFailed
<1>6. ASSUME ApiStep \/ (\E op \in Controls : Request(op)) \/ UNCHANGED vars
      PROVE  cancelled'
  BY <1>6 DEF ApiStep, PauseFlag, PauseStatus, ResumeFlag, ResumeStatus, CancelFlag,
     CancelUnpause, Request, vars
<1>7. QED  BY <1>1, <1>2, <1>3, <1>4, <1>5, <1>6 DEF Next

-----------------------------------------------------------------------------
(* Steps that store nothing and count nothing.                             *)

(* A job stays where it is, moves among the places without an outcome, or  *)
(* goes on from a stored page, to its count at the most.                   *)
KeepsOutcome(j) ==
  /\ outcome'[j] = outcome[j]
  /\ \/ pc'[j] = pc[j]
     \/ pc[j] \notin Stored \cup {"record"} /\ pc'[j] \notin Stored \cup {"record"}
     \/ pc[j] \in Stored /\ pc'[j] \in Stored \cup {"record"}

(* A step in which every job keeps its outcome and no page is stored or    *)
(* counted keeps the story straight.                                       *)
LEMMA QuietTold ==
  ASSUME Told, UNCHANGED <<snap, settled, tally>>, \A j \in PageJobs : KeepsOutcome(j)
  PROVE  Told'
<1>1. ASSUME NEW j \in PageJobs PROVE OutcomeTold(j)'
  BY SnapshotKinds DEF Told, OutcomeTold, KeepsOutcome
<1>2. \A o \in Outcomes : tally'[o] = Cardinality(Shown(o)')
  BY DEF Told, Shown
<1>3. QED  BY <1>1, <1>2 DEF Told

(* The label of one page job changes, and that is all the story is about.  *)
LEMMA QuietPageTold ==
  ASSUME TypeInv, Told, NEW j \in PageJobs, UNCHANGED <<outcome, snap, settled, tally>>,
         \A i \in PageJobs : i # j => pc'[i] = pc[i],
         \/ pc[j] \notin Stored \cup {"record"} /\ pc'[j] \notin Stored \cup {"record"}
         \/ pc[j] \in Stored /\ pc'[j] \in Stored \cup {"record"}
  PROVE  Told'
<1>1. \A i \in PageJobs : KeepsOutcome(i)
  BY DEF KeepsOutcome
<1>2. QED  BY <1>1, QuietTold

(* No page job moves.                                                      *)
LEMMA QuietOtherTold ==
  ASSUME Told, UNCHANGED <<outcome, snap, settled, tally>>,
         \A i \in PageJobs : pc'[i] = pc[i]
  PROVE  Told'
  BY QuietTold DEF KeepsOutcome

(* The steps of a page job that neither store nor count its page, in a     *)
(* crawl that is not cancelled: a skipped page would count as unchanged    *)
(* whatever its snapshot is.                                               *)
LEMMA QuietPageStepTold ==
  ASSUME TypeInv, Told, ~cancelled, NEW j \in PageJobs,
         \/ ProcessFetch(j) \/ BeginRender(j) \/ ProcessRendered(j)
         \/ MarkLinkTargets(j) \/ IncrLinkBatches(j) \/ EnqueueLinkCheck(j)
         \/ MarkSeen(j) \/ AddToTotal(j) \/ UpdateStats(j) \/ EnqueueFinalize(j)
  PROVE  Told'
<1> USE JobTypes DEF TypeInv, TypeOK, QueueType, Goto, Stored
<1>1. CASE ProcessFetch(j)
  <2>1. PICK label \in {"carry", "error", "route", "persist"} : Goto(j, label)
    BY <1>1 DEF ProcessFetch, Answers, Branch
  <2>2. QED  BY <1>1, <2>1, QuietPageTold DEF ProcessFetch
<1>2. CASE BeginRender(j)
  BY <1>2, QuietPageTold DEF BeginRender
<1>3. CASE ProcessRendered(j)
  <2>1. PICK label \in {"waiting", "carry", "error", "route", "persist"} : Goto(j, label)
    BY <1>3 DEF ProcessRendered, Answers, Branch
  <2>2. QED  BY <1>3, <2>1, QuietPageTold DEF ProcessRendered
<1>4. CASE MarkLinkTargets(j)
  <2>1. PICK label \in {"record", "batches", "discover"} : Goto(j, label)
    BY <1>4 DEF MarkLinkTargets, LeaveLinks
  <2>2. QED  BY <1>4, <2>1, QuietPageTold DEF MarkLinkTargets
<1>5. CASE IncrLinkBatches(j)
  BY <1>5, QuietPageTold DEF IncrLinkBatches
<1>6. CASE EnqueueLinkCheck(j)
  <2>1. PICK u \in todo[j], label \in {"links", "discover", "record"} :
          pc' = [pc EXCEPT ![<<"link", u>>] = "waiting", ![j] = label]
    BY <1>6 DEF EnqueueLinkCheck
  <2>2. <<"link", u>> \notin PageJobs
    BY DEF PageJobs
  <2>3. QED  BY <1>6, <2>1, <2>2, QuietPageTold DEF EnqueueLinkCheck
<1>7. CASE MarkSeen(j)
  <2>1. PICK label \in {"discover", "announce", "record"} : Goto(j, label)
    BY <1>7 DEF MarkSeen
  <2>2. QED  BY <1>7, <2>1, QuietPageTold DEF MarkSeen
<1>8. CASE AddToTotal(j)
  BY <1>8, QuietPageTold DEF AddToTotal
<1>9. CASE UpdateStats(j)
  BY <1>9, QuietPageTold DEF UpdateStats
<1>10. CASE EnqueueFinalize(j)
  BY <1>10, QuietPageTold DEF EnqueueFinalize
<1>11. QED
  BY <1>1, <1>2, <1>3, <1>4, <1>5, <1>6, <1>7, <1>8, <1>9, <1>10

(* A new job of a page has no outcome yet, and the one that queues it has  *)
(* stored its own page, or leaves it to the render.                        *)
LEMMA QueuePageTold ==
  ASSUME TypeInv, Told, NEW j \in PageJobs, EnqueueRender(j) \/ EnqueuePageFetch(j)
  PROVE  Told'
<1> USE JobTypes DEF TypeInv, TypeOK, QueueType
<1>1. CASE EnqueueRender(j)
  <2>1. ASSUME NEW i \in PageJobs PROVE KeepsOutcome(i)
    BY <1>1 DEF EnqueueRender, KeepsOutcome, Stored
  <2>2. QED  BY <1>1, <2>1, QuietTold DEF EnqueueRender
<1>2. CASE EnqueuePageFetch(j)
  <2>1. ASSUME NEW i \in PageJobs PROVE KeepsOutcome(i)
    BY <1>2 DEF EnqueuePageFetch, Enqueued, KeepsOutcome, Stored
  <2>2. QED  BY <1>2, <2>1, QuietTold DEF EnqueuePageFetch
<1>3. QED  BY <1>1, <1>2

-----------------------------------------------------------------------------
(* Steps that store, count or start over.                                  *)

(* Storing a page disturbs no other handler and no settled page: the page  *)
(* has one job at a time, and is not settled while it runs.                *)
LEMMA StoreTold ==
  ASSUME TypeInv, Exact, Told, NEW j \in PageJobs, pc[j] \in BeforeRecord,
         NEW kind, snap' = [snap EXCEPT ![Page(j)] = kind],
         \A i \in PageJobs : i # j => pc'[i] = pc[i] /\ outcome'[i] = outcome[i],
         OutcomeTold(j)', UNCHANGED <<settled, tally>>
  PROVE  Told'
<1> USE JobTypes DEF TypeInv, TypeOK, RowType, HistoryType
<1>1. Page(j) \in Pages /\ Page(j) \notin settled
  BY DEF Exact, OneJobPerPage
<1>2. ASSUME NEW i \in PageJobs, i # j PROVE OutcomeTold(i)'
  <2>1. pc[i] \in Stored \cup {"record"} => snap'[Page(i)] = snap[Page(i)]
    BY <1>1, <1>2, OneAtATime DEF BeforeRecord, ProcessSteps, Stored
  <2>2. QED  BY <1>2, <2>1 DEF Told, OutcomeTold
<1>3. \A p \in settled : snap'[p] = snap[p]
  BY <1>1
<1>4. \A o \in Outcomes : tally'[o] = Cardinality(Shown(o)')
  <2>1. ASSUME NEW o \in Outcomes PROVE Shown(o)' = Shown(o)
    BY <1>3 DEF Shown
  <2>2. QED  BY <2>1 DEF Told
<1>5. QED  BY <1>2, <1>3, <1>4 DEF Told

(* The four steps that store a page leave the outcome its snapshot shows.  *)
LEMMA StoreStepTold ==
  ASSUME TypeInv, Exact, Told, NEW j \in PageJobs,
         CarryForward(j) \/ CopyIssues(j) \/ CopyForCarryForward(j)
         \/ PersistFetchError(j) \/ PersistPage(j)
  PROVE  Told'
<1>1. /\ pc[j] \in {"carry", "copy", "entities", "error", "persist"}
      /\ UNCHANGED <<settled, tally>>
      /\ \A i \in PageJobs : i # j => pc'[i] = pc[i] /\ outcome'[i] = outcome[i]
  BY JobTypes DEF CarryForward, CopyIssues, CopyForCarryForward,
     PersistFetchError, PersistPage, Goto, TypeInv,
     TypeOK, QueueType, MemoryType
<1>2. PICK kind : snap' = [snap EXCEPT ![Page(j)] = kind]
  BY DEF CarryForward, CopyIssues, CopyForCarryForward,
     PersistFetchError, PersistPage, ReplaceSnapshot
<1>3. OutcomeTold(j)'
  <2>1. /\ OutcomeTold(j) /\ j \in Jobs /\ Page(j) \in Pages
        /\ pc \in [Jobs -> Labels] /\ outcome \in [Jobs -> Outcomes]
        /\ DOMAIN snap = Pages
    BY JobTypes DEF Told, TypeInv, TypeOK, QueueType, MemoryType, RowType
  <2> USE <2>1, SnapshotKinds DEF OutcomeTold, Goto, ReplaceSnapshot, Stored
  <2>2. CASE CarryForward(j)
    BY <2>2 DEF CarryForward
  <2>3. CASE CopyIssues(j) \/ CopyForCarryForward(j)
    BY <2>3 DEF CopyIssues, CopyForCarryForward
  <2>4. CASE PersistFetchError(j)
    BY <2>4 DEF PersistFetchError
  <2>5. CASE PersistPage(j)
    BY <2>5 DEF PersistPage
  <2>6. QED  BY <2>2, <2>3, <2>4, <2>5
<1>4. QED  BY <1>1, <1>2, <1>3, StoreTold DEF BeforeRecord, ProcessSteps

(* A page is counted under the outcome its snapshot shows, and no other.   *)
LEMMA RecordPageTold ==
  ASSUME TypeInv, Exact, Told, NEW j \in PageJobs, RecordPage(j)
  PROVE  Told'
<1> USE JobTypes DEF TypeInv, TypeOK, QueueType, MemoryType, HistoryType
<1>1. /\ pc[j] = "record" /\ outcome[j] \in Outcomes
      /\ Page(j) \in Pages \ settled
      /\ snap[Page(j)] = SnapshotKind[outcome[j]]
  BY DEF RecordPage, Exact, OneJobPerPage, BeforeRecord, ProcessSteps, Told, OutcomeTold
<1>2. /\ settled' = settled \cup {Page(j)} /\ snap' = snap
      /\ tally' = [tally EXCEPT ![outcome[j]] = @ + 1]
      /\ pc'[j] \in {"flush", "ack"} /\ outcome'[j] = "unchanged"
      /\ \A i \in PageJobs : i # j => pc'[i] = pc[i] /\ outcome'[i] = outcome[i]
  BY DEF RecordPage, Goto
<1>3. \A i \in PageJobs : OutcomeTold(i)'
  BY <1>2 DEF Told, OutcomeTold, Stored
<1>4. \A p \in settled' : snap'[p] \in {"ok", "carried", "error"}
  BY <1>1, <1>2, SnapshotKinds DEF Told, Outcomes
<1>5. ASSUME NEW o \in Outcomes PROVE tally'[o] = Cardinality(Shown(o)')
  <2>1. IsFiniteSet(Shown(o)) /\ Page(j) \notin Shown(o)
    BY <1>1, FiniteAnnounced DEF Shown
  <2>2. tally[o] = Cardinality(Shown(o)) /\ tally[o] \in Nat
    BY DEF Told, CounterType
  <2>3. CASE o = outcome[j]
    <3>1. Shown(o)' = Shown(o) \cup {Page(j)}
      BY <1>1, <1>2, <2>3 DEF Shown
    <3>2. tally'[o] = tally[o] + 1
      BY <1>1, <1>2, <2>3 DEF CounterType
    <3>3. Cardinality(Shown(o) \cup {Page(j)}) = Cardinality(Shown(o)) + 1
      BY <2>1, FS_AddElement
    <3>4. QED  BY <2>2, <3>1, <3>2, <3>3
  <2>4. CASE o # outcome[j]
    <3>1. SnapshotKind[o] # SnapshotKind[outcome[j]]
      BY <1>1, <2>4, SnapshotKinds DEF Outcomes
    <3>2. Shown(o)' = Shown(o)
      BY <1>1, <1>2, <3>1 DEF Shown
    <3>3. tally'[o] = tally[o]
      BY <1>1, <1>2, <2>4 DEF CounterType
    <3>4. QED  BY <2>2, <3>2, <3>3
  <2>5. QED  BY <2>3, <2>4
<1>6. QED  BY <1>3, <1>4, <1>5 DEF Told

(* A job that dies forgets its outcome; the snapshot it stored stays, and  *)
(* its page is not settled.                                                *)
LEMMA FaultTold ==
  ASSUME TypeInv, Told, NEW j \in Jobs, Fault(j)
  PROVE  Told'
<1> USE JobTypes DEF TypeInv, TypeOK, QueueType, MemoryType
<1>1. PICK label \in {"waiting", "failed"} : Goto(j, label)
  BY DEF Fault, Throw, Stall, Redeliver
<1>2. outcome' = [outcome EXCEPT ![j] = "unchanged"]
  BY DEF Fault, Throw, Stall, Redeliver
<1>3. UNCHANGED <<snap, settled, tally>>
  BY DEF Fault
<1>4. \A i \in PageJobs : OutcomeTold(i)'
  BY <1>1, <1>2, <1>3 DEF Goto, Told, OutcomeTold, Stored
<1>5. \A o \in Outcomes : tally'[o] = Cardinality(Shown(o)')
  BY <1>3 DEF Told, Shown
<1>6. QED  BY <1>3, <1>4, <1>5 DEF Told

(* The orchestrator sets the counters to zero, whatever they were; no page *)
(* has settled then.                                                       *)
LEMMA ZeroTold ==
  ASSUME TypeInv, Exact, Told, NoPageJob, UNCHANGED <<outcome, snap, settled>>,
         tally' = NoCounts, \A j \in PageJobs : pc'[j] = pc[j]
  PROVE  Told'
<1>1. settled = {}
  BY DEF Exact, FanOutFirst
<1>2. \A j \in PageJobs : OutcomeTold(j)'
  BY DEF Told, OutcomeTold
<1>3. \A o \in Outcomes : tally'[o] = 0 /\ Shown(o)' = {}
  BY <1>1 DEF Shown, NoCounts
<1>4. QED  BY <1>1, <1>2, <1>3, FS_EmptySet DEF Told

(* Each step of the orchestrator keeps the story straight.                 *)
LEMMA OrchestrateTold ==
  ASSUME TypeInv, Exact, Told, OrchestrateStep
  PROVE  Told'
<1> USE JobTypes DEF TypeInv, TypeOK, QueueType, Goto
<1>1. CASE OrchestrateStart \/ SetRunning \/ ResetStats
  BY <1>1, QuietOtherTold DEF OrchestrateStart, SetRunning, ResetStats
<1>2. CASE Resolve \/ SeedCounters
  <2>1. NoPageJob
    BY <1>2 DEF Resolve, SeedCounters, Exact, FanOutFirst, BeforeFanOut, OrchestrateSteps
  <2>2. \/ tally' = NoCounts
        \/ tally' = tally
    BY <1>2 DEF Resolve, SeedCounters, InitCounters
  <2>3. UNCHANGED <<outcome, snap, settled>> /\ \A j \in PageJobs : pc'[j] = pc[j]
    BY <1>2 DEF Resolve, SeedCounters
  <2>4. QED  BY <2>1, <2>2, <2>3, ZeroTold, QuietOtherTold
<1>3. CASE FanOut
  <2>1. ASSUME NEW j \in PageJobs PROVE KeepsOutcome(j)
    BY <1>3 DEF FanOut, Enqueued, KeepsOutcome, Stored
  <2>2. QED  BY <1>3, <2>1, QuietTold DEF FanOut
<1>4. QED  BY <1>1, <1>2, <1>3 DEF OrchestrateStep

(* So do the steps of everyone else.                                       *)
LEMMA OtherStepTold ==
  ASSUME TypeInv, Told,
         \/ \E j \in LinkJobs : LinkStep(j)
         \/ \E j \in Jobs : Ack(j)
         \/ FinalizeStep \/ ReapStuckCrawls \/ ApiStep
         \/ \E op \in Controls : Request(op)
         \/ UNCHANGED vars
  PROVE  Told'
<1> USE JobTypes DEF TypeInv, TypeOK, QueueType, Goto
<1>1. ASSUME NEW j \in LinkJobs, LinkStep(j) PROVE Told'
  BY <1>1, QuietOtherTold DEF LinkStep, CheckLinks, DecrLinkBatches
<1>2. ASSUME NEW j \in Jobs, Ack(j) PROVE Told'
  <2>1. ASSUME NEW i \in PageJobs PROVE KeepsOutcome(i)
    BY <1>2 DEF Ack, KeepsOutcome, Stored
  <2>2. QED  BY <1>2, <2>1, QuietTold DEF Ack
<1>3. CASE FinalizeStep \/ ReapStuckCrawls
  BY <1>3, QuietOtherTold DEF FinalizeStep, FinalizeCancelled, FinalizeReady,
     ReapStuckCrawls
<1>4. CASE ApiStep \/ (\E op \in Controls : Request(op)) \/ UNCHANGED vars
  BY <1>4, QuietOtherTold DEF ApiStep, PauseFlag, PauseStatus, ResumeFlag, ResumeStatus,
     CancelFlag, CancelUnpause, Request, vars
<1>5. QED  BY <1>1, <1>2, <1>3, <1>4

-----------------------------------------------------------------------------

(* Nothing is stored and nothing is counted at first.                      *)
LEMMA InitTold == Init => Told
<1> SUFFICES ASSUME Init PROVE Told
  OBVIOUS
<1>1. \A j \in PageJobs : OutcomeTold(j)
  BY JobTypes DEF Init, OutcomeTold, Stored
<1>2. settled = {} /\ \A o \in Outcomes : tally[o] = 0 /\ Shown(o) = {}
  BY DEF Init, NoCounts, Shown
<1>3. QED  BY <1>1, <1>2, FS_EmptySet DEF Told

(* Until the crawl is cancelled or a job runs twice, each step keeps the   *)
(* story straight.                                                         *)
LEMMA NextTold ==
  ASSUME TypeInv, Exact, Told, ~cancelled, [Next]_vars, ~repeated'
  PROVE  Told'
<1>1. ASSUME NEW j \in PageJobs, PageStep(j) PROVE Told'
  BY <1>1, QuietPageStepTold, QueuePageTold, StoreStepTold, RecordPageTold DEF PageStep
<1>2. ASSUME NEW j \in Jobs, Fault(j) PROVE Told'
  BY <1>2, FaultTold
<1>3. ~RetryFailed
  BY DEF RetryFailed
<1>4. QED  BY <1>1, <1>2, <1>3, OrchestrateTold, OtherStepTold DEF Next

(* The story holds until a job ran twice or the crawl was cancelled.       *)
LEMMA ToldInductive == Safe => [](IndInv /\ (~repeated /\ ~cancelled => Told))
<1> DEFINE Inv == IndInv /\ (~repeated /\ ~cancelled => Told)
<1>1. Init => Inv
  BY InitType, InitExact, InitTold DEF IndInv
<1>2. Inv /\ [Next]_vars => Inv'
  <2> SUFFICES ASSUME Inv, [Next]_vars PROVE Inv'
    OBVIOUS
  <2>1. IndInv'
    BY NextType, NextExact, RepeatedStays DEF IndInv
  <2>2. ASSUME ~repeated', ~cancelled' PROVE Told'
    BY <2>2, RepeatedStays, CancelledStays, NextTold DEF IndInv
  <2>3. QED  BY <2>1, <2>2
<1>3. QED  BY <1>1, <1>2, PTL DEF Safe

(* The live progress counters and the rows of page_snapshots tell the same *)
(* story: each outcome counts exactly the settled pages that are stored    *)
(* that way, while handlers die and start over before their count.         *)
THEOREM CountersCorrect == Safe => []CountersMatchSnapshots
<1>1. IndInv /\ (~repeated /\ ~cancelled => Told) => CountersMatchSnapshots
  BY DEF Told, Shown, CountersMatchSnapshots
<1>2. QED  BY <1>1, ToldInductive, PTL

(* When the finalizer takes the crawl, each announced page has its final   *)
(* snapshot: none is missing, and none was carried forward without issues. *)
THEOREM SnapshotsCorrect == Safe => []SnapshotsReady
<1>1. IndInv /\ (~repeated /\ ~cancelled => Told) => SnapshotsReady
  BY DEF IndInv, Exact, SignalMeansSettled, Signalled, Told, SnapshotsReady
<1>2. QED  BY <1>1, ToldInductive, PTL

-----------------------------------------------------------------------------

Batching == {"batches", "links"}
AfterTargets == {"batches", "links", "discover", "announce", "enqueue", "record"}

LinkCheck(u) == <<"link", u>>

(* Targets whose batch was counted and not counted down.                   *)
Open(u) ==
  \/ \E j \in PageJobs : pc[j] = "links" /\ u \in todo[j]
  \/ pc[LinkCheck(u)] \in {"waiting", "decr"}
  \/ pc[LinkCheck(u)] = "failed" /\ u \notin checked
OpenTargets == {u \in Urls : Open(u)}

BatchesCounted == linkBatches >= Cardinality(OpenTargets)

(* A target a handler has in hand is marked, has no job yet and is in no   *)
(* other handler's hands.                                                  *)
InHand ==
  /\ \A j \in PageJobs : pc[j] \in Batching =>
       todo[j] \subseteq linkTargets /\ \A u \in todo[j] : pc[LinkCheck(u)] = "none"
  /\ \A i, j \in PageJobs :
       i # j /\ pc[i] \in Batching /\ pc[j] \in Batching => todo[i] \cap todo[j] = {}
  /\ \A u \in Urls \ linkTargets : pc[LinkCheck(u)] = "none"

(* A marked target is in hand, in a job that runs or failed, or checked.   *)
Tracked ==
  /\ \A u \in Urls :
       /\ pc[LinkCheck(u)] \in {"none", "waiting", "decr", "ack", "completed", "failed"}
       /\ pc[LinkCheck(u)] \in {"decr", "ack", "completed"} => u \in checked
  /\ \A u \in linkTargets :
       \/ u \in checked
       \/ \E j \in PageJobs : pc[j] \in Batching /\ u \in todo[j]
       \/ pc[LinkCheck(u)] \in {"waiting", "failed"}

Batches == BatchesCounted /\ InHand /\ Tracked

(* A page with a body has its targets marked before it is counted, and     *)
(* only announced pages are stored.                                        *)
Marked ==
  /\ \A p \in Pages : snap[p] # "none" => p \in announced
  /\ \A j \in PageJobs : pc[j] \in AfterTargets /\ snap[Page(j)] = "ok" =>
       Targets[Page(j)] \subseteq linkTargets
  /\ \A p \in settled : snap[p] = "ok" => Targets[p] \subseteq linkTargets

Linked == Batches /\ Marked

-----------------------------------------------------------------------------

(* A link check is a job of its own target.                                *)
LEMMA LinkChecks ==
  /\ \A u \in Urls : LinkCheck(u) \in LinkJobs /\ LinkCheck(u) \in Jobs
  /\ \A u : LinkCheck(u) \notin PageJobs /\ LinkCheck(u) # Orchestrate
  /\ \A u, w : LinkCheck(u) = LinkCheck(w) => u = w
  /\ \A j \in LinkJobs : Url(j) \in Urls /\ j = LinkCheck(Url(j))
  BY DEF LinkCheck, LinkJobs, PageJobs, Orchestrate, Jobs, Url

(* What moves no job but j moves no page job but j.                        *)
LEMMA PageJobsAreJobs == PageJobs \subseteq Jobs
  BY DEF Jobs

(* Open targets are finitely many.                                         *)
LEMMA FiniteOpen ==
  ASSUME NEW S \in SUBSET Urls
  PROVE  IsFiniteSet(S) /\ Cardinality(S) \in Nat /\ (Cardinality(S) = 0 <=> S = {})
  BY LinksAssumption, FS_Subset, FS_CardinalityType, FS_EmptySet

(* The batches stay counted as long as no target becomes open and the      *)
(* counter stays.                                                          *)
LEMMA FewerOpen ==
  ASSUME TypeInv, BatchesCounted, OpenTargets' \subseteq OpenTargets,
         linkBatches' = linkBatches
  PROVE  BatchesCounted'
<1>1. OpenTargets \subseteq Urls
  BY DEF OpenTargets
<1>2. Cardinality(OpenTargets') <= Cardinality(OpenTargets)
  BY <1>1, FiniteOpen, FS_Subset
<1>3. Cardinality(OpenTargets') \in Nat /\ Cardinality(OpenTargets) \in Nat
  BY <1>1, FiniteOpen
<1>4. QED  BY <1>2, <1>3 DEF BatchesCounted, TypeInv, TypeOK, CounterType

(* A step that moves no target leaves the batches as they are.             *)
LEMMA QuietBatches ==
  ASSUME TypeInv, Batches, UNCHANGED <<checked, linkTargets, linkBatches>>,
         \A j \in PageJobs : \/ pc'[j] = pc[j] /\ todo'[j] = todo[j]
                             \/ pc[j] \notin Batching /\ pc'[j] \notin Batching,
         \A u \in Urls : pc'[LinkCheck(u)] = pc[LinkCheck(u)]
  PROVE  Batches'
<1> USE DEF Batches
<1>1. OpenTargets' \subseteq OpenTargets
  BY DEF OpenTargets, Open, Batching
<1>2. InHand'
  <2>1. \A j \in PageJobs : pc'[j] \in Batching => pc[j] \in Batching /\ todo'[j] = todo[j]
    OBVIOUS
  <2>2. linkTargets \subseteq Urls
    BY DEF TypeInv, TypeOK, CounterType
  <2>3. QED  BY <2>1, <2>2 DEF InHand
<1>3. Tracked'
  <2>1. linkTargets \subseteq Urls
    BY DEF TypeInv, TypeOK, CounterType
  <2>2. QED  BY <2>1 DEF Tracked
<1>4. QED  BY <1>1, <1>2, <1>3, FewerOpen

(* The case of one page job that is not busy with batches.                 *)
LEMMA QuietPageBatches ==
  ASSUME TypeInv, Batches, NEW j \in PageJobs, pc[j] \notin Batching, pc'[j] \notin Batching,
         \A i \in Jobs : i # j => pc'[i] = pc[i],
         \A i \in PageJobs : i # j => todo'[i] = todo[i],
         UNCHANGED <<checked, linkTargets, linkBatches>>
  PROVE  Batches'
<1>1. \A i \in PageJobs : \/ pc'[i] = pc[i] /\ todo'[i] = todo[i]
                          \/ pc[i] \notin Batching /\ pc'[i] \notin Batching
  BY PageJobsAreJobs
<1>2. \A u \in Urls : pc'[LinkCheck(u)] = pc[LinkCheck(u)]
  BY LinkChecks
<1>3. QED  BY <1>1, <1>2, QuietBatches

-----------------------------------------------------------------------------
(* The way of a link target, one lemma per action.                         *)

(* A handler takes in hand what it marks, and nobody else had it.          *)
LEMMA MarkLinkTargetsBatches ==
  ASSUME TypeInv, Batches, NEW j \in PageJobs, MarkLinkTargets(j)
  PROVE  Batches'
<1> DEFINE fresh == Targets[Page(j)] \ linkTargets
<1> USE JobTypes DEF Batches
<1>a. /\ pc \in [Jobs -> Labels] /\ todo \in [Jobs -> SUBSET (Pages \cup Urls)]
      /\ linkTargets \subseteq Urls /\ fresh \subseteq Urls
  BY LinksAssumption DEF TypeInv, TypeOK, QueueType, MemoryType, CounterType
<1>1. /\ pc[j] = "targets" /\ linkTargets' = linkTargets \cup fresh
      /\ UNCHANGED <<checked, linkBatches>>
  BY DEF MarkLinkTargets
<1>2. CASE fresh = {}
  <2>1. PICK label \in {"record", "discover"} :
          Goto(j, label) /\ todo' = [todo EXCEPT ![j] = todo'[j]]
    BY <1>a, <1>2 DEF MarkLinkTargets, LeaveLinks
  <2>2. QED  BY <1>a, <1>1, <1>2, <2>1, QuietPageBatches DEF Goto, Batching
<1>3. CASE fresh # {}
  <2>1. /\ pc'[j] = "batches" /\ todo'[j] = fresh
        /\ \A i \in Jobs : i # j => pc'[i] = pc[i] /\ todo'[i] = todo[i]
    BY <1>a, <1>3 DEF MarkLinkTargets, Goto
  <2>2. \A u \in Urls : pc'[LinkCheck(u)] = pc[LinkCheck(u)]
    BY <2>1, LinkChecks
  <2>3. OpenTargets' \subseteq OpenTargets
    BY <1>1, <2>1, <2>2 DEF OpenTargets, Open
  <2>4. InHand'
    <3>1. \A u \in fresh : pc'[LinkCheck(u)] = "none"
      BY <1>a, <2>2 DEF InHand
    <3>2. \A i \in PageJobs : i # j /\ pc[i] \in Batching => todo[i] \cap fresh = {}
      BY DEF InHand
    <3>3. QED  BY <1>a, <1>1, <2>1, <2>2, <3>1, <3>2 DEF InHand
  <2>5. Tracked'
    BY <1>a, <1>1, <2>1, <2>2 DEF Tracked, Batching
  <2>6. QED  BY <1>1, <2>3, <2>4, <2>5, FewerOpen
<1>4. QED  BY <1>2, <1>3

(* The counter grows by as many targets as become open.                    *)
LEMMA IncrLinkBatchesBatches ==
  ASSUME TypeInv, Batches, NEW j \in PageJobs, IncrLinkBatches(j)
  PROVE  Batches'
<1> USE JobTypes DEF Batches
<1>a. /\ pc \in [Jobs -> Labels] /\ linkBatches \in Int
      /\ linkTargets \subseteq Urls
  BY DEF TypeInv, TypeOK, QueueType, CounterType
<1>1. /\ pc[j] = "batches" /\ pc'[j] = "links"
      /\ linkBatches' = linkBatches + Cardinality(todo[j])
      /\ \A i \in Jobs : i # j => pc'[i] = pc[i]
      /\ UNCHANGED <<todo, checked, linkTargets>>
  BY <1>a DEF IncrLinkBatches, Goto
<1>2. \A u \in Urls : pc'[LinkCheck(u)] = pc[LinkCheck(u)]
  BY <1>1, LinkChecks
<1>3. InHand' /\ Tracked'
  BY <1>a, <1>1, <1>2 DEF InHand, Tracked, Batching
<1>4. BatchesCounted'
  <2>1. todo[j] \subseteq Urls /\ OpenTargets \subseteq Urls
    BY <1>a, <1>1 DEF InHand, Batching, OpenTargets
  <2>2. OpenTargets' \subseteq OpenTargets \cup todo[j]
    BY <1>1, <1>2 DEF OpenTargets, Open
  <2>3. Cardinality(OpenTargets') <= Cardinality(OpenTargets \cup todo[j])
    BY <2>1, <2>2, FiniteOpen, FS_Subset
  <2>4. Cardinality(OpenTargets \cup todo[j])
          = Cardinality(OpenTargets) + Cardinality(todo[j])
              - Cardinality(OpenTargets \cap todo[j])
    BY <2>1, FiniteOpen, FS_Union
  <2>5. /\ Cardinality(OpenTargets') \in Nat /\ Cardinality(OpenTargets) \in Nat
        /\ Cardinality(todo[j]) \in Nat /\ Cardinality(OpenTargets \cap todo[j]) \in Nat
        /\ Cardinality(OpenTargets \cup todo[j]) \in Nat
    BY <2>1, <2>2, FiniteOpen
  <2>6. QED  BY <1>a, <1>1, <2>3, <2>4, <2>5 DEF BatchesCounted
<1>5. QED  BY <1>3, <1>4

(* A target goes from the handler's hands into its job and stays open.     *)
LEMMA EnqueueLinkCheckBatches ==
  ASSUME TypeInv, Batches, NEW j \in PageJobs, EnqueueLinkCheck(j)
  PROVE  Batches'
<1> USE JobTypes DEF Batches
<1>a. /\ pc \in [Jobs -> Labels] /\ todo \in [Jobs -> SUBSET (Pages \cup Urls)]
      /\ linkTargets \subseteq Urls
  BY DEF TypeInv, TypeOK, QueueType, MemoryType, CounterType
<1>1. PICK u \in todo[j], label \in {"links", "discover", "record"} :
        /\ pc' = [pc EXCEPT ![LinkCheck(u)] = "waiting", ![j] = label]
        /\ label # "links" => todo[j] \ {u} = {}
        /\ label = "links" => todo' = [todo EXCEPT ![j] = todo[j] \ {u}]
        /\ todo' = [todo EXCEPT ![j] = todo'[j]]
  BY <1>a DEF EnqueueLinkCheck, LinkCheck
<1>2. /\ pc[j] = "links" /\ todo[j] \subseteq linkTargets
      /\ UNCHANGED <<checked, linkTargets, linkBatches>>
  BY DEF EnqueueLinkCheck, InHand, Batching
<1>3. /\ pc'[j] = label /\ pc'[LinkCheck(u)] = "waiting" /\ pc[LinkCheck(u)] = "none"
      /\ \A i \in PageJobs : i # j => pc'[i] = pc[i] /\ todo'[i] = todo[i]
      /\ \A w \in Urls : w # u => pc'[LinkCheck(w)] = pc[LinkCheck(w)]
      /\ label = "links" => todo'[j] = todo[j] \ {u}
  BY <1>a, <1>1, <1>2, LinkChecks DEF InHand, Batching
<1>4. OpenTargets' \subseteq OpenTargets
  BY <1>1, <1>2, <1>3 DEF OpenTargets, Open
<1>5. InHand'
  <2>1. \A i \in PageJobs : i # j /\ pc[i] \in Batching => u \notin todo[i]
    BY <1>2 DEF InHand, Batching
  <2>2. \A i \in PageJobs : pc'[i] \in Batching =>
          pc[i] \in Batching /\ todo'[i] \subseteq todo[i] /\ u \notin todo'[i]
    BY <1>2, <1>3, <2>1 DEF Batching
  <2>3. QED  BY <1>a, <1>2, <1>3, <2>2 DEF InHand
<1>6. Tracked'
  <2>1. ASSUME NEW w \in linkTargets
        PROVE  \/ w \in checked
               \/ \E i \in PageJobs : pc'[i] \in Batching /\ w \in todo'[i]
               \/ pc'[LinkCheck(w)] \in {"waiting", "failed"}
    <3>1. CASE w = u
      BY <1>3, <3>1
    <3>2. CASE w # u /\ w \in todo[j]
      <4>1. label = "links" /\ w \in todo'[j]
        BY <1>1, <1>3, <3>2
      <4>2. QED  BY <1>3, <4>1 DEF Batching
    <3>3. CASE w # u /\ w \notin todo[j]
      BY <1>a, <1>3, <3>3 DEF Tracked
    <3>4. QED  BY <3>1, <3>2, <3>3
  <2>2. QED  BY <1>a, <1>2, <1>3, <2>1 DEF Tracked
<1>7. QED  BY <1>2, <1>4, <1>5, <1>6, FewerOpen

(* A link check that has its result is no longer in doubt: the website is  *)
(* still there.                                                            *)
LEMMA CheckLinksBatches ==
  ASSUME TypeInv, Batches, "gone" \notin Resolutions, NEW j \in LinkJobs, CheckLinks(j)
  PROVE  Batches'
<1> USE DEF Batches
<1> DEFINE u == Url(j)
<1>a. /\ pc \in [Jobs -> Labels] /\ linkTargets \subseteq Urls
      /\ u \in Urls /\ j = LinkCheck(u) /\ j \in Jobs
  BY LinkChecks DEF TypeInv, TypeOK, QueueType, CounterType
<1>1. /\ pc[j] = "waiting" /\ pc'[j] = "decr" /\ checked' = checked \cup {u}
      /\ \A i \in Jobs : i # j => pc'[i] = pc[i]
      /\ UNCHANGED <<todo, linkTargets, linkBatches>>
  BY <1>a DEF CheckLinks, Goto
<1>2. /\ \A i \in PageJobs : pc'[i] = pc[i]
      /\ \A w \in Urls : w # u => pc'[LinkCheck(w)] = pc[LinkCheck(w)]
  BY <1>a, <1>1, LinkChecks, JobTypes
<1>3. OpenTargets' \subseteq OpenTargets
  BY <1>a, <1>1, <1>2 DEF OpenTargets, Open
<1>4. InHand'
  BY <1>a, <1>1, <1>2 DEF InHand
<1>5. Tracked'
  BY <1>a, <1>1, <1>2 DEF Tracked
<1>6. QED  BY <1>1, <1>3, <1>4, <1>5, FewerOpen

(* The counter goes down with the one target that is open no more.         *)
LEMMA DecrLinkBatchesBatches ==
  ASSUME TypeInv, Batches, NEW j \in LinkJobs, DecrLinkBatches(j)
  PROVE  Batches'
<1> USE DEF Batches
<1> DEFINE u == Url(j)
<1>a. /\ pc \in [Jobs -> Labels] /\ linkTargets \subseteq Urls /\ linkBatches \in Int
      /\ u \in Urls /\ j = LinkCheck(u) /\ j \in Jobs
  BY LinkChecks DEF TypeInv, TypeOK, QueueType, CounterType
<1>1. /\ pc[j] = "decr" /\ pc'[j] = "ack" /\ linkBatches' = linkBatches - 1
      /\ \A i \in Jobs : i # j => pc'[i] = pc[i]
      /\ UNCHANGED <<todo, linkTargets, checked>>
  BY <1>a DEF DecrLinkBatches, Goto
<1>2. /\ \A i \in PageJobs : pc'[i] = pc[i]
      /\ \A w \in Urls : w # u => pc'[LinkCheck(w)] = pc[LinkCheck(w)]
  BY <1>a, <1>1, LinkChecks, JobTypes
<1>3. InHand' /\ Tracked'
  BY <1>a, <1>1, <1>2 DEF InHand, Tracked
<1>4. BatchesCounted'
  <2>1. u \in OpenTargets
    BY <1>a, <1>1 DEF OpenTargets, Open
  <2>2. ~Open(u)'
    BY <1>a, <1>1, <1>2 DEF Open, InHand, Batching
  <2>3. OpenTargets' \subseteq OpenTargets \ {u}
    BY <1>1, <1>2, <2>2 DEF OpenTargets, Open
  <2>4. OpenTargets \subseteq Urls
    BY DEF OpenTargets
  <2>5. Cardinality(OpenTargets') <= Cardinality(OpenTargets \ {u})
    BY <2>3, <2>4, FiniteOpen, FS_Subset
  <2>6. Cardinality(OpenTargets \ {u}) = Cardinality(OpenTargets) - 1
    BY <2>1, <2>4, FiniteOpen, FS_RemoveElement
  <2>7. Cardinality(OpenTargets') \in Nat /\ Cardinality(OpenTargets) \in Nat
    BY <2>3, <2>4, FiniteOpen
  <2>8. QED  BY <1>a, <1>1, <2>5, <2>6, <2>7 DEF BatchesCounted
<1>5. QED  BY <1>3, <1>4

(* A completed check has its result.                                       *)
LEMMA AckBatches ==
  ASSUME TypeInv, Batches, NEW j \in Jobs, Ack(j)
  PROVE  Batches'
<1> USE DEF Batches
<1>a. /\ pc \in [Jobs -> Labels] /\ linkTargets \subseteq Urls
  BY DEF TypeInv, TypeOK, QueueType, CounterType
<1>1. /\ pc[j] = "ack" /\ pc'[j] = "completed"
      /\ \A i \in Jobs : i # j => pc'[i] = pc[i]
      /\ UNCHANGED <<todo, linkTargets, checked, linkBatches>>
  BY <1>a DEF Ack, Goto
<1>2. \A i \in PageJobs : pc'[i] = pc[i] \/ (pc[i] = "ack" /\ pc'[i] = "completed")
  BY <1>1, PageJobsAreJobs
<1>3. \A u \in Urls : \/ pc'[LinkCheck(u)] = pc[LinkCheck(u)]
                      \/ pc[LinkCheck(u)] = "ack" /\ pc'[LinkCheck(u)] = "completed"
  BY <1>1, LinkChecks
<1>4. OpenTargets' \subseteq OpenTargets
  BY <1>1, <1>2, <1>3 DEF OpenTargets, Open
<1>5. InHand'
  BY <1>a, <1>1, <1>2, <1>3 DEF InHand, Batching
<1>6. Tracked'
  BY <1>a, <1>1, <1>2, <1>3 DEF Tracked, Batching
<1>7. QED  BY <1>1, <1>4, <1>5, <1>6, FewerOpen

(* A handler that dies with targets in hand severs them from their jobs; a *)
(* check that dies is open until it has its result, failed for good or     *)
(* not.                                                                    *)
LEMMA FaultBatches ==
  ASSUME TypeInv, Exact, Batches, NEW j \in Jobs, Fault(j), ~repeated', ~severed'
  PROVE  Batches'
<1> USE DEF Batches
<1>a. /\ pc \in [Jobs -> Labels] /\ linkTargets \subseteq Urls
      /\ todo \in [Jobs -> SUBSET (Pages \cup Urls)]
  BY DEF TypeInv, TypeOK, QueueType, MemoryType, CounterType
<1>1. PICK label \in {"waiting", "failed"} :
        /\ pc'[j] = label /\ \A i \in Jobs : i # j => pc'[i] = pc[i]
        /\ label = "waiting" => pc[j] \notin FinishSteps \cup {"ack"}
  BY <1>a DEF Fault, Throw, Stall, Redeliver, Goto
<1>2. /\ pc[j] \notin Batching /\ pc[j] # "none"
      /\ \A i \in Jobs : i # j => todo'[i] = todo[i]
      /\ UNCHANGED <<linkTargets, checked, linkBatches>>
  <2>1. ~InGap(j) /\ pc[j] \in Live
    BY DEF Fault, Throw, Stall, Redeliver
  <2>2. todo' = [todo EXCEPT ![j] = {}]
    BY DEF Fault, Throw, Stall, Redeliver
  <2>3. pc[j] \notin Batching /\ pc[j] # "none"
    BY <2>1 DEF InGap, Batching, Live, OrchestrateSteps, ProcessSteps, FinishSteps,
       LinkSteps
  <2>4. QED  BY <1>a, <2>2, <2>3 DEF Fault
<1>3. CASE j \in PageJobs \cup {Orchestrate}
  <2>1. \A i \in PageJobs : \/ pc'[i] = pc[i] /\ todo'[i] = todo[i]
                            \/ pc[i] \notin Batching /\ pc'[i] \notin Batching
    BY <1>1, <1>2, PageJobsAreJobs DEF Batching
  <2>2. \A u \in Urls : pc'[LinkCheck(u)] = pc[LinkCheck(u)]
    BY <1>1, <1>3, LinkChecks
  <2>3. QED  BY <1>2, <2>1, <2>2, QuietBatches
<1>4. CASE j \in LinkJobs
  <2>1. PICK u \in Urls : j = LinkCheck(u)
    BY <1>4, LinkChecks
  <2>2. /\ \A i \in PageJobs : pc'[i] = pc[i] /\ todo'[i] = todo[i]
        /\ \A w \in Urls : w # u => pc'[LinkCheck(w)] = pc[LinkCheck(w)]
    BY <1>1, <1>2, <1>4, <2>1, LinkChecks, JobTypes
  <2>3. /\ pc[LinkCheck(u)] \in {"waiting", "decr", "ack", "failed", "completed"}
        /\ pc[LinkCheck(u)] \notin {"failed", "completed"}
    <3>1. pc[j] \in Live
      BY DEF Fault
    <3>2. QED
      BY <1>2, <2>1, <3>1 DEF Tracked, Live, OrchestrateSteps, ProcessSteps, FinishSteps,
         LinkSteps
  <2>4. u \in OpenTargets \/ (u \in checked /\ pc'[LinkCheck(u)] = "failed")
    BY <1>1, <2>1, <2>3 DEF OpenTargets, Open, Tracked
  <2>5. OpenTargets' \subseteq OpenTargets
    BY <1>2, <2>2, <2>4 DEF OpenTargets, Open
  <2>6. InHand'
    BY <1>a, <1>2, <2>1, <2>2, <2>3 DEF InHand
  <2>7. Tracked'
    BY <1>a, <1>1, <1>2, <2>1, <2>2 DEF Tracked
  <2>8. QED  BY <1>2, <2>5, <2>6, <2>7, FewerOpen
<1>5. QED  BY <1>3, <1>4 DEF Jobs

-----------------------------------------------------------------------------
(* Everyone else.                                                          *)

(* The other steps of a page job move no target; a step of a batching      *)
(* handler is one of the three above.                                      *)
LEMMA PageStepBatches ==
  ASSUME TypeInv, Batches, NEW j \in PageJobs, PageStep(j)
  PROVE  Batches'
<1>a. /\ pc \in [Jobs -> Labels] /\ todo \in [Jobs -> SUBSET (Pages \cup Urls)]
      /\ j \in Jobs
  BY JobTypes DEF TypeInv, TypeOK, QueueType, MemoryType
<1>1. CASE MarkLinkTargets(j) \/ IncrLinkBatches(j) \/ EnqueueLinkCheck(j)
  BY <1>1, MarkLinkTargetsBatches, IncrLinkBatchesBatches, EnqueueLinkCheckBatches
<1>2. CASE ProcessFetch(j) \/ ProcessRendered(j)
  <2>1. PICK label \in {"record", "waiting", "carry", "error", "route", "persist"} :
          Goto(j, label)
    BY <1>2 DEF ProcessFetch, ProcessRendered, Answers, Branch
  <2>2. QED
    BY <1>a, <1>2, <2>1, QuietPageBatches DEF ProcessFetch, ProcessRendered, Goto, Batching
<1>3. CASE BeginRender(j) \/ CarryForward(j) \/ CopyIssues(j)
             \/ CopyForCarryForward(j) \/ PersistFetchError(j) \/ PersistPage(j)
  BY <1>a, <1>3, QuietPageBatches DEF BeginRender, CarryForward, CopyIssues, CopyForCarryForward,
     PersistFetchError, PersistPage, Goto, Batching
<1>4. CASE AddToTotal(j) \/ UpdateStats(j) \/ EnqueueFinalize(j)
  BY <1>a, <1>4, QuietPageBatches DEF AddToTotal, UpdateStats, EnqueueFinalize, Goto,
     Batching
<1>5. CASE RecordPage(j)
  <2>1. PICK label \in {"flush", "ack"} : Goto(j, label)
    BY <1>5 DEF RecordPage
  <2>2. QED  BY <1>a, <1>5, <2>1, QuietPageBatches DEF RecordPage, Goto, Batching
<1>6. CASE MarkSeen(j)
  <2>1. PICK label \in {"discover", "announce", "record"} : Goto(j, label)
    BY <1>6 DEF MarkSeen
  <2>2. \A i \in PageJobs : i # j => todo'[i] = todo[i]
    BY <1>a, <1>6 DEF MarkSeen
  <2>3. pc[j] = "discover" /\ UNCHANGED <<checked, linkTargets, linkBatches>>
    BY <1>6 DEF MarkSeen
  <2>4. QED  BY <1>a, <2>1, <2>2, <2>3, QuietPageBatches DEF Goto, Batching
<1>7. CASE EnqueueRender(j) \/ EnqueuePageFetch(j)
  <2>1. UNCHANGED <<checked, linkTargets, linkBatches, todo>>
    BY <1>7 DEF EnqueueRender, EnqueuePageFetch
  <2>2. ASSUME NEW i \in PageJobs
        PROVE  pc'[i] = pc[i] \/ (pc[i] \notin Batching /\ pc'[i] \notin Batching)
    BY <1>a, <1>7, JobTypes DEF EnqueueRender, EnqueuePageFetch, Enqueued, Batching
  <2>3. ASSUME NEW u \in Urls PROVE pc'[LinkCheck(u)] = pc[LinkCheck(u)]
    BY <1>a, <1>7, LinkChecks DEF EnqueueRender, EnqueuePageFetch, Enqueued, LinkCheck
  <2>4. QED  BY <2>1, <2>2, <2>3, QuietBatches
<1>8. QED
  BY <1>1, <1>2, <1>3, <1>4, <1>5, <1>6, <1>7 DEF PageStep

(* Neither do the orchestrator, the watchdog, the API and a finalizer that *)
(* does not find the crawl cancelled.                                      *)
LEMMA OtherStepBatches ==
  ASSUME TypeInv, Batches, ~cancelled,
         \/ OrchestrateStep \/ FinalizeStep \/ ReapStuckCrawls \/ ApiStep
         \/ \E op \in Controls : Request(op)
         \/ UNCHANGED vars
  PROVE  Batches'
<1>a. pc \in [Jobs -> Labels]
  BY DEF TypeInv, TypeOK, QueueType
<1>1. UNCHANGED <<checked, linkTargets, linkBatches, todo>>
  BY DEF OrchestrateStep, OrchestrateStart, Resolve, SeedCounters, SetRunning, ResetStats,
     FanOut, FinalizeStep, FinalizeCancelled, FinalizeReady, ReapStuckCrawls, ApiStep,
     PauseFlag, PauseStatus, ResumeFlag, ResumeStatus, CancelFlag, CancelUnpause, Request,
     vars
<1>2. CASE OrchestrateStep /\ ~FanOut
  <2>1. \A i \in Jobs : i # Orchestrate => pc'[i] = pc[i]
    BY <1>a, <1>2 DEF OrchestrateStep, OrchestrateStart, Resolve, SeedCounters, SetRunning,
       ResetStats, Goto
  <2>2. \A i \in PageJobs : pc'[i] = pc[i]
    BY <2>1, JobTypes
  <2>3. \A u \in Urls : pc'[LinkCheck(u)] = pc[LinkCheck(u)]
    BY <2>1, LinkChecks
  <2>4. QED  BY <1>1, <2>2, <2>3, QuietBatches
<1>3. CASE FanOut
  <2>1. ASSUME NEW i \in PageJobs
        PROVE  pc'[i] = pc[i] \/ (pc[i] \notin Batching /\ pc'[i] \notin Batching)
    BY <1>a, <1>3, JobTypes DEF FanOut, Enqueued, Batching
  <2>2. ASSUME NEW u \in Urls PROVE pc'[LinkCheck(u)] = pc[LinkCheck(u)]
    BY <1>a, <1>3, LinkChecks DEF FanOut, Enqueued, LinkCheck
  <2>3. QED  BY <1>1, <2>1, <2>2, QuietBatches
<1>4. CASE UNCHANGED pc
  BY <1>1, <1>4, QuietBatches
<1>5. OrchestrateStep \/ UNCHANGED pc
  BY DEF FinalizeStep, FinalizeCancelled, FinalizeReady, ReapStuckCrawls, ApiStep,
     PauseFlag, PauseStatus, ResumeFlag, ResumeStatus, CancelFlag, CancelUnpause, Request,
     vars
<1>6. QED  BY <1>2, <1>3, <1>4, <1>5

(* Each step keeps track of every target, until the crawl is cancelled, a  *)
(* job runs twice or a fault hits a gap.                                   *)
LEMMA NextBatches ==
  ASSUME TypeInv, Exact, Batches, "gone" \notin Resolutions, ~cancelled, [Next]_vars,
         ~repeated', ~severed'
  PROVE  Batches'
<1>1. ASSUME NEW j \in PageJobs, PageStep(j) PROVE Batches'
  BY <1>1, PageStepBatches
<1>2. ASSUME NEW j \in LinkJobs, LinkStep(j) PROVE Batches'
  BY <1>2, CheckLinksBatches, DecrLinkBatchesBatches DEF LinkStep
<1>3. ASSUME NEW j \in Jobs, Ack(j) \/ Fault(j) PROVE Batches'
  BY <1>3, AckBatches, FaultBatches
<1>4. ~RetryFailed
  BY DEF RetryFailed
<1>5. QED  BY <1>1, <1>2, <1>3, <1>4, OtherStepBatches DEF Next

-----------------------------------------------------------------------------
(* Pages and their targets.                                                *)

(* A step that stores no page and settles none.                            *)
LEMMA QuietMarked ==
  ASSUME TypeInv, Marked, UNCHANGED <<snap, settled>>, announced \subseteq announced',
         linkTargets \subseteq linkTargets',
         \A j \in PageJobs : pc'[j] \in AfterTargets => pc[j] \in AfterTargets
  PROVE  Marked'
  BY DEF Marked

(* A page that is stored was announced; with a body, its targets are next. *)
LEMMA StoreMarked ==
  ASSUME TypeInv, Exact, Marked, NEW j \in PageJobs, pc[j] \in BeforeRecord,
         NEW kind, snap' = [snap EXCEPT ![Page(j)] = kind],
         kind = "ok" => pc'[j] \notin AfterTargets,
         \A i \in PageJobs : i # j => pc'[i] = pc[i],
         UNCHANGED <<settled, announced, linkTargets>>
  PROVE  Marked'
<1>1. /\ Page(j) \in announced /\ Page(j) \notin settled
      /\ snap \in [Pages -> {"none", "error", "ok", "bare", "issues", "carried"}]
      /\ settled \subseteq Pages
  BY JobTypes DEF Exact, OneJobPerPage, TypeInv, TypeOK, RowType, HistoryType
<1>2. \A p \in Pages : snap'[p] # "none" => p \in announced
  BY <1>1 DEF Marked
<1>3. ASSUME NEW i \in PageJobs, pc'[i] \in AfterTargets, snap'[Page(i)] = "ok"
      PROVE  Targets[Page(i)] \subseteq linkTargets
  <2>1. CASE i = j
    <3>1. snap'[Page(j)] = kind
      BY <1>1, JobTypes
    <3>2. QED  BY <1>3, <2>1, <3>1
  <2>2. CASE i # j
    <3>1. Page(i) # Page(j)
      BY <1>3, <2>2, OneAtATime DEF AfterTargets, BeforeRecord, ProcessSteps
    <3>2. snap'[Page(i)] = snap[Page(i)]
      BY <1>1, <3>1, JobTypes
    <3>3. QED  BY <1>3, <2>2, <3>2 DEF Marked
  <2>3. QED  BY <2>1, <2>2
<1>4. \A p \in settled : snap'[p] = "ok" => Targets[p] \subseteq linkTargets
  BY <1>1 DEF Marked
<1>5. QED  BY <1>2, <1>3, <1>4 DEF Marked

(* The page steps.  A page is stored as "ok" only on the way to the        *)
(* marking of its targets, and counted only after it.                      *)
LEMMA PageStepMarked ==
  ASSUME TypeInv, Exact, Marked, ~cancelled, NEW j \in PageJobs, PageStep(j)
  PROVE  Marked'
<1>a. /\ pc \in [Jobs -> Labels] /\ j \in Jobs /\ Page(j) \in Pages
  BY JobTypes DEF TypeInv, TypeOK, QueueType
<1>1. CASE ProcessFetch(j) \/ ProcessRendered(j)
  <2>1. PICK label \in {"waiting", "carry", "error", "route", "persist"} : Goto(j, label)
    BY <1>1 DEF ProcessFetch, ProcessRendered, Answers, Branch
  <2>2. QED
    BY <1>a, <1>1, <2>1, PageJobsAreJobs, QuietMarked
    DEF ProcessFetch, ProcessRendered, Goto, AfterTargets
<1>2. CASE CarryForward(j) \/ CopyIssues(j) \/ CopyForCarryForward(j)
         \/ PersistFetchError(j) \/ PersistPage(j)
  <2>1. /\ pc[j] \in BeforeRecord
        /\ \A i \in PageJobs : i # j => pc'[i] = pc[i]
        /\ UNCHANGED <<settled, announced, linkTargets>>
    BY <1>a, <1>2, PageJobsAreJobs DEF CarryForward, CopyIssues, CopyForCarryForward,
       PersistFetchError,
       PersistPage, Goto, BeforeRecord, ProcessSteps
  <2>2. PICK kind : /\ snap' = [snap EXCEPT ![Page(j)] = kind]
                    /\ kind = "ok" => pc'[j] = "targets"
    BY <1>a, <1>2 DEF CarryForward, CopyIssues, CopyForCarryForward,
       PersistFetchError, PersistPage, Goto,
       ReplaceSnapshot
  <2>3. QED  BY <2>1, <2>2, StoreMarked DEF AfterTargets
<1>3. CASE MarkLinkTargets(j)
  <2>1. /\ \A i \in PageJobs : i # j => pc'[i] = pc[i]
        /\ linkTargets' = linkTargets \cup (Targets[Page(j)] \ linkTargets)
        /\ UNCHANGED <<snap, settled, announced>>
    BY <1>a, <1>3, PageJobsAreJobs DEF MarkLinkTargets, LeaveLinks, Goto
  <2>2. QED  BY <2>1 DEF Marked
<1>4. CASE RecordPage(j)
  <2>1. /\ pc[j] = "record" /\ pc'[j] \notin AfterTargets
        /\ \A i \in PageJobs : i # j => pc'[i] = pc[i]
        /\ settled' = settled \cup {Page(j)}
        /\ UNCHANGED <<snap, announced, linkTargets>>
    BY <1>a, <1>4, PageJobsAreJobs DEF RecordPage, Goto, AfterTargets
  <2>2. QED  BY <2>1 DEF Marked, AfterTargets
<1>5. CASE IncrLinkBatches(j) \/ EnqueueLinkCheck(j) \/ MarkSeen(j) \/ AddToTotal(j)
  <2>1. pc[j] \in AfterTargets
    BY <1>5 DEF IncrLinkBatches, EnqueueLinkCheck, MarkSeen, AddToTotal, AfterTargets
  <2>2. \A i \in PageJobs : i # j => pc'[i] = pc[i]
    <3>1. CASE IncrLinkBatches(j) \/ MarkSeen(j) \/ AddToTotal(j)
      BY <1>a, <3>1, PageJobsAreJobs DEF IncrLinkBatches, MarkSeen, AddToTotal, Goto
    <3>2. CASE EnqueueLinkCheck(j)
      <4>1. PICK u, next : pc' = [pc EXCEPT ![LinkCheck(u)] = "waiting", ![j] = next]
        BY <3>2 DEF EnqueueLinkCheck, LinkCheck
      <4>2. \A i \in PageJobs : i # LinkCheck(u)
        BY LinkChecks
      <4>3. QED  BY <1>a, <4>1, <4>2, PageJobsAreJobs
    <3>3. QED  BY <1>5, <3>1, <3>2
  <2>3. /\ UNCHANGED <<snap, settled, linkTargets>>
        /\ announced \subseteq announced'
    BY <1>5 DEF IncrLinkBatches, EnqueueLinkCheck, MarkSeen, AddToTotal
  <2>4. QED  BY <2>1, <2>2, <2>3, QuietMarked
<1>6. CASE EnqueueRender(j) \/ EnqueuePageFetch(j)
  <2>1. UNCHANGED <<snap, settled, linkTargets, announced>>
    BY <1>6 DEF EnqueueRender, EnqueuePageFetch
  <2>2. ASSUME NEW i \in PageJobs, pc'[i] \in AfterTargets PROVE pc[i] \in AfterTargets
    BY <1>a, <1>6, <2>2, JobTypes DEF EnqueueRender, EnqueuePageFetch, Enqueued,
       AfterTargets
  <2>3. QED  BY <2>1, <2>2, QuietMarked
<1>7. CASE BeginRender(j) \/ UpdateStats(j) \/ EnqueueFinalize(j)
  BY <1>a, <1>7, PageJobsAreJobs, QuietMarked DEF BeginRender, UpdateStats,
     EnqueueFinalize, Goto, AfterTargets
<1>8. QED
  BY <1>1, <1>2, <1>3, <1>4, <1>5, <1>6, <1>7 DEF PageStep

(* Nobody else stores a page or brings a handler forward.                  *)
LEMMA OtherStepMarked ==
  ASSUME TypeInv, Marked, ~cancelled,
         \/ OrchestrateStep
         \/ \E j \in LinkJobs : LinkStep(j)
         \/ \E j \in Jobs : Ack(j) \/ Fault(j)
         \/ FinalizeStep \/ ReapStuckCrawls \/ ApiStep
         \/ \E op \in Controls : Request(op)
         \/ UNCHANGED vars
  PROVE  Marked'
<1>a. pc \in [Jobs -> Labels]
  BY DEF TypeInv, TypeOK, QueueType
<1>1. ASSUME OrchestrateStep PROVE Marked'
  <2>1. /\ UNCHANGED <<snap, settled, linkTargets>>
        /\ announced \subseteq announced'
    BY <1>1 DEF OrchestrateStep, OrchestrateStart, Resolve, SeedCounters, SetRunning,
       ResetStats, FanOut
  <2>2. ASSUME NEW i \in PageJobs, pc'[i] \in AfterTargets PROVE pc[i] \in AfterTargets
    BY <1>a, <1>1, <2>2, JobTypes DEF OrchestrateStep, OrchestrateStart, Resolve,
       SeedCounters, SetRunning, ResetStats, FanOut, Enqueued, Goto, AfterTargets
  <2>3. QED  BY <2>1, <2>2, QuietMarked
<1>2. ASSUME NEW j \in LinkJobs, LinkStep(j) PROVE Marked'
  BY <1>a, <1>2, JobTypes, QuietMarked DEF LinkStep, CheckLinks, DecrLinkBatches, Goto
<1>3. ASSUME NEW j \in Jobs, Ack(j) \/ Fault(j) PROVE Marked'
  <2>1. UNCHANGED <<snap, settled, linkTargets, announced>>
    BY <1>3 DEF Ack, Fault
  <2>2. PICK label \in {"completed", "waiting", "failed"} : Goto(j, label)
    BY <1>3 DEF Ack, Fault, Throw, Stall, Redeliver
  <2>3. ASSUME NEW i \in PageJobs, pc'[i] \in AfterTargets PROVE pc[i] \in AfterTargets
    BY <1>a, <2>2, <2>3, PageJobsAreJobs DEF Goto, AfterTargets
  <2>4. QED  BY <2>1, <2>3, QuietMarked
<1>4. ASSUME \/ FinalizeStep \/ ReapStuckCrawls \/ ApiStep
             \/ \E op \in Controls : Request(op)
             \/ UNCHANGED vars
      PROVE  Marked'
  <2>1. UNCHANGED <<pc, snap, settled, linkTargets, announced>>
    BY <1>4 DEF FinalizeStep, FinalizeCancelled, FinalizeReady, ReapStuckCrawls, ApiStep,
       PauseFlag, PauseStatus, ResumeFlag, ResumeStatus, CancelFlag, CancelUnpause,
       Request, vars
  <2>2. QED  BY <2>1, QuietMarked
<1>5. QED  BY <1>1, <1>2, <1>3, <1>4

(* Nothing clears severed.                                                 *)
LEMMA SeveredStays == ASSUME TypeInv, [Next]_vars, severed PROVE severed'
<1>1. ASSUME NEW j \in PageJobs, PageStep(j) PROVE severed'
  BY <1>1 DEF PageStep, ProcessFetch, BeginRender, ProcessRendered, EnqueueRender,
     CarryForward, CopyIssues, CopyForCarryForward,
     PersistFetchError, PersistPage, MarkLinkTargets,
     IncrLinkBatches, EnqueueLinkCheck, MarkSeen, AddToTotal, EnqueuePageFetch,
     RecordPage, UpdateStats, EnqueueFinalize
<1>2. ASSUME NEW j \in Jobs, Ack(j) \/ Fault(j) PROVE severed'
  BY <1>2 DEF Ack, Fault, Throw, Stall, Redeliver
<1>3. ASSUME OrchestrateStep PROVE severed'
  BY <1>3 DEF OrchestrateStep, OrchestrateStart, Resolve, SeedCounters, SetRunning,
     ResetStats, FanOut
<1>4. ASSUME NEW j \in LinkJobs, LinkStep(j) PROVE severed'
  BY <1>4 DEF LinkStep, CheckLinks, DecrLinkBatches
<1>5. ASSUME FinalizeStep \/ ReapStuckCrawls \/ RetryFailed PROVE severed'
  BY <1>5 DEF FinalizeStep, FinalizeCancelled, FinalizeReady, ReapStuckCrawls, RetryFailed
<1>6. ASSUME ApiStep \/ (\E op \in Controls : Request(op)) \/ UNCHANGED vars
      PROVE  severed'
  BY <1>6 DEF ApiStep, PauseFlag, PauseStatus, ResumeFlag, ResumeStatus, CancelFlag,
     CancelUnpause, Request, vars
<1>7. QED  BY <1>1, <1>2, <1>3, <1>4, <1>5, <1>6 DEF Next

-----------------------------------------------------------------------------

Intact == ~repeated /\ ~severed /\ ~cancelled
LinkInv == IndInv /\ (Intact => Linked) /\ LinkBarrier

(* Nothing is stored, marked or counted at first.                          *)
LEMMA InitLinked == Init => Linked
<1> SUFFICES ASSUME Init PROVE Linked
  OBVIOUS
<1>1. /\ \A j \in PageJobs : pc[j] = "none"
      /\ \A u \in Urls : pc[LinkCheck(u)] = "none"
  BY JobTypes, LinkChecks DEF Init
<1>2. OpenTargets = {}
  BY <1>1 DEF OpenTargets, Open
<1>3. BatchesCounted
  BY <1>2, FS_EmptySet DEF Init, BatchesCounted
<1>4. InHand /\ Tracked
  BY <1>1 DEF Init, InHand, Tracked, Batching
<1>5. Marked
  BY <1>1 DEF Init, Marked, AfterTargets
<1>6. QED  BY <1>3, <1>4, <1>5 DEF Linked, Batches

(* A drained counter and settled pages: every target has its result.       *)
LEMMA DrainedMeansChecked ==
  ASSUME TypeInv, Exact, Linked, finalize # "none", linkBatches <= 0,
         NEW p \in Pages, snap[p] = "ok"
  PROVE  Targets[p] \subseteq checked
<1> USE DEF Linked, Batches
<1>1. announced \subseteq settled /\ p \in settled
  BY DEF Exact, SignalMeansSettled, Signalled, Marked
<1>2. Targets[p] \subseteq linkTargets
  BY <1>1 DEF Marked
<1>3. \A j \in PageJobs : pc[j] \notin Batching
  BY <1>1 DEF Exact, OneJobPerPage, Batching, BeforeRecord, ProcessSteps
<1>4. OpenTargets = {}
  <2>1. OpenTargets \subseteq Urls
    BY DEF OpenTargets
  <2>2. Cardinality(OpenTargets) = 0
    BY <2>1, FiniteOpen DEF BatchesCounted, TypeInv, TypeOK, CounterType
  <2>3. QED  BY <2>1, <2>2, FiniteOpen
<1>5. ASSUME NEW u \in linkTargets, u \notin checked PROVE FALSE
  <2>1. u \in Urls /\ ~Open(u)
    BY <1>4 DEF OpenTargets, TypeInv, TypeOK, CounterType
  <2>2. pc[LinkCheck(u)] \in {"waiting", "failed"}
    BY <1>3, <1>5 DEF Tracked
  <2>3. QED  BY <1>5, <2>1, <2>2 DEF Open
<1>6. QED  BY <1>2, <1>5

(* Once finalize is signalled no page is stored any more, and no result of *)
(* a link check is ever taken back.                                        *)
LEMMA SettledStays ==
  ASSUME TypeInv, Exact, finalize # "none", [Next]_vars, ~repeated'
  PROVE  snap' = snap /\ checked \subseteq checked'
<1>1. ASSUME NEW j \in PageJobs, PageStep(j) PROVE snap' = snap /\ checked' = checked
  <2>1. pc[j] \notin BeforeRecord
    BY WorkMeansNoSignal
  <2>2. PageStep(j) => \/ pc[j] \in BeforeRecord
                       \/ UNCHANGED <<snap, checked>>
    BY DEF PageStep, ProcessFetch, BeginRender, ProcessRendered, EnqueueRender,
       CarryForward, CopyIssues, CopyForCarryForward,
       PersistFetchError, PersistPage, MarkLinkTargets,
       IncrLinkBatches, EnqueueLinkCheck, MarkSeen, AddToTotal, EnqueuePageFetch,
       RecordPage, UpdateStats, EnqueueFinalize, BeforeRecord, ProcessSteps
  <2>3. QED  BY <1>1, <2>1, <2>2
<1>2. ASSUME NEW j \in LinkJobs, LinkStep(j)
      PROVE  snap' = snap /\ checked \subseteq checked'
  BY <1>2 DEF LinkStep, CheckLinks, DecrLinkBatches
<1>3. ASSUME NEW j \in Jobs, Ack(j) \/ Fault(j) PROVE UNCHANGED <<snap, checked>>
  BY <1>3 DEF Ack, Fault
<1>4. ASSUME OrchestrateStep PROVE UNCHANGED <<snap, checked>>
  BY <1>4 DEF OrchestrateStep, OrchestrateStart, Resolve, SeedCounters, SetRunning,
     ResetStats, FanOut
<1>5. ASSUME \/ FinalizeStep \/ ReapStuckCrawls \/ RetryFailed \/ ApiStep
             \/ \E op \in Controls : Request(op)
             \/ UNCHANGED vars
      PROVE  UNCHANGED <<snap, checked>>
  BY <1>5 DEF FinalizeStep, FinalizeCancelled, FinalizeReady, ReapStuckCrawls,
     RetryFailed, ApiStep, PauseFlag, PauseStatus, ResumeFlag, ResumeStatus, CancelFlag,
     CancelUnpause, Request, vars
<1>6. QED  BY <1>1, <1>2, <1>3, <1>4, <1>5 DEF Next

(* The finalizer becomes ready in one way: it found the counter drained    *)
(* and the crawl not cancelled.                                            *)
LEMMA ReadyStep ==
  ASSUME TypeInv, [Next]_vars, finalize' = "ready"
  PROVE  finalize = "ready" \/ FinalizeReady
<1>1. ASSUME NEW j \in PageJobs, PageStep(j) PROVE finalize = "ready"
  BY <1>1 DEF PageStep, ProcessFetch, BeginRender, ProcessRendered, EnqueueRender,
     CarryForward, CopyIssues, CopyForCarryForward,
     PersistFetchError, PersistPage, MarkLinkTargets,
     IncrLinkBatches, EnqueueLinkCheck, MarkSeen, AddToTotal, EnqueuePageFetch,
     RecordPage, UpdateStats, EnqueueFinalize
<1>2. ASSUME NEW j \in LinkJobs, LinkStep(j) PROVE finalize = "ready"
  BY <1>2 DEF LinkStep, CheckLinks, DecrLinkBatches
<1>3. ASSUME NEW j \in Jobs, Ack(j) \/ Fault(j) PROVE finalize = "ready"
  BY <1>3 DEF Ack, Fault
<1>4. ASSUME OrchestrateStep PROVE finalize = "ready"
  BY <1>4 DEF OrchestrateStep, OrchestrateStart, Resolve, SeedCounters, SetRunning,
     ResetStats, FanOut
<1>5. ASSUME \/ FinalizeCancelled \/ ReapStuckCrawls \/ RetryFailed \/ ApiStep
             \/ \E op \in Controls : Request(op)
             \/ UNCHANGED vars
      PROVE  finalize = "ready"
  BY <1>5 DEF FinalizeCancelled, ReapStuckCrawls, RetryFailed, ApiStep, PauseFlag,
     PauseStatus, ResumeFlag, ResumeStatus, CancelFlag, CancelUnpause, Request, vars
<1>6. QED  BY <1>1, <1>2, <1>3, <1>4, <1>5 DEF Next, FinalizeStep

(* The barrier holds when the finalizer becomes ready and from then on.    *)
LEMMA BarrierStep ==
  ASSUME LinkInv, [Next]_vars
  PROVE  LinkBarrier'
<1> SUFFICES ASSUME finalize' = "ready", ~repeated', ~severed'
             PROVE  \A p \in Pages : snap'[p] = "ok" => Targets[p] \subseteq checked'
  BY DEF LinkBarrier
<1>1. ~repeated /\ ~severed /\ TypeInv /\ Exact
  BY RepeatedStays, SeveredStays DEF LinkInv, IndInv
<1>2. CASE finalize = "ready"
  <2>1. snap' = snap /\ checked \subseteq checked'
    BY <1>1, <1>2, SettledStays
  <2>2. QED  BY <1>1, <1>2, <2>1 DEF LinkInv, LinkBarrier
<1>3. CASE FinalizeReady
  <2>1. Linked
    BY <1>1, <1>3 DEF FinalizeReady, LinkInv, Intact
  <2>2. finalize # "none" /\ linkBatches <= 0 /\ UNCHANGED <<snap, checked>>
    BY <1>3 DEF FinalizeReady
  <2>3. QED  BY <1>1, <2>1, <2>2, DrainedMeansChecked
<1>4. QED  BY <1>1, <1>2, <1>3, ReadyStep

(* The finalizer never joins link_checks too early: as long as the website *)
(* is there, the targets of every page stored with a body have their       *)
(* result when it starts, whatever deaths hit the handlers and the checks  *)
(* outside the gaps between recording work as queued and queueing it.      *)
THEOREM LinkBarrierCorrect ==
  ASSUME "gone" \notin Resolutions
  PROVE  Safe => []LinkBarrier
<1>1. Init => LinkInv
  BY InitType, InitExact, InitLinked DEF LinkInv, IndInv, Init, LinkBarrier
<1>2. LinkInv /\ [Next]_vars => LinkInv'
  <2> SUFFICES ASSUME LinkInv, [Next]_vars PROVE LinkInv'
    OBVIOUS
  <2>1. IndInv'
    BY NextType, NextExact, RepeatedStays DEF LinkInv, IndInv
  <2>2. ASSUME Intact' PROVE Linked'
    <3>1. Intact
      BY <2>2, RepeatedStays, SeveredStays, CancelledStays DEF Intact, LinkInv, IndInv
    <3>2. TypeInv /\ Exact /\ Linked /\ ~cancelled
      BY <3>1 DEF LinkInv, IndInv, Intact
    <3>3. Batches'
      BY <2>2, <3>2, NextBatches DEF Linked, Intact
    <3>4. ~RetryFailed
      BY <2>2 DEF RetryFailed, Intact
    <3>5. Marked'
      BY <3>2, <3>4, PageStepMarked, OtherStepMarked DEF Linked, Next
    <3>6. QED  BY <3>3, <3>5 DEF Linked
  <2>3. QED  BY <2>1, <2>2, BarrierStep DEF LinkInv
<1>3. LinkInv => LinkBarrier
  BY DEF LinkInv
<1>4. QED  BY <1>1, <1>2, <1>3, PTL DEF Safe
=============================================================================
