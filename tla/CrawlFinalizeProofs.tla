-------------------------- MODULE CrawlFinalizeProofs --------------------------
(***************************************************************************)
(* Proofs about the finalizer (module CrawlFinalize) for every page, list  *)
(* of checks, number of executions, deaths and requests: its types, and    *)
(* the three things a completed crawl promises however often finalize was  *)
(* cut short and started over.                                             *)
(***************************************************************************)
EXTENDS CrawlFinalize, TLAPS

USE DEF queue, runs, crawl, rows, redis, bounds

Jobs == {"none", "waiting", "delayed", "active", "failed", "completed"}

(* The step an execution is at has an entry of its list left.              *)
InList ==
  \A r \in Slots :
    /\ pc[r] = "duplicates" => at[r] \in DOMAIN Duplicates
    /\ pc[r] \in {"clear", "insert"} => at[r] \in DOMAIN LinkBased
    /\ pc[r] = "changes" => at[r] \in 1 .. Changes
    /\ pc[r] = "trend" => at[r] \in DOMAIN Trends

(* What the sweep has removed stays removed until the sweep adds it again.  *)
TypeInv ==
  /\ TypeOK
  /\ InList
  /\ sweep = "add" => job = "none"

(* The changes an execution has walked past, and after "changes" all, are  *)
(* recorded, by itself or by another.                                      *)
AfterChanges == {"measure", "aggregate", "trend", "complete", "cleanup"}

Kept ==
  /\ ChangesKept
  /\ \A r \in Slots :
       /\ pc[r] = "changes" => \A i \in 1 .. (at[r] - 1) : changes[i] > 0
       /\ pc[r] \in AfterChanges => \A i \in DOMAIN changes : changes[i] > 0

(* Check c is as this crawl found it, or has no issue at all.              *)
Done(c) == c \notin issues.old /\ issues.new[c] = (IF c \in Found THEN 1 ELSE 0)
Gone(c) == c \notin issues.old /\ issues.new[c] = 0

AfterLinks == {"rescore", "changes", "measure", "aggregate", "trend", "complete"}
Working == AfterLinks \cup {"duplicates", "clear", "insert"}

(* An execution that runs alone: which checks it has derived, and that the *)
(* crawl is not completed before it has derived all.                       *)
Exclusive == \A q, r \in Slots : pc[q] # "free" /\ pc[r] # "free" => q = r

Deriving(r) ==
  /\ pc[r] = "duplicates" => \A i \in 1 .. (at[r] - 1) : Done(Duplicates[i])
  /\ pc[r] \in {"clear", "insert"} =>
       /\ \A c \in Rows(Duplicates) : Done(c) \/ (pc[r] = "insert" /\ c = LinkBased[at[r]])
       /\ \A i \in 1 .. (at[r] - 1) :
            Done(LinkBased[i]) \/ (pc[r] = "insert" /\ LinkBased[i] = LinkBased[at[r]])
  /\ pc[r] = "insert" => Gone(LinkBased[at[r]])
  /\ pc[r] \in AfterLinks => \A c \in Checks : Done(c)
  /\ pc[r] \in Working => status # "completed"

Once ==
  ~overlapped =>
    /\ Exclusive
    /\ \A r \in Slots : Deriving(r)
    /\ status = "completed" => \A c \in Checks : Done(c)

(* ... and what it has computed from the issues, which no longer change.   *)
Measuring(r) ==
  /\ pc[r] \in {"changes", "measure"} => score = issues
  /\ pc[r] \in {"aggregate", "trend", "complete"} => metrics[r] = issues
  /\ pc[r] \in {"trend", "complete"} => aggregate = issues
  /\ pc[r] = "trend" => \A i \in 1 .. (at[r] - 1) : trend[Trends[i]] = issues
  /\ pc[r] = "complete" => \A t \in DOMAIN trend : trend[t] = issues

Told ==
  ~overlapped =>
    /\ \A r \in Slots : Measuring(r)
    /\ status = "completed" => aggregate = issues /\ \A t \in DOMAIN trend : trend[t] = issues

(* A page that neither had nor has cross-page issues scores without them.  *)
Clean == Found = {} /\ Carried = {} => issues = NoIssues /\ score = NoIssues

-----------------------------------------------------------------------------
(* Steps that touch no row.                                                *)

QueueStep ==
  \/ \E r \in Slots : Deliver(r) \/ Ack(r) \/ Fault(r)
  \/ Promote \/ FindStuckFinalizing \/ Redrive
  \/ (\E op \in Controls : Request(op))
  \/ PauseOrResume \/ Cancel

(* The step of a list is set together with its first entry.                *)
LEMMA ListsNotEmpty ==
  /\ 1 \in DOMAIN Duplicates /\ 1 \in DOMAIN LinkBased /\ 1 \in DOMAIN Trends
  /\ Changes # 0 => 1 \in 1 .. Changes
  /\ Len(Duplicates) \in Nat /\ DOMAIN Duplicates = 1 .. Len(Duplicates)
  /\ Len(LinkBased) \in Nat /\ DOMAIN LinkBased = 1 .. Len(LinkBased)
  /\ Len(Trends) \in Nat /\ DOMAIN Trends = 1 .. Len(Trends)
<1>1. \A S, s : s \in Seq(S) \ {<<>>} =>
        1 \in DOMAIN s /\ Len(s) \in Nat /\ DOMAIN s = 1 .. Len(s)
  OBVIOUS
<1>2. 1 \in DOMAIN Trends /\ Len(Trends) \in Nat /\ DOMAIN Trends = 1 .. Len(Trends)
  <2>1. CASE Trends = <<"site">>
    BY <2>1
  <2>2. CASE Trends = <<"site", "group">>
    BY <2>2
  <2>3. QED  BY <2>1, <2>2, FinalizeAssumption
<1>3. Changes # 0 => 1 \in 1 .. Changes
  BY FinalizeAssumption
<1>4. QED  BY <1>1, <1>2, <1>3, ChecksAssumption

(* An execution that goes on moves itself only.                            *)
LEMMA Advances ==
  ASSUME RunType, NEW r \in Slots, NEW size \in Nat, NEW again, NEW done,
         Advance(r, size, again, done)
  PROVE  /\ \A q \in Slots : q # r => pc'[q] = pc[q] /\ at'[q] = at[q]
         /\ \/ at[r] < size /\ pc'[r] = again /\ at'[r] = at[r] + 1
            \/ ~(at[r] < size) /\ pc'[r] = done /\ at'[r] = 1
         /\ pc' \in [Slots -> {pc[q] : q \in Slots} \cup {again, done}]
         /\ at' \in [Slots -> Nat \ {0}]
  BY DEF RunType, Advance, Goto

(* An execution that goes to a step starts at the first entry of its list. *)
LEMMA Goes ==
  ASSUME RunType, NEW r \in Slots, NEW step, Goto(r, step)
  PROVE  /\ \A q \in Slots : q # r => pc'[q] = pc[q] /\ at'[q] = at[q]
         /\ pc'[r] = step /\ at'[r] = 1
         /\ pc' \in [Slots -> {pc[q] : q \in Slots} \cup {step}]
         /\ at' \in [Slots -> Nat \ {0}]
  BY DEF RunType, Goto

-----------------------------------------------------------------------------
(* Types.                                                                  *)

(* The finalizer starts well typed.                                        *)
LEMMA InitTypes == Init => TypeInv
<1> SUFFICES ASSUME Init PROVE TypeInv
  OBVIOUS
<1>1. QueueType /\ RunType
  BY DEF Init, QueueType, RunType, Steps, Issues, NoIssues
<1>2. RowType
  <2>1. NoIssues \in Issues /\ [NoIssues EXCEPT !.old = Carried] \in Issues
    BY PageAssumption DEF Issues, NoIssues
  <2>2. issues \in Issues /\ score \in Issues /\ aggregate \in Issues
    BY <2>1 DEF Init
  <2>3. trend \in [Rows(Trends) -> Issues] /\ changes \in [1 .. Changes -> 0 .. 2]
    BY <2>1 DEF Init
  <2>4. QED  BY <2>2, <2>3 DEF Init, RowType, Statuses, Controllable
<1>3. QED  BY <1>1, <1>2 DEF Init, TypeInv, TypeOK, InList

(* A function changed at one point, which may lie outside its domain.      *)
LEMMA ExceptType ==
  ASSUME NEW S, NEW T, NEW f \in [S -> T], NEW c, NEW v \in T
  PROVE  [f EXCEPT ![c] = v] \in [S -> T]
  OBVIOUS

(* The operations on issue rows, field by field.                           *)
LEMMA ClearedRows ==
  ASSUME RowType, NEW c
  PROVE  /\ Cleared(c) \in Issues
         /\ Cleared(c).old = issues.old \ {c}
         /\ Cleared(c).new = [issues.new EXCEPT ![c] = 0]
<1>1. issues.old \subseteq Checks /\ issues.new \in [Checks -> 0 .. 2]
  BY DEF RowType, Issues
<1>2. issues.old \ {c} \in SUBSET Checks
  BY <1>1
<1>3. [issues.new EXCEPT ![c] = 0] \in [Checks -> 0 .. 2]
  <2>1. 0 \in 0 .. 2
    OBVIOUS
  <2>2. QED  BY <1>1, <2>1, ExceptType, Zenon
<1>4. QED  BY <1>2, <1>3 DEF Issues, Cleared

(* insertDuplicateIssues: the old rows go, at most one new one comes.      *)
LEMMA InsertedRows ==
  ASSUME RowType, NEW r, NEW list,
         issues' = (IF list[at[r]] \in Found
                    THEN [Cleared(list[at[r]]) EXCEPT !.new[list[at[r]]] = 1]
                    ELSE Cleared(list[at[r]]))
  PROVE  /\ issues' \in Issues
         /\ issues'.old = issues.old \ {list[at[r]]}
         /\ issues'.new = [issues.new EXCEPT ![list[at[r]]] =
                             IF list[at[r]] \in Found THEN 1 ELSE 0]
<1> DEFINE c == list[at[r]]
<1>1. /\ Cleared(c) \in Issues
      /\ Cleared(c).old = issues.old \ {c}
      /\ Cleared(c).new = [issues.new EXCEPT ![c] = 0]
  BY ClearedRows
<1>2. issues.new \in [Checks -> 0 .. 2]
  BY DEF RowType, Issues
<1> HIDE DEF c
<1>3. issues' = (IF c \in Found THEN [Cleared(c) EXCEPT !.new[c] = 1] ELSE Cleared(c))
  BY DEF c
<1>4. CASE c \in Found
  BY <1>1, <1>2, <1>3, <1>4 DEF Issues, c
<1>5. CASE c \notin Found
  BY <1>1, <1>2, <1>3, <1>5 DEF Issues, c
<1>6. QED  BY <1>4, <1>5

(* An insert without a delete adds a row.                                  *)
LEMMA AddedRows ==
  ASSUME RowType, NEW c, issues' = [issues EXCEPT !.new[c] = More(@)]
  PROVE  /\ issues' \in Issues
         /\ issues'.old = issues.old
         /\ issues'.new = [issues.new EXCEPT ![c] = More(issues.new[c])]
  BY DEF RowType, Issues, More

(* Within a list the next entry is in the list, and a step starts at one.   *)
LEMMA ProcessRuns ==
  ASSUME TypeInv, NEW r \in Slots, Process(r)
  PROVE  RunType' /\ InList'
<1>a. RunType /\ InList
  BY DEF TypeInv, TypeOK
<1>1. CASE \/ Begin(r) \/ RecomputeSnapshotScores(r) \/ UpsertAggregate(r)
           \/ Complete(r) \/ Cleanup(r)
  <2>1. PICK step \in {"ack", "duplicates", "changes", "measure", "trend", "cleanup"} :
          Goto(r, step) /\ (step = "changes" => Changes # 0)
    BY <1>1 DEF Begin, RecomputeSnapshotScores, UpsertAggregate, Complete, Cleanup
  <2>2. metrics' = metrics
    BY <1>1 DEF Begin, RecomputeSnapshotScores, UpsertAggregate, Complete, Cleanup
  <2>3. QED  BY <1>a, <2>1, <2>2, Goes, ListsNotEmpty DEF RunType, InList, Steps
<1>2. CASE ScoreComponents(r)
  <2>1. Goto(r, "aggregate") /\ metrics' = [metrics EXCEPT ![r] = score] /\ score \in Issues
    BY <1>2 DEF ScoreComponents, TypeInv, TypeOK, RowType
  <2>2. QED  BY <1>a, <2>1, Goes DEF RunType, InList, Steps
<1>3. CASE ClearChecks(r)
  BY <1>a, <1>3 DEF ClearChecks, RunType, InList, Steps
<1>4. CASE InsertDuplicateIssues(r)
  <2>1. /\ pc[r] \in {"duplicates"} /\ metrics' = metrics
        /\ Advance(r, Len(Duplicates), "duplicates", "clear") /\ Len(Duplicates) \in Nat
    BY <1>4, ListsNotEmpty DEF InsertDuplicateIssues
  <2>2. /\ \A q \in Slots : q # r => pc'[q] = pc[q] /\ at'[q] = at[q]
        /\ \/ at[r] < Len(Duplicates) /\ pc'[r] = "duplicates" /\ at'[r] = at[r] + 1
           \/ pc'[r] = "clear" /\ at'[r] = 1
        /\ RunType'
    BY <1>a, <2>1, Advances DEF RunType, Steps
  <2>3. QED  BY <1>a, <2>1, <2>2, ListsNotEmpty DEF RunType, InList
<1>5. CASE InsertLinkIssues(r)
  <2>1. /\ pc[r] \in {"insert"} /\ metrics' = metrics
        /\ Advance(r, Len(LinkBased), "clear", "rescore") /\ Len(LinkBased) \in Nat
    BY <1>5, ListsNotEmpty DEF InsertLinkIssues
  <2>2. /\ \A q \in Slots : q # r => pc'[q] = pc[q] /\ at'[q] = at[q]
        /\ \/ at[r] < Len(LinkBased) /\ pc'[r] = "clear" /\ at'[r] = at[r] + 1
           \/ pc'[r] = "rescore" /\ at'[r] = 1
        /\ RunType'
    BY <1>a, <2>1, Advances DEF RunType, Steps
  <2>3. QED  BY <1>a, <2>1, <2>2, ListsNotEmpty DEF RunType, InList
<1>6. CASE DetectSchemaChanges(r)
  <2>1. /\ pc[r] = "changes" /\ metrics' = metrics
        /\ Advance(r, Changes, "changes", "measure") /\ Changes \in Nat
    BY <1>6, FinalizeAssumption DEF DetectSchemaChanges
  <2>2. RunType'
    BY <1>a, <2>1, Advances DEF RunType, Steps
  <2>3. QED  BY <1>a, <2>1, <2>2, Advances DEF RunType, InList
<1>7. CASE UpsertTrend(r)
  BY <1>a, <1>7, Advances, ListsNotEmpty DEF UpsertTrend, RunType, InList, Steps
<1>8. QED  BY <1>1, <1>2, <1>3, <1>4, <1>5, <1>6, <1>7 DEF Process

(* The handler leaves well-typed rows.                                     *)
LEMMA ProcessRows ==
  ASSUME TypeInv, NEW r \in Slots, Process(r)
  PROVE  RowType'
<1>a. /\ RowType /\ pc \in [Slots -> Steps \cup {"free"}]
      /\ metrics[r] \in Issues /\ at[r] \in Nat \ {0}
  BY DEF TypeInv, TypeOK, RunType
<1>1. CASE Begin(r) \/ Complete(r) \/ ScoreComponents(r) \/ Cleanup(r)
  BY <1>a, <1>1 DEF Begin, Complete, ScoreComponents, Cleanup, SetStatus, RowType,
     Statuses, Terminal
<1>2. CASE InsertDuplicateIssues(r)
  <2>1. issues' \in Issues
    BY <1>a, <1>2, InsertedRows DEF InsertDuplicateIssues
  <2>2. QED  BY <1>a, <1>2, <2>1 DEF InsertDuplicateIssues, RowType
<1>3. CASE ClearChecks(r)
  BY <1>a, <1>3, ClearedRows DEF ClearChecks, RowType
<1>4. CASE InsertLinkIssues(r)
  <2>1. issues' \in Issues
    BY <1>a, <1>4, AddedRows DEF InsertLinkIssues, RowType
  <2>2. QED  BY <1>a, <1>4, <2>1 DEF InsertLinkIssues, RowType
<1>5. CASE RecomputeSnapshotScores(r)
  BY <1>a, <1>5 DEF RecomputeSnapshotScores, RowType
<1>6. CASE DetectSchemaChanges(r)
  <2>1. \A n \in 0 .. 2 : More(n) \in 0 .. 2
    BY DEF More
  <2>2. at[r] \in 1 .. Changes
    BY <1>6 DEF DetectSchemaChanges, TypeInv, InList
  <2>3. changes' = [changes EXCEPT ![at[r]] = More(changes[at[r]])]
    BY <1>6 DEF DetectSchemaChanges
  <2>4. changes' \in [1 .. Changes -> 0 .. 2]
    BY <1>a, <2>1, <2>2, <2>3 DEF RowType
  <2>5. QED  BY <1>a, <1>6, <2>4 DEF DetectSchemaChanges, RowType
<1>7. CASE UpsertAggregate(r) \/ UpsertTrend(r)
  BY <1>a, <1>7 DEF UpsertAggregate, UpsertTrend, RowType
<1>8. QED  BY <1>1, <1>2, <1>3, <1>4, <1>5, <1>6, <1>7 DEF Process

(* A step of the handler touches neither the job nor the watchdog.         *)
LEMMA ProcessTypes ==
  ASSUME TypeInv, NEW r \in Slots, Process(r)
  PROVE  TypeInv'
<1>1. /\ UNCHANGED <<queue, cancelled, sweep, api, overlapped, bounds>>
      /\ keys' \in {keys, FALSE}
  BY DEF Process, Begin, InsertDuplicateIssues, ClearChecks, InsertLinkIssues,
     RecomputeSnapshotScores, DetectSchemaChanges, ScoreComponents, UpsertAggregate,
     UpsertTrend, Complete, Cleanup
<1>2. RunType' /\ InList' /\ RowType'
  BY ProcessRuns, ProcessRows
<1>3. QED  BY <1>1, <1>2 DEF TypeInv, TypeOK, QueueType

(* What an execution is between two of its steps: still there, over, or    *)
(* delivered.                                                              *)
Rests(r) ==
  \/ pc'[r] = pc[r] /\ at'[r] = at[r] /\ metrics'[r] = metrics[r]
  \/ pc'[r] \in {"free", "begin"}

(* An execution that is over leaves the others where they are.             *)
LEMMA ReleaseRuns ==
  ASSUME RunType, NEW r \in Slots, Release(r)
  PROVE  /\ RunType'
         /\ \A q \in Slots : Rests(q)
         /\ \A q \in Slots : pc'[q] # "free" => pc[q] # "free"
<1>1. NoIssues \in Issues
  BY DEF NoIssues, Issues
<1>2. metrics' \in [Slots -> Issues] /\ \A q \in Slots : q # r => metrics'[q] = metrics[q]
  BY <1>1 DEF Release, RunType
<1>3. QED  BY <1>2, Goes DEF Release, RunType, Rests

(* Between its steps an execution rests, and none comes beside another     *)
(* unnoticed.                                                              *)
LEMMA RestTypes ==
  ASSUME TypeInv, QueueStep
  PROVE  /\ RunType' /\ InList'
         /\ \A q \in Slots : Rests(q)
         /\ (overlapped' \in BOOLEAN)
         /\ ~overlapped' /\ Exclusive => ~overlapped /\ Exclusive'
<1>a. RunType /\ InList /\ (overlapped \in BOOLEAN)
  BY DEF TypeInv, TypeOK
<1>1. ASSUME NEW r \in Slots, Deliver(r)
      PROVE  /\ RunType' /\ \A q \in Slots : Rests(q)
             /\ (overlapped' \in BOOLEAN)
             /\ ~overlapped' /\ Exclusive => ~overlapped /\ Exclusive'
  <2>1. Goto(r, "begin") /\ metrics' = metrics
    BY <1>1 DEF Deliver
  <2>2. RunType' /\ \A q \in Slots : Rests(q)
    BY <1>a, <2>1, Goes DEF RunType, Rests, Steps
  <2>3. overlapped' = (overlapped \/ \E q \in Slots : pc[q] # "free")
    BY <1>1 DEF Deliver
  <2>4. ~overlapped' => ~overlapped /\ Exclusive'
    BY <1>a, <2>1, <2>3, Goes DEF Exclusive
  <2>5. QED  BY <1>a, <2>2, <2>3, <2>4
<1>2. ASSUME NEW r \in Slots, Ack(r) \/ Fault(r)
      PROVE  /\ RunType' /\ \A q \in Slots : Rests(q)
             /\ overlapped' = overlapped
             /\ Exclusive => Exclusive'
  <2>1. Release(r) \/ UNCHANGED runs
    BY <1>2 DEF Ack, Fault, Throw, Stall
  <2>2. overlapped' = overlapped
    BY <1>2 DEF Ack, Fault
  <2>3. RunType' /\ \A q \in Slots : Rests(q) /\ (pc'[q] # "free" => pc[q] # "free")
    BY <1>a, <2>1, ReleaseRuns DEF RunType, Rests
  <2>4. QED  BY <2>2, <2>3 DEF Exclusive
<1>3. ASSUME \/ Promote \/ FindStuckFinalizing \/ Redrive
             \/ (\E op \in Controls : Request(op)) \/ PauseOrResume \/ Cancel
      PROVE  /\ RunType' /\ (\A q \in Slots : Rests(q))
             /\ overlapped' = overlapped /\ pc' = pc
  <2>1. UNCHANGED <<runs, overlapped>>
    BY <1>3 DEF Promote, FindStuckFinalizing, Redrive, RedriveLook, RedriveRemove,
       RedriveAdd, Request, PauseOrResume, Cancel
  <2>2. QED  BY <1>a, <2>1 DEF RunType, Rests
<1>4. /\ RunType' /\ (\A q \in Slots : Rests(q))
      /\ (overlapped' \in BOOLEAN)
      /\ ~overlapped' /\ Exclusive => ~overlapped /\ Exclusive'
  <2>1. CASE \E r \in Slots : Deliver(r)
    BY <1>1, <2>1
  <2>2. CASE \E r \in Slots : Ack(r) \/ Fault(r)
    BY <1>a, <1>2, <2>2
  <2>3. CASE \/ Promote \/ FindStuckFinalizing \/ Redrive
             \/ (\E op \in Controls : Request(op)) \/ PauseOrResume \/ Cancel
    BY <1>a, <1>3, <2>3 DEF Exclusive
  <2>4. QED  BY <2>1, <2>2, <2>3 DEF QueueStep
<1>5. InList'
  BY <1>a, <1>4 DEF InList, Rests
<1>6. QED  BY <1>4, <1>5

(* Those steps write no row but the status of the crawl, which they never  *)
(* complete.                                                               *)
LEMMA RestRows ==
  ASSUME TypeInv, QueueStep
  PROVE  /\ UNCHANGED rows
         /\ status' \in {status, "paused", "running"}
         /\ (finished' \in BOOLEAN)
<1>a. (finished \in BOOLEAN)
  BY DEF TypeInv, TypeOK, RowType
<1>1. CASE PauseOrResume
  BY <1>a, <1>1 DEF PauseOrResume, SetStatus, Terminal
<1>2. CASE ~PauseOrResume
  <2>1. UNCHANGED <<rows, crawl>>
    BY <1>2 DEF QueueStep, Deliver, Ack, Fault, Promote, FindStuckFinalizing, Redrive,
       RedriveLook, RedriveRemove, RedriveAdd, Request, Cancel
  <2>2. QED  BY <1>a, <2>1
<1>3. QED  BY <1>1, <1>2

(* The job has a holder exactly while it is active, and a job that was     *)
(* removed is not there until it is added.                                 *)
LEMMA HolderTypes ==
  ASSUME TypeInv, QueueStep
  PROVE  QueueType' /\ (sweep' = "add" => job' = "none")
<1>a. /\ QueueType /\ (sweep = "add" => job = "none")
      /\ MaxAttempts \in Nat /\ MaxStalled \in Nat
  BY FinalizeAssumption DEF TypeInv, TypeOK
<1>1. ASSUME NEW r \in Slots, Deliver(r) PROVE QueueType' /\ sweep' # "add"
  BY <1>a, <1>1 DEF Deliver, QueueType
<1>2. ASSUME NEW r \in Slots, Ack(r) PROVE QueueType' /\ (sweep' = "add" => job' = "none")
  <2>1. CASE r \in holder
    <3>1. job = "active" /\ holder = {r}
      BY <1>a, <2>1 DEF QueueType
    <3>2. job' = "completed" /\ holder' = {} /\ UNCHANGED <<tries, stalls, sweep>>
      BY <1>2, <2>1, <3>1 DEF Ack
    <3>3. QED  BY <1>a, <3>1, <3>2 DEF QueueType
  <2>2. CASE r \notin holder
    <3>1. UNCHANGED <<job, tries, stalls, sweep>> /\ holder' = holder
      BY <1>2, <2>2 DEF Ack
    <3>2. QED  BY <1>a, <3>1 DEF QueueType
  <2>3. QED  BY <2>1, <2>2
<1>3. ASSUME NEW r \in Slots, Fault(r)
      PROVE  QueueType' /\ (sweep' = "add" => job' = "none")
  <2>1. CASE r \in holder
    <3>1. job = "active" /\ sweep' # "add"
      BY <1>a, <1>3, <2>1 DEF QueueType, Fault
    <3>2. /\ job' \in {"delayed", "failed", "waiting"} /\ holder' = {}
          /\ tries' \in {tries, tries + 1} /\ stalls' \in {stalls, stalls + 1}
      BY <1>a, <1>3, <2>1 DEF Fault, Throw, Stall
    <3>3. QED  BY <1>a, <3>1, <3>2 DEF QueueType
  <2>2. CASE r \notin holder
    <3>1. UNCHANGED <<job, tries, stalls, holder, sweep>>
      BY <1>3, <2>2 DEF Fault, Throw, Stall
    <3>2. QED  BY <1>a, <3>1 DEF QueueType
  <2>3. QED  BY <2>1, <2>2
<1>4. ASSUME Promote \/ FindStuckFinalizing \/ Redrive
      PROVE  QueueType' /\ (sweep' = "add" => job' = "none")
  <2>1. CASE Promote
    BY <1>a, <2>1 DEF Promote, QueueType
  <2>2. CASE FindStuckFinalizing
    BY <1>a, <2>2 DEF FindStuckFinalizing, QueueType
  <2>3. CASE RedriveLook
    BY <1>a, <2>3 DEF RedriveLook, QueueType
  <2>4. CASE RedriveRemove
    BY <1>a, <2>4 DEF RedriveRemove, QueueType
  <2>5. CASE RedriveAdd
    BY <1>a, <2>5 DEF RedriveAdd, QueueType
  <2>6. QED  BY <1>4, <2>1, <2>2, <2>3, <2>4, <2>5 DEF Redrive
<1>5. ASSUME (\E op \in Controls : Request(op)) \/ PauseOrResume \/ Cancel
      PROVE  QueueType' /\ (sweep' = "add" => job' = "none")
  <2>1. UNCHANGED <<queue, sweep>>
    BY <1>5 DEF Request, PauseOrResume, Cancel
  <2>2. QED  BY <1>a, <2>1 DEF QueueType
<1>6. QED  BY <1>1, <1>2, <1>3, <1>4, <1>5 DEF QueueStep

(* The queue, the watchdog and the operator keep the types.                *)
LEMMA QueueTypes ==
  ASSUME TypeInv, QueueStep
  PROVE  TypeInv'
<1>a. TypeOK
  BY DEF TypeInv
<1>1. RunType' /\ InList' /\ (overlapped' \in BOOLEAN)
  BY RestTypes
<1>2. RowType'
  <2>1. /\ UNCHANGED rows /\ status' \in {status, "paused", "running"}
        /\ (finished' \in BOOLEAN)
    BY RestRows
  <2>2. QED  BY <1>a, <2>1 DEF TypeOK, RowType, Statuses, Controllable
<1>3. QueueType' /\ (sweep' = "add" => job' = "none")
  BY HolderTypes
<1>4. sweep' \in {"idle", "look", "remove", "add"}
  <2>1. CASE FindStuckFinalizing \/ Redrive
    BY <1>a, <2>1 DEF FindStuckFinalizing, Redrive, RedriveLook, RedriveRemove, RedriveAdd,
       TypeOK
  <2>2. CASE ~(FindStuckFinalizing \/ Redrive)
    <3>1. sweep' = sweep
      BY <2>2 DEF QueueStep, Deliver, Ack, Fault, Promote, Request, PauseOrResume, Cancel
    <3>2. QED  BY <1>a, <3>1 DEF TypeOK
  <2>3. QED  BY <2>1, <2>2
<1>5. /\ (cancelled' \in BOOLEAN) /\ (keys' \in BOOLEAN)
      /\ api' \in {"idle"} \cup Controls
      /\ faults' \in Nat /\ controls' \in Nat
  <2>1. /\ cancelled' \in {cancelled, TRUE} /\ keys' = keys
        /\ api' \in {api, "idle"} \cup Controls
        /\ faults' \in {faults, faults + 1} /\ controls' \in {controls, controls + 1}
    BY DEF QueueStep, Deliver, Ack, Fault, Promote, FindStuckFinalizing, Redrive,
       RedriveLook, RedriveRemove, RedriveAdd, Request, PauseOrResume, Cancel
  <2>2. /\ (cancelled \in BOOLEAN) /\ (keys \in BOOLEAN)
        /\ api \in {"idle"} \cup Controls
        /\ faults \in Nat /\ controls \in Nat
    BY <1>a DEF TypeOK
  <2>3. (cancelled' \in BOOLEAN) /\ (keys' \in BOOLEAN)
    BY <2>1, <2>2, Zenon
  <2>4. QED  BY <2>1, <2>2, <2>3
<1>6. QED  BY <1>1, <1>2, <1>3, <1>4, <1>5 DEF TypeInv, TypeOK

(* Every step is one of an execution or one of the queue, the sweep and    *)
(* the operator.                                                           *)
LEMMA NextSplits ==
  ASSUME [Next]_vars
  PROVE  (\E r \in Slots : Process(r)) \/ QueueStep \/ UNCHANGED vars
  BY DEF Next, QueueStep

(* Nothing happens.                                                        *)
LEMMA StutterTypes ==
  ASSUME TypeInv, UNCHANGED vars
  PROVE  TypeInv'
  BY DEF vars, TypeInv, TypeOK, QueueType, RunType, RowType, InList

(* TypeOK of every crawl: every variable keeps its type, and the job has a *)
(* single holder exactly while it is active (module CrawlFinalize).        *)
THEOREM TypeCorrect == Safe => []TypeOK
<1>1. Init => TypeInv
  BY InitTypes
<1>2. TypeInv /\ [Next]_vars => TypeInv'
  BY NextSplits, ProcessTypes, QueueTypes, StutterTypes
<1>3. TypeInv => TypeOK
  BY DEF TypeInv
<1>4. QED  BY <1>1, <1>2, <1>3, PTL DEF Safe

-----------------------------------------------------------------------------
(* Schema changes.                                                         *)

(* A step of one execution leaves the places of the others.                *)
LEMMA ProcessAlone ==
  ASSUME TypeInv, NEW r \in Slots, Process(r)
  PROVE  /\ pc[r] \in Steps \ {"ack"} /\ pc'[r] # "free"
         /\ overlapped' = overlapped
         /\ \A q \in Slots : q # r => /\ pc'[q] = pc[q] /\ at'[q] = at[q]
                                      /\ metrics'[q] = metrics[q]
<1>a. RunType
  BY DEF TypeInv, TypeOK
<1>1. CASE \/ Begin(r) \/ RecomputeSnapshotScores(r) \/ UpsertAggregate(r)
           \/ Complete(r) \/ Cleanup(r) \/ ScoreComponents(r)
  <2>1. PICK step \in Steps : Goto(r, step)
    BY <1>1 DEF Begin, RecomputeSnapshotScores, UpsertAggregate, Complete, Cleanup,
       ScoreComponents, Steps
  <2>2. /\ metrics' \in {metrics, [metrics EXCEPT ![r] = score]}
        /\ overlapped' = overlapped
        /\ pc[r] \in Steps \ {"ack"}
    BY <1>1 DEF Begin, RecomputeSnapshotScores, UpsertAggregate, Complete, Cleanup,
       ScoreComponents, Steps
  <2>3. \A q \in Slots : q # r => pc'[q] = pc[q] /\ at'[q] = at[q]
    BY <1>a, <2>1, Goes
  <2>4. \A q \in Slots : q # r => metrics'[q] = metrics[q]
    BY <1>a, <2>2 DEF RunType
  <2>5. pc'[r] # "free"
    BY <1>a, <2>1, Goes DEF Steps
  <2>6. QED  BY <2>2, <2>3, <2>4, <2>5
<1>2. CASE ClearChecks(r)
  BY <1>a, <1>2 DEF ClearChecks, RunType, Steps
<1>3. CASE \/ InsertDuplicateIssues(r) \/ InsertLinkIssues(r) \/ DetectSchemaChanges(r)
           \/ UpsertTrend(r)
  <2>1. PICK size \in Nat, again \in Steps, done \in Steps : Advance(r, size, again, done)
    BY <1>3, ListsNotEmpty, FinalizeAssumption DEF InsertDuplicateIssues, InsertLinkIssues,
       DetectSchemaChanges, UpsertTrend, Steps
  <2>2. metrics' = metrics /\ overlapped' = overlapped /\ pc[r] \in Steps \ {"ack"}
    BY <1>3 DEF InsertDuplicateIssues, InsertLinkIssues, DetectSchemaChanges, UpsertTrend,
       Steps
  <2>3. QED  BY <1>a, <2>1, <2>2, Advances DEF Steps
<1>4. QED  BY <1>1, <1>2, <1>3 DEF Process

(* An execution records the entry it is at before it goes past it, and no  *)
(* row of changes is deleted.                                              *)
LEMMA ProcessKept ==
  ASSUME TypeInv, Kept, NEW r \in Slots, Process(r)
  PROVE  Kept'
<1>a. /\ RunType /\ changes \in [1 .. Changes -> 0 .. 2] /\ Changes \in Nat
      /\ \A q \in Slots : q # r => pc'[q] = pc[q] /\ at'[q] = at[q]
  BY ProcessAlone, FinalizeAssumption DEF TypeInv, TypeOK, RowType
<1>1. CASE DetectSchemaChanges(r)
  <2>1. /\ pc[r] = "changes" /\ UNCHANGED status
        /\ changes' = [changes EXCEPT ![at[r]] = More(changes[at[r]])]
        /\ Advance(r, Changes, "changes", "measure")
    BY <1>1 DEF DetectSchemaChanges
  <2>2. at[r] \in 1 .. Changes /\ \A i \in 1 .. (at[r] - 1) : changes[i] > 0
    BY <2>1 DEF TypeInv, InList, Kept
  <2>3. /\ DOMAIN changes' = 1 .. Changes /\ changes'[at[r]] > 0
        /\ \A i \in 1 .. Changes : changes[i] > 0 => changes'[i] > 0
    <3>1. More(changes[at[r]]) > 0
      BY <1>a, <2>2 DEF More
    <3>2. QED  BY <1>a, <2>1, <2>2, <3>1
  <2>4. \/ at[r] < Changes /\ pc'[r] = "changes" /\ at'[r] = at[r] + 1
        \/ ~(at[r] < Changes) /\ pc'[r] = "measure"
    BY <1>a, <2>1, Advances
  <2>5. /\ pc'[r] = "changes" => \A i \in 1 .. (at'[r] - 1) : changes'[i] > 0
        /\ pc'[r] # "changes" => \A i \in 1 .. Changes : changes'[i] > 0
    <3>1. \A i \in 1 .. at[r] : i = at[r] \/ i \in 1 .. (at[r] - 1)
      BY <2>2
    <3>2. \A i \in 1 .. at[r] : i \in 1 .. Changes /\ changes'[i] > 0
      BY <1>a, <2>2, <2>3, <3>1
    <3>3. CASE at[r] < Changes /\ pc'[r] = "changes" /\ at'[r] = at[r] + 1
      BY <1>a, <2>2, <3>2, <3>3
    <3>4. CASE ~(at[r] < Changes) /\ pc'[r] = "measure"
      <4>1. at[r] = Changes
        BY <1>a, <2>2, <3>4
      <4>2. QED  BY <3>2, <3>4, <4>1
    <3>5. QED  BY <2>4, <3>3, <3>4
  <2>6. ChangesKept'
    BY <1>a, <2>1, <2>3 DEF Kept, ChangesKept
  <2>7. ASSUME NEW q \in Slots
        PROVE  /\ pc'[q] = "changes" => \A i \in 1 .. (at'[q] - 1) : changes'[i] > 0
               /\ pc'[q] \in AfterChanges => \A i \in DOMAIN changes' : changes'[i] > 0
    <3>1. CASE q = r
      BY <2>3, <2>5, <3>1 DEF AfterChanges
    <3>2. CASE q # r
      <4>1. pc[q] = "changes" => at[q] \in 1 .. Changes
        BY DEF TypeInv, InList
      <4>2. QED  BY <1>a, <2>3, <3>2, <4>1 DEF Kept
    <3>3. QED  BY <3>1, <3>2
  <2>8. QED  BY <2>6, <2>7 DEF Kept
<1>2. CASE ~DetectSchemaChanges(r)
  <2>1. changes' = changes
    BY <1>2 DEF Process, Begin, InsertDuplicateIssues, ClearChecks, InsertLinkIssues,
       RecomputeSnapshotScores, ScoreComponents, UpsertAggregate, UpsertTrend, Complete,
       Cleanup
  <2>2. CASE Complete(r)
    <3>1. pc[r] = "complete" /\ pc'[r] = "cleanup"
      BY <1>a, <2>2, Goes DEF Complete
    <3>2. QED  BY <1>a, <2>1, <3>1 DEF Kept, ChangesKept, AfterChanges
  <2>3. CASE RecomputeSnapshotScores(r)
    <3>1. /\ pc'[r] = (IF Changes = 0 THEN "measure" ELSE "changes") /\ at'[r] = 1
          /\ UNCHANGED status
      BY <1>a, <2>3, Goes DEF RecomputeSnapshotScores
    <3>2. QED  BY <1>a, <2>1, <3>1 DEF Kept, ChangesKept, AfterChanges
  <2>4. CASE ~Complete(r) /\ ~RecomputeSnapshotScores(r)
    <3>1. pc'[r] # "changes" /\ (pc'[r] \in AfterChanges => pc[r] \in AfterChanges)
      <4>1. CASE Begin(r) \/ ScoreComponents(r) \/ UpsertAggregate(r) \/ Cleanup(r)
        BY <1>a, <4>1, Goes DEF Begin, ScoreComponents, UpsertAggregate, Cleanup,
           AfterChanges
      <4>2. CASE ClearChecks(r)
        BY <1>a, <4>2 DEF ClearChecks, AfterChanges, RunType
      <4>3. CASE InsertDuplicateIssues(r) \/ InsertLinkIssues(r) \/ UpsertTrend(r)
        <5>1. \/ Advance(r, Len(Duplicates), "duplicates", "clear")
              \/ Advance(r, Len(LinkBased), "clear", "rescore")
              \/ pc[r] = "trend" /\ Advance(r, Len(Trends), "trend", "complete")
          BY <4>3 DEF InsertDuplicateIssues, InsertLinkIssues, UpsertTrend
        <5>2. \/ pc'[r] \in {"duplicates", "clear", "rescore"}
              \/ pc[r] = "trend" /\ pc'[r] \in {"trend", "complete"}
          BY <1>a, <5>1, Advances, ListsNotEmpty
        <5>3. QED  BY <5>2 DEF AfterChanges
      <4>4. QED  BY <1>2, <2>4, <4>1, <4>2, <4>3 DEF Process
    <3>2. status' = "completed" => status = "completed"
      BY <1>2, <2>4 DEF Process, Begin, InsertDuplicateIssues, ClearChecks,
         InsertLinkIssues, ScoreComponents, UpsertAggregate, UpsertTrend, Cleanup,
         SetStatus
    <3>3. QED  BY <1>a, <2>1, <3>1, <3>2 DEF Kept, ChangesKept
  <2>5. QED  BY <2>2, <2>3, <2>4
<1>3. QED  BY <1>1, <1>2

(* An execution that starts anew has walked past nothing.                  *)
LEMMA QueueKept ==
  ASSUME TypeInv, Kept, QueueStep
  PROVE  Kept'
<1>1. changes' = changes /\ (status' = "completed" => status = "completed")
  BY RestRows
<1>2. \A q \in Slots : Rests(q)
  BY RestTypes
<1>3. QED  BY <1>1, <1>2 DEF Kept, ChangesKept, Rests, AfterChanges

(* ChangesKept of every crawl: a completed crawl recorded each of its      *)
(* schema changes, whichever executions died or overlapped on the way      *)
(* (CrawlFinalize.DetectSchemaChanges).                                    *)
THEOREM ChangesSurvive == Safe => []ChangesKept
<1>1. Init => TypeInv /\ Kept
  BY InitTypes DEF Init, Kept, ChangesKept, AfterChanges
<1>2. TypeInv /\ Kept /\ [Next]_vars => TypeInv' /\ Kept'
  <2>1. TypeInv /\ Kept /\ UNCHANGED vars => Kept'
    BY DEF vars, Kept, ChangesKept
  <2>2. QED
    BY <2>1, NextSplits, ProcessTypes, QueueTypes, StutterTypes, ProcessKept, QueueKept
<1>3. Kept => ChangesKept
  BY DEF Kept
<1>4. QED  BY <1>1, <1>2, <1>3, PTL DEF Safe

-----------------------------------------------------------------------------
(* Derived issues.                                                         *)

(* What the three statements on issue rows do to a check and to the others. *)
LEMMA RowsDone ==
  ASSUME RowType, NEW c \in Checks, issues' \in Issues,
         issues'.old = issues.old \ {c},
         issues'.new = [issues.new EXCEPT ![c] = IF c \in Found THEN 1 ELSE 0]
  PROVE  Done(c)' /\ \A d \in Checks : Done(d) => Done(d)'
  BY DEF RowType, Issues, Done

(* A delete leaves nothing of one check.                                   *)
LEMMA RowsGone ==
  ASSUME RowType, NEW c \in Checks, issues' = Cleared(c)
  PROVE  Gone(c)' /\ \A d \in Checks : d # c /\ Done(d) => Done(d)'
<1>1. issues'.old = issues.old \ {c} /\ issues'.new = [issues.new EXCEPT ![c] = 0]
  BY ClearedRows
<1>2. issues.new \in [Checks -> 0 .. 2]
  BY DEF RowType, Issues
<1>3. QED  BY <1>1, <1>2 DEF Gone, Done

(* An insert after it makes the check done.                                *)
LEMMA RowsAdded ==
  ASSUME RowType, NEW c \in Checks, Gone(c),
         issues' = (IF c \in Found THEN [issues EXCEPT !.new[c] = More(@)] ELSE issues)
  PROVE  Done(c)' /\ \A d \in Checks : Done(d) => Done(d)'
<1>1. CASE c \notin Found
  BY <1>1 DEF Gone, Done
<1>2. CASE c \in Found
  <2>1. /\ issues'.old = issues.old
        /\ issues'.new = [issues.new EXCEPT ![c] = More(issues.new[c])]
    BY <1>2, AddedRows
  <2>2. issues.new \in [Checks -> 0 .. 2] /\ More(issues.new[c]) = 1
    BY DEF RowType, Issues, Gone, More
  <2>3. QED  BY <1>2, <2>1, <2>2 DEF Gone, Done
<1>3. QED  BY <1>1, <1>2

(* A page on which every check is done has each found issue, once.         *)
LEMMA DoneIsDerived ==
  ASSUME RowType, \A c \in Checks : Done(c)
  PROVE  issues = [old |-> {}, new |-> [c \in Checks |-> IF c \in Found THEN 1 ELSE 0]]
<1>1. /\ issues.old \subseteq Checks /\ issues.new \in [Checks -> 0 .. 2]
      /\ issues = [old |-> issues.old, new |-> issues.new]
  BY DEF RowType, Issues
<1>2. issues.old = {}
  BY <1>1 DEF Done
<1>3. issues.new = [c \in Checks |-> IF c \in Found THEN 1 ELSE 0]
  BY <1>1 DEF Done
<1>4. QED  BY <1>1, <1>2, <1>3

(* While nobody overlaps, the others are free and stay so.                 *)
LEMMA OthersFree ==
  ASSUME TypeInv, Exclusive, NEW r \in Slots, Process(r)
  PROVE  Exclusive' /\ \A q \in Slots : q # r => pc'[q] = "free"
<1>1. pc[r] # "free" /\ \A q \in Slots : q # r => pc'[q] = pc[q]
  BY ProcessAlone DEF Steps
<1>2. QED  BY <1>1 DEF Exclusive

(* An execution that runs alone does one check after the other and undoes  *)
(* none, and completes the crawl when all are done.                        *)
LEMMA ProcessDerives ==
  ASSUME TypeInv, NEW r \in Slots, Process(r), Deriving(r),
         status = "completed" => \A c \in Checks : Done(c)
  PROVE  /\ Deriving(r)'
         /\ status' = "completed" => \A c \in Checks : Done(c)'
<1>a. /\ RunType /\ RowType
      /\ pc[r] = "duplicates" => at[r] \in DOMAIN Duplicates
      /\ pc[r] \in {"clear", "insert"} => at[r] \in DOMAIN LinkBased
  BY DEF TypeInv, TypeOK, InList
<1>b. /\ \A i \in DOMAIN Duplicates : Duplicates[i] \in Rows(Duplicates)
      /\ \A i \in DOMAIN LinkBased : LinkBased[i] \in Checks
      /\ Rows(Duplicates) \subseteq Checks
      /\ \A c \in Checks : \/ c \in Rows(Duplicates)
                           \/ \E i \in DOMAIN LinkBased : c = LinkBased[i]
  BY DEF Checks, Rows
<1>1. CASE Begin(r)
  <2>1. pc'[r] \in {"ack", "duplicates"} /\ at'[r] = 1 /\ status' # "completed"
    BY <1>a, <1>1, Goes DEF Begin, SetStatus
  <2>2. QED  BY <2>1 DEF Deriving, Working, AfterLinks
<1>2. CASE InsertDuplicateIssues(r)
  <2>1. /\ pc[r] = "duplicates" /\ UNCHANGED status
        /\ Advance(r, Len(Duplicates), "duplicates", "clear")
    BY <1>2 DEF InsertDuplicateIssues
  <2>2. PICK c \in Rows(Duplicates) : c = Duplicates[at[r]]
    BY <1>a, <1>b, <2>1
  <2>3. Done(c)' /\ \A d \in Checks : Done(d) => Done(d)'
    <3>1. /\ issues' \in Issues /\ issues'.old = issues.old \ {c}
          /\ issues'.new = [issues.new EXCEPT ![c] = IF c \in Found THEN 1 ELSE 0]
      BY <1>a, <1>2, <2>2, InsertedRows DEF InsertDuplicateIssues
    <3>2. QED  BY <1>a, <1>b, <3>1, RowsDone
  <2>4. \A i \in 1 .. at[r] : Done(Duplicates[i])'
    <3>1. \A i \in 1 .. at[r] : i \in DOMAIN Duplicates /\ (i = at[r] \/ i \in 1 .. (at[r] - 1))
      BY <1>a, <2>1, ListsNotEmpty
    <3>2. QED  BY <1>b, <2>1, <2>2, <2>3, <3>1 DEF Deriving
  <2>5. \/ at[r] < Len(Duplicates) /\ pc'[r] = "duplicates" /\ at'[r] = at[r] + 1
        \/ ~(at[r] < Len(Duplicates)) /\ pc'[r] = "clear" /\ at'[r] = 1
    BY <1>a, <2>1, Advances, ListsNotEmpty
  <2>6. status' # "completed"
    BY <2>1 DEF Deriving, Working
  <2>7. CASE pc'[r] = "duplicates"
    <3>1. at'[r] - 1 = at[r]
      BY <1>a, <2>5, <2>7 DEF RunType
    <3>2. QED  BY <2>4, <2>6, <2>7, <3>1 DEF Deriving, AfterLinks
  <2>8. CASE pc'[r] = "clear"
    <3>1. at[r] = Len(Duplicates) /\ at'[r] = 1
      BY <1>a, <2>1, <2>5, <2>8, ListsNotEmpty
    <3>2. \A d \in Rows(Duplicates) : Done(d)'
      BY <2>4, <3>1, ListsNotEmpty DEF Rows
    <3>3. QED  BY <2>6, <2>8, <3>1, <3>2 DEF Deriving, AfterLinks
  <2>9. QED  BY <2>5, <2>6, <2>7, <2>8
<1>3. CASE ClearChecks(r)
  <2>1. /\ pc[r] = "clear" /\ pc'[r] = "insert" /\ at'[r] = at[r]
        /\ status' = status /\ status # "completed"
    BY <1>a, <1>3 DEF ClearChecks, RunType, Deriving, Working
  <2>2. PICK c \in Checks : c = LinkBased[at[r]]
    BY <1>a, <1>b, <2>1
  <2>3. Gone(c)' /\ \A d \in Checks : d # c /\ Done(d) => Done(d)'
    BY <1>a, <1>3, <2>2, RowsGone DEF ClearChecks
  <2>4. \A d \in Rows(Duplicates) : Done(d)' \/ d = c
    BY <1>b, <2>1, <2>3 DEF Deriving
  <2>5. \A i \in 1 .. (at[r] - 1) : Done(LinkBased[i])' \/ LinkBased[i] = c
    <3>1. \A i \in 1 .. (at[r] - 1) : i \in DOMAIN LinkBased
      BY <1>a, <2>1, ListsNotEmpty
    <3>2. QED  BY <1>b, <2>1, <2>3, <3>1 DEF Deriving
  <2>6. QED  BY <2>1, <2>2, <2>3, <2>4, <2>5 DEF Deriving, AfterLinks
<1>4. CASE InsertLinkIssues(r)
  <2>1. /\ pc[r] = "insert" /\ status' = status /\ status # "completed"
        /\ Advance(r, Len(LinkBased), "clear", "rescore")
    BY <1>4 DEF InsertLinkIssues, Deriving, Working
  <2>2. PICK c \in Checks : c = LinkBased[at[r]]
    BY <1>a, <1>b, <2>1
  <2>3. Done(c)' /\ \A d \in Checks : Done(d) => Done(d)'
    <3>1. Gone(c)
      BY <2>1, <2>2 DEF Deriving
    <3>2. QED  BY <1>a, <1>4, <2>2, <3>1, RowsAdded DEF InsertLinkIssues
  <2>4. \A d \in Rows(Duplicates) : Done(d)'
    BY <1>b, <2>1, <2>2, <2>3 DEF Deriving
  <2>5. \A i \in 1 .. at[r] : Done(LinkBased[i])'
    <3>1. \A i \in 1 .. at[r] : i \in DOMAIN LinkBased /\ (i = at[r] \/ i \in 1 .. (at[r] - 1))
      BY <1>a, <2>1, ListsNotEmpty
    <3>2. QED  BY <1>b, <2>1, <2>2, <2>3, <3>1 DEF Deriving
  <2>6. \/ at[r] < Len(LinkBased) /\ pc'[r] = "clear" /\ at'[r] = at[r] + 1
        \/ ~(at[r] < Len(LinkBased)) /\ pc'[r] = "rescore" /\ at'[r] = 1
    BY <1>a, <2>1, Advances, ListsNotEmpty
  <2>7. CASE pc'[r] = "clear"
    <3>1. at'[r] - 1 = at[r]
      BY <1>a, <2>6, <2>7 DEF RunType
    <3>2. QED  BY <2>1, <2>4, <2>5, <2>7, <3>1 DEF Deriving, AfterLinks
  <2>8. CASE pc'[r] = "rescore"
    <3>1. at[r] = Len(LinkBased)
      BY <1>a, <2>1, <2>6, <2>8, ListsNotEmpty
    <3>2. \A d \in Checks : Done(d)'
      BY <1>b, <2>4, <2>5, <3>1, ListsNotEmpty
    <3>3. QED  BY <2>1, <2>8, <3>2 DEF Deriving, AfterLinks
  <2>9. QED  BY <2>1, <2>6, <2>7, <2>8
<1>5. CASE \/ RecomputeSnapshotScores(r) \/ DetectSchemaChanges(r) \/ ScoreComponents(r)
           \/ UpsertAggregate(r) \/ UpsertTrend(r) \/ Complete(r)
  <2>1. pc[r] \in AfterLinks /\ issues' = issues
    BY <1>5 DEF RecomputeSnapshotScores, DetectSchemaChanges, ScoreComponents,
       UpsertAggregate, UpsertTrend, Complete, AfterLinks
  <2>2. \A c \in Checks : Done(c)'
    BY <2>1 DEF Deriving, Done
  <2>3. CASE ~Complete(r)
    <3>1. pc'[r] \in AfterLinks
      BY <1>a, <1>5, <2>3, Goes, Advances, ListsNotEmpty, FinalizeAssumption
      DEF RecomputeSnapshotScores, DetectSchemaChanges, ScoreComponents, UpsertAggregate,
          UpsertTrend, AfterLinks
    <3>2. status' = status /\ status # "completed"
      BY <1>5, <2>1, <2>3 DEF Deriving, Working, RecomputeSnapshotScores,
         DetectSchemaChanges, ScoreComponents, UpsertAggregate, UpsertTrend
    <3>3. QED  BY <2>2, <3>1, <3>2 DEF Deriving, AfterLinks
  <2>4. CASE Complete(r)
    <3>1. pc'[r] = "cleanup"
      BY <1>a, <2>4, Goes DEF Complete
    <3>2. QED  BY <2>2, <3>1 DEF Deriving, AfterLinks, Working
  <2>5. QED  BY <2>3, <2>4
<1>6. CASE Cleanup(r)
  <2>1. pc'[r] = "ack" /\ UNCHANGED <<status, issues>>
    BY <1>a, <1>6, Goes DEF Cleanup
  <2>2. QED  BY <2>1 DEF Deriving, AfterLinks, Working, Done
<1>7. QED  BY <1>1, <1>2, <1>3, <1>4, <1>5, <1>6 DEF Process

(* ... and the crawl with it, since the others are free.                   *)
LEMMA ProcessOnce ==
  ASSUME TypeInv, Once, NEW r \in Slots, Process(r)
  PROVE  Once'
<1> SUFFICES ASSUME ~overlapped
             PROVE  /\ Exclusive'
                    /\ \A q \in Slots : Deriving(q)'
                    /\ status' = "completed" => \A c \in Checks : Done(c)'
  BY ProcessAlone DEF Once
<1>1. /\ Exclusive /\ Deriving(r)
      /\ status = "completed" => \A c \in Checks : Done(c)
  BY DEF Once
<1>2. Exclusive' /\ \A q \in Slots : q # r => pc'[q] = "free"
  BY <1>1, OthersFree
<1>3. \A q \in Slots : q # r => Deriving(q)'
  BY <1>2 DEF Deriving, Working, AfterLinks
<1>4. QED  BY <1>1, <1>2, <1>3, ProcessDerives

(* Executions that overlapped once did so for ever.                        *)
LEMMA StaysAlone ==
  ASSUME QueueStep, ~overlapped'
  PROVE  ~overlapped
<1>1. overlapped' = overlapped \/ \E q \in Slots : Deliver(q)
  BY DEF QueueStep, Ack, Fault, Promote, FindStuckFinalizing, Redrive, RedriveLook,
     RedriveRemove, RedriveAdd, Request, PauseOrResume, Cancel
<1>2. QED  BY <1>1 DEF Deliver

(* No row changes between two steps, so what is derived stays derived.     *)
LEMMA QueueOnce ==
  ASSUME TypeInv, Once, QueueStep
  PROVE  Once'
<1> SUFFICES ASSUME ~overlapped'
             PROVE  /\ Exclusive'
                    /\ \A q \in Slots : Deriving(q)'
                    /\ status' = "completed" => \A c \in Checks : Done(c)'
  BY DEF Once
<1>1. ~overlapped /\ Exclusive' /\ \A q \in Slots : Rests(q)
  BY StaysAlone, RestTypes DEF Once
<1>2. /\ \A q \in Slots : Deriving(q)
      /\ status = "completed" => \A c \in Checks : Done(c)
  BY <1>1 DEF Once
<1>3. issues' = issues /\ status' \in {status, "paused", "running"}
  BY RestRows
<1>4. \A c : Done(c)' <=> Done(c)
  BY <1>3 DEF Done
<1>5. ASSUME NEW q \in Slots PROVE Deriving(q)'
  <2>1. CASE pc'[q] \in {"free", "begin"}
    BY <2>1 DEF Deriving, Working, AfterLinks
  <2>2. CASE pc'[q] = pc[q] /\ at'[q] = at[q]
    BY <1>2, <1>3, <2>2 DEF Deriving, Done, Gone
  <2>3. QED  BY <1>1, <2>1, <2>2 DEF Rests
<1>6. QED  BY <1>1, <1>2, <1>3, <1>4, <1>5

(* The invariant holds at first.                                           *)
LEMMA OnceStarts == Init => TypeInv /\ Once
<1>1. Init => TypeInv
  BY InitTypes
<1>2. Init => Once
  BY DEF Init, Once, Exclusive, Deriving, Working, AfterLinks
<1>3. QED  BY <1>1, <1>2

(* The invariant is inductive.                                             *)
LEMMA OnceSteps == TypeInv /\ Once /\ [Next]_vars => TypeInv' /\ Once'
<1>1. TypeInv /\ Once /\ UNCHANGED vars => Once'
  BY DEF vars, Once, Exclusive, Deriving, Done, Gone
<1>2. QED
  BY <1>1, NextSplits, ProcessTypes, QueueTypes, StutterTypes, ProcessOnce, QueueOnce

(* DerivedOnce of every crawl: a completed crawl whose executions never    *)
(* overlapped has each cross-page issue exactly once and none it was       *)
(* carried forward with (CrawlFinalize.ClearChecks before                  *)
(* InsertLinkIssues, InsertDuplicateIssues).                               *)
THEOREM DerivedCorrect == Safe => []DerivedOnce
<1>1. Init => TypeInv /\ Once
  BY OnceStarts
<1>2. TypeInv /\ Once /\ [Next]_vars => TypeInv' /\ Once'
  BY OnceSteps
<1>3. TypeInv /\ Once => DerivedOnce
  BY DoneIsDerived DEF TypeInv, TypeOK, Once, DerivedOnce
<1>4. QED  BY <1>1, <1>2, <1>3, PTL DEF Safe

-----------------------------------------------------------------------------
(* Aggregates.                                                             *)

(* Found and carried issues are the only ones there can be.                *)
LEMMA NoneCleared ==
  ASSUME issues = NoIssues, NEW c
  PROVE  Cleared(c) = NoIssues
<1>1. [issues.new EXCEPT ![c] = 0] = issues.new /\ issues.old \ {c} = {}
  BY DEF NoIssues
<1>2. issues.new = [d \in Checks |-> 0]
  BY DEF NoIssues
<1>3. QED  BY <1>1, <1>2 DEF Cleared, NoIssues

(* Nothing is inserted that was not found.                                 *)
LEMMA StaysClean ==
  ASSUME TypeInv, Clean, [Next]_vars
  PROVE  Clean'
<1> SUFFICES ASSUME Found = {}, Carried = {}, issues = NoIssues, score = NoIssues
             PROVE  issues' = NoIssues /\ score' = NoIssues
  BY DEF Clean
<1>1. ASSUME NEW r \in Slots, Process(r) PROVE issues' = NoIssues /\ score' = NoIssues
  <2>1. CASE InsertDuplicateIssues(r)
    BY <2>1, NoneCleared DEF InsertDuplicateIssues
  <2>2. CASE ClearChecks(r)
    BY <2>2, NoneCleared DEF ClearChecks
  <2>3. CASE InsertLinkIssues(r)
    BY <2>3 DEF InsertLinkIssues
  <2>4. CASE RecomputeSnapshotScores(r)
    BY <2>4 DEF RecomputeSnapshotScores
  <2>5. CASE \/ Begin(r) \/ DetectSchemaChanges(r) \/ ScoreComponents(r)
             \/ UpsertAggregate(r) \/ UpsertTrend(r) \/ Complete(r) \/ Cleanup(r)
    BY <2>5 DEF Begin, DetectSchemaChanges, ScoreComponents, UpsertAggregate, UpsertTrend,
       Complete, Cleanup
  <2>6. QED  BY <1>1, <2>1, <2>2, <2>3, <2>4, <2>5 DEF Process
<1>2. ASSUME QueueStep PROVE issues' = NoIssues /\ score' = NoIssues
  BY <1>2, RestRows
<1>3. QED  BY <1>1, <1>2, NextSplits DEF vars

(* The page has a row of issues when it is rescored, or its score never     *)
(* counted one of a cross-page check.                                      *)
Rescorable == Own \/ Found # {} \/ Carried = {}

(* The rescored page scores the issues it has.                             *)
LEMMA RescoringTells ==
  ASSUME Rescorable, TypeInv, Clean, NEW r \in Slots, Deriving(r),
         RecomputeSnapshotScores(r)
  PROVE  score' = issues /\ issues' = issues
<1>1. issues' = issues /\ score' = (IF Own \/ issues # NoIssues THEN issues ELSE score)
  BY DEF RecomputeSnapshotScores
<1>2. ASSUME ~Own, issues = NoIssues PROVE score = issues
  <2>1. \A c \in Checks : Done(c)
    BY DEF RecomputeSnapshotScores, Deriving, AfterLinks
  <2>2. \A c \in Checks : issues.new[c] = 0
    BY <1>2 DEF NoIssues
  <2>3. Found = {}
    BY <2>1, <2>2, PageAssumption DEF Done
  <2>4. QED  BY <1>2, <2>3 DEF Rescorable, Clean
<1>3. QED  BY <1>1, <1>2

(* What is computed after the last issue row is written is of those rows.  *)
LEMMA ProcessMeasures ==
  ASSUME Rescorable, TypeInv, Clean, NEW r \in Slots, Process(r), Deriving(r),
         Measuring(r),
         status = "completed" => aggregate = issues /\ \A t \in DOMAIN trend : trend[t] = issues
  PROVE  /\ Measuring(r)'
         /\ status' = "completed" =>
              aggregate' = issues' /\ \A t \in DOMAIN trend' : trend'[t] = issues'
<1>a. /\ RunType /\ trend \in [Rows(Trends) -> Issues]
      /\ pc[r] = "trend" => at[r] \in DOMAIN Trends
  BY DEF TypeInv, TypeOK, RowType, InList
<1>1. CASE Begin(r)
  <2>1. pc'[r] \in {"ack", "duplicates"} /\ status' # "completed"
    BY <1>a, <1>1, Goes DEF Begin, SetStatus
  <2>2. QED  BY <2>1 DEF Measuring
<1>2. CASE InsertDuplicateIssues(r) \/ ClearChecks(r) \/ InsertLinkIssues(r)
  <2>1. status' = status /\ status # "completed"
    BY <1>2 DEF InsertDuplicateIssues, ClearChecks, InsertLinkIssues, Deriving, Working
  <2>2. pc'[r] \in {"duplicates", "clear", "insert", "rescore"}
    <3>1. CASE ClearChecks(r)
      BY <1>a, <3>1 DEF ClearChecks, RunType
    <3>2. CASE InsertDuplicateIssues(r) \/ InsertLinkIssues(r)
      BY <1>a, <3>2, Advances, ListsNotEmpty DEF InsertDuplicateIssues, InsertLinkIssues
    <3>3. QED  BY <1>2, <3>1, <3>2
  <2>3. QED  BY <2>1, <2>2 DEF Measuring
<1>3. CASE RecomputeSnapshotScores(r)
  <2>1. pc'[r] \in {"measure", "changes"} /\ status' = status /\ status # "completed"
    BY <1>a, <1>3, Goes DEF RecomputeSnapshotScores, Deriving, Working, AfterLinks
  <2>2. QED  BY <1>3, <2>1, RescoringTells DEF Measuring
<1>4. CASE DetectSchemaChanges(r)
  <2>1. /\ pc[r] = "changes" /\ UNCHANGED <<issues, score, status>> /\ status # "completed"
        /\ Advance(r, Changes, "changes", "measure") /\ Changes \in Nat
    BY <1>4, FinalizeAssumption DEF DetectSchemaChanges, Deriving, Working, AfterLinks
  <2>2. pc'[r] \in {"changes", "measure"}
    BY <1>a, <2>1, Advances
  <2>3. QED  BY <2>1, <2>2 DEF Measuring
<1>5. CASE ScoreComponents(r)
  <2>1. /\ pc[r] = "measure" /\ pc'[r] = "aggregate" /\ metrics'[r] = score
        /\ UNCHANGED <<issues, status>> /\ status # "completed"
    BY <1>a, <1>5, Goes DEF ScoreComponents, RunType, Deriving, Working, AfterLinks
  <2>2. QED  BY <2>1 DEF Measuring
<1>6. CASE UpsertAggregate(r)
  <2>1. /\ pc[r] = "aggregate" /\ pc'[r] = "trend" /\ at'[r] = 1
        /\ aggregate' = metrics[r]
        /\ UNCHANGED <<issues, status, metrics>> /\ status # "completed"
    BY <1>a, <1>6, Goes DEF UpsertAggregate, Deriving, Working, AfterLinks
  <2>2. QED  BY <2>1 DEF Measuring
<1>7. CASE UpsertTrend(r)
  <2>1. /\ pc[r] = "trend" /\ trend' = [trend EXCEPT ![Trends[at[r]]] = metrics[r]]
        /\ UNCHANGED <<issues, status, metrics, aggregate>> /\ status # "completed"
        /\ Advance(r, Len(Trends), "trend", "complete")
    BY <1>7 DEF UpsertTrend, Deriving, Working, AfterLinks
  <2>2. /\ metrics[r] = issues /\ aggregate = issues
        /\ \A i \in 1 .. (at[r] - 1) : trend[Trends[i]] = issues
    BY <2>1 DEF Measuring
  <2>3. /\ DOMAIN trend' = Rows(Trends)
        /\ \A i \in 1 .. at[r] : trend'[Trends[i]] = issues
    <3>1. \A i \in 1 .. at[r] : i \in DOMAIN Trends /\ (i = at[r] \/ i \in 1 .. (at[r] - 1))
      BY <1>a, <2>1, ListsNotEmpty
    <3>2. \A i \in DOMAIN Trends : Trends[i] \in Rows(Trends)
      BY DEF Rows
    <3>3. QED  BY <1>a, <2>1, <2>2, <3>1, <3>2
  <2>4. \/ at[r] < Len(Trends) /\ pc'[r] = "trend" /\ at'[r] = at[r] + 1
        \/ ~(at[r] < Len(Trends)) /\ pc'[r] = "complete" /\ at'[r] = 1
    BY <1>a, <2>1, Advances, ListsNotEmpty
  <2>5. CASE pc'[r] = "trend"
    <3>1. at'[r] - 1 = at[r]
      BY <1>a, <2>4, <2>5 DEF RunType
    <3>2. QED  BY <2>1, <2>2, <2>3, <2>5, <3>1 DEF Measuring
  <2>6. CASE pc'[r] = "complete"
    <3>1. at[r] = Len(Trends)
      BY <1>a, <2>1, <2>4, <2>6, ListsNotEmpty
    <3>2. \A t \in Rows(Trends) : trend'[t] = issues
      BY <2>3, <3>1, ListsNotEmpty DEF Rows
    <3>3. QED  BY <2>1, <2>2, <2>3, <2>6, <3>2 DEF Measuring
  <2>7. QED  BY <2>4, <2>5, <2>6
<1>8. CASE Complete(r)
  <2>1. pc[r] = "complete" /\ pc'[r] = "cleanup" /\ UNCHANGED rows
    BY <1>a, <1>8, Goes DEF Complete
  <2>2. QED  BY <2>1 DEF Measuring
<1>9. CASE Cleanup(r)
  <2>1. pc'[r] = "ack" /\ UNCHANGED <<rows, status>>
    BY <1>a, <1>9, Goes DEF Cleanup
  <2>2. QED  BY <2>1 DEF Measuring
<1>10. QED
  BY <1>1, <1>2, <1>3, <1>4, <1>5, <1>6, <1>7, <1>8, <1>9 DEF Process

(* ... by the one execution there is.                                      *)
LEMMA ProcessTold ==
  ASSUME Rescorable, TypeInv, Clean, Once, Told, NEW r \in Slots, Process(r)
  PROVE  Told'
<1> SUFFICES ASSUME ~overlapped
             PROVE  /\ \A q \in Slots : Measuring(q)'
                    /\ status' = "completed" =>
                         aggregate' = issues' /\ \A t \in DOMAIN trend' : trend'[t] = issues'
  BY ProcessAlone DEF Told
<1>1. /\ Deriving(r) /\ Measuring(r) /\ Exclusive
      /\ status = "completed" => aggregate = issues /\ \A t \in DOMAIN trend : trend[t] = issues
  BY DEF Once, Told
<1>2. \A q \in Slots : q # r => pc'[q] = "free"
  BY <1>1, OthersFree
<1>3. \A q \in Slots : q # r => Measuring(q)'
  BY <1>2 DEF Measuring
<1>4. QED  BY <1>1, <1>3, ProcessMeasures

(* No aggregate changes between two steps.                                 *)
LEMMA QueueTold ==
  ASSUME TypeInv, Once, Told, QueueStep
  PROVE  Told'
<1> SUFFICES ASSUME ~overlapped'
             PROVE  /\ \A q \in Slots : Measuring(q)'
                    /\ status' = "completed" =>
                         aggregate' = issues' /\ \A t \in DOMAIN trend' : trend'[t] = issues'
  BY DEF Told
<1>1. ~overlapped /\ \A q \in Slots : Rests(q)
  BY StaysAlone, RestTypes
<1>2. /\ \A q \in Slots : Measuring(q)
      /\ status = "completed" => aggregate = issues /\ \A t \in DOMAIN trend : trend[t] = issues
  BY <1>1 DEF Told
<1>3. UNCHANGED rows /\ status' \in {status, "paused", "running"}
  BY RestRows
<1>4. ASSUME NEW q \in Slots PROVE Measuring(q)'
  <2>1. CASE pc'[q] \in {"free", "begin"}
    BY <2>1 DEF Measuring
  <2>2. CASE pc'[q] = pc[q] /\ at'[q] = at[q] /\ metrics'[q] = metrics[q]
    BY <1>2, <1>3, <2>2 DEF Measuring
  <2>3. QED  BY <1>1, <2>1, <2>2 DEF Rests
<1>5. QED  BY <1>2, <1>3, <1>4

(* AggregateTells of every crawl whose page is rescored: the aggregates    *)
(* and the trends of a completed crawl whose executions never overlapped   *)
(* count the issues it ended with.  A page whose carried issues are all    *)
(* gone and that has none of its own is not rescored                       *)
(* (CrawlFinalize.RecomputeSnapshotScores): the hypothesis leaves it out.  *)
THEOREM AggregateCorrect ==
  ASSUME Rescorable
  PROVE  Safe => []AggregateTells
<1>1. Init => TypeInv /\ Once /\ Clean /\ Told
  <2>1. Init => Clean
    BY DEF Init, Clean, NoIssues
  <2>2. Init => Told
    BY DEF Init, Told, Measuring
  <2>3. QED  BY <2>1, <2>2, OnceStarts
<1>2. TypeInv /\ Once /\ Clean /\ Told /\ [Next]_vars => TypeInv' /\ Once' /\ Clean' /\ Told'
  <2>1. Told /\ UNCHANGED vars => Told'
    BY DEF vars, Told, Measuring
  <2>2. TypeInv /\ Once /\ Clean /\ Told /\ [Next]_vars => Told'
    BY <2>1, NextSplits, ProcessTold, QueueTold
  <2>3. QED  BY <2>2, OnceSteps, StaysClean
<1>3. Told => AggregateTells
  BY DEF Told, AggregateTells
<1>4. QED  BY <1>1, <1>2, <1>3, PTL DEF Safe

=============================================================================
