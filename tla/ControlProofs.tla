---------------------------- MODULE ControlProofs ----------------------------
(***************************************************************************)
(* Proofs about what starts crawls and keeps their schedules.              *)
(*                                                                         *)
(* CrawlAdmission, for any number of starters and categories: two crawls   *)
(* overlap only after a race, a revival or the loss of a category, and a   *)
(* removal deletes an active crawl only if it turned active behind the     *)
(* removal's back.                                                         *)
(*                                                                         *)
(* ScheduleSync, for any schedules, crons and reconcilers, and any number  *)
(* of edits and faults: the projection equals the table once a reconcile   *)
(* of the right kind has finished, and no scheduler is removed whose       *)
(* schedule was active all along.                                          *)
(***************************************************************************)
EXTENDS CrawlAdmission, ScheduleSync, TLAPS

-----------------------------------------------------------------------------
(* CrawlAdmission: what a look still means when it has become stale.       *)

(* A starter without a crawl has not got past the look. *)
RowsCreated ==
  \A c \in Starters : status[c] # "none" => pc[c] \in {"created", "done"}

(* Two starters that have both looked and not created have raced. *)
LookersRaced ==
  \A a, b \in Starters :
    a # b /\ pc[a] = "checked" /\ pc[b] = "checked" => Raced(a, b)

(* What stands in the way of a starter that has looked was not there then. *)
LookHolds ==
  \A a, b \in Starters :
    /\ Active(a) /\ pc[b] = "checked"
    /\ Conflict(crawl[a].group, crawl[b].group)
    => Raced(a, b) \/ a \in revived \cup widened

(* A removal has seen every crawl of its category that is over. *)
LateCovers ==
  \A g \in Categories : \A c \in Starters :
    removal[g] # "idle" /\ Active(c) /\ crawl[c].group = g => c \in late[g]

(* What a removal has selected is a crawl of its category still. *)
DoomedOwn ==
  \A g \in Categories : \A c \in doomed[g] :
    removal[g] = "selected" /\ status[c] # "none" /\ crawl[c].group = g

Guarded ==
  /\ RowsCreated
  /\ LookersRaced
  /\ LookHolds
  /\ OneCrawlPerScope
  /\ LateCovers
  /\ DoomedOwn

IndInv == TypeOK /\ Guarded

-----------------------------------------------------------------------------
(* Types.                                                                  *)

(* The website begins with its categories and without a crawl.             *)
LEMMA InitType == Init => TypeOK
<1> SUFFICES ASSUME Init PROVE TypeOK
  OBVIOUS
<1>1. Blank \in Requests
  BY DEF Blank, Requests
<1>2. crawl \in [Starters -> Requests]
  BY <1>1 DEF Init
<1> QED
  BY <1>2 DEF Init, TypeOK

(* A crawl that may lose its category stays a request that could be made.  *)
LEMMA WidenedRequest ==
  ASSUME NEW q \in Requests, q.scope # "group"
  PROVE  [q EXCEPT !.group = None] \in Requests
BY DEF Requests

(* Each step keeps every variable in its type.                             *)
LEMMA TypeStep == TypeOK /\ [Next]_vars => TypeOK'
<1> SUFFICES ASSUME TypeOK, [Next]_vars PROVE TypeOK'
  OBVIOUS
<1>0. \A c \in Starters : LateWith(c) \in [Categories -> SUBSET Starters]
  BY DEF LateWith, TypeOK
<1>1. ASSUME NEW s \in Starters, Start(s) PROVE TypeOK'
  BY <1>1 DEF Start, TypeOK, removals
<1>2. ASSUME NEW s \in Starters, Create(s) PROVE TypeOK'
  BY <1>0, <1>2 DEF Create, TypeOK, removals
<1>3. ASSUME NEW s \in Starters, EnqueueOrchestrate(s) PROVE TypeOK'
  BY <1>3 DEF EnqueueOrchestrate, TypeOK, removals
<1>4. ASSUME NEW c \in Starters, SetStatus(c) PROVE TypeOK'
  BY <1>0, <1>4 DEF SetStatus, TypeOK, removals, starters
<1>5. ASSUME NEW g \in Categories, Remove(g) \/ SelectCrawls(g) PROVE TypeOK'
  BY <1>5 DEF Remove, SelectCrawls, CrawlsOf, TypeOK, starters
<1>6. ASSUME NEW g \in Categories, DeleteCategory(g) PROVE TypeOK'
  <2>1. /\ removal' \in [Categories -> {"idle", "checked", "selected"}]
        /\ doomed' \in [Categories -> SUBSET Starters]
        /\ late' \in [Categories -> SUBSET Starters]
        /\ UNCHANGED <<queued, pc, unseen, revived>>
    BY <1>6 DEF DeleteCategory, TypeOK
  <2>2. CASE \E c \in Leftover(g) : crawl[c].scope = "group"
    BY <1>6, <2>1, <2>2 DEF DeleteCategory, TypeOK
  <2>3. CASE ~ \E c \in Leftover(g) : crawl[c].scope = "group"
    <3>1. /\ categories' = categories \ {g}
          /\ status' = [c \in Starters |-> IF c \in doomed[g] THEN "none" ELSE status[c]]
          /\ crawl' = [c \in Starters |->
                         IF c \in Leftover(g) THEN [crawl[c] EXCEPT !.group = None]
                         ELSE crawl[c]]
          /\ widened' = widened \cup Leftover(g)
      BY <1>6, <2>3 DEF DeleteCategory
    <3>2. crawl' \in [Starters -> Requests]
      BY <2>3, <3>1, WidenedRequest DEF TypeOK
    <3>3. Leftover(g) \subseteq Starters
      BY DEF Leftover, CrawlsOf
    <3> QED
      BY <2>1, <3>1, <3>2, <3>3 DEF TypeOK
  <2> QED
    BY <2>2, <2>3
<1>7. CASE UNCHANGED vars
  BY <1>7 DEF vars, TypeOK, starters, removals
<1> QED
  BY <1>1, <1>2, <1>3, <1>4, <1>5, <1>6, <1>7 DEF Next

-----------------------------------------------------------------------------
(* The guard.                                                              *)

(* There is no crawl at first, and nobody has looked.                      *)
LEMMA InitGuarded == Init => Guarded
BY DEF Init, Guarded, RowsCreated, LookersRaced, LookHolds, OneCrawlPerScope,
       LateCovers, DoomedOwn, Active

(* A starter that looks finds no conflict, or gives up; whoever is between *)
(* its look and its crawl has raced with it.                               *)
LEMMA StartGuarded ==
  ASSUME IndInv, NEW s \in Starters, Start(s)
  PROVE  Guarded'
<1> USE DEF IndInv, Guarded
<1>1. /\ pc[s] = "idle" /\ status[s] = "none"
      /\ UNCHANGED <<status, removal, doomed, revived, widened, late>>
      /\ \A c \in Starters \ {s} :
           pc'[c] = pc[c] /\ crawl'[c] = crawl[c] /\ unseen'[c] = unseen[c]
      /\ pc'[s] \in {"checked", "done"}
  BY DEF Start, RowsCreated, TypeOK, removals
<1>2. ASSUME pc'[s] = "checked"
      PROVE  /\ \A c \in Starters : Active(c) => ~Conflict(crawl[c].group, crawl'[s].group)
             /\ unseen'[s] = {q \in Starters : pc[q] = "checked"}
  BY <1>2 DEF Start, FindActiveForScope, TypeOK
<1>3. RowsCreated'
  BY <1>1 DEF RowsCreated
<1>4. LookersRaced'
  BY <1>1, <1>2 DEF LookersRaced, Raced
<1>5. LookHolds'
  <2> SUFFICES ASSUME NEW a \in Starters, NEW b \in Starters,
                      Active(a), pc'[b] = "checked",
                      Conflict(crawl'[a].group, crawl'[b].group)
               PROVE  Raced(a, b)' \/ a \in revived \cup widened
    BY <1>1 DEF LookHolds, Active
  <2>1. a # s
    BY <1>1 DEF Active
  <2>2. b # s
    BY <1>1, <1>2, <2>1
  <2> QED
    BY <1>1, <2>1, <2>2 DEF LookHolds, Raced
<1>6. OneCrawlPerScope'
  BY <1>1 DEF OneCrawlPerScope, Active, Raced
<1>7. LateCovers'
  BY <1>1 DEF LateCovers, Active
<1>8. DoomedOwn'
  BY <1>1 DEF DoomedOwn, TypeOK
<1> QED
  BY <1>3, <1>4, <1>5, <1>6, <1>7, <1>8

(* A crawl that turns active is known to the removal of its category.      *)
LEMMA LateStep ==
  ASSUME IndInv, NEW c \in Starters, late' = LateWith(c),
         status' = [status EXCEPT ![c] = "active"],
         UNCHANGED <<crawl, removal>>
  PROVE  LateCovers'
<1> SUFFICES ASSUME NEW g \in Categories, NEW b \in Starters,
                    removal[g] # "idle", Active(b)', crawl[b].group = g
             PROVE  b \in late'[g]
  BY DEF LateCovers
<1>1. late'[g] = IF crawl[c].group = g THEN late[g] \cup {c} ELSE late[g]
  BY DEF LateWith
<1>2. b = c \/ Active(b)
  BY DEF Active, IndInv, TypeOK
<1> QED
  BY <1>1, <1>2 DEF IndInv, Guarded, LateCovers

(* A starter creates its crawl beside those only that it raced with.       *)
LEMMA CreateGuarded ==
  ASSUME IndInv, NEW s \in Starters, Create(s)
  PROVE  Guarded'
<1> USE DEF IndInv, Guarded
<1>1. /\ pc[s] = "checked" /\ status[s] = "none"
      /\ UNCHANGED <<crawl, unseen, removal, doomed, revived, widened>>
      /\ \A c \in Starters \ {s} : pc'[c] = pc[c] /\ status'[c] = status[c]
  BY DEF Create, RowsCreated, TypeOK, removals
<1>2. \/ pc'[s] = "created" /\ status' = [status EXCEPT ![s] = "active"] /\ late' = LateWith(s)
      \/ pc'[s] = "done" /\ status' = status /\ late' = late
  BY DEF Create, TypeOK
<1>3. RowsCreated'
  BY <1>1, <1>2 DEF RowsCreated
<1>4. LookersRaced'
  BY <1>1, <1>2 DEF LookersRaced, Raced
<1>5. LookHolds'
  BY <1>1, <1>2 DEF LookHolds, LookersRaced, Raced, Active
<1>6. OneCrawlPerScope'
  BY <1>1, <1>2 DEF OneCrawlPerScope, LookHolds, Raced, Active, Conflict
<1>7. LateCovers'
  BY <1>1, <1>2, LateStep DEF LateCovers, Active
<1>8. DoomedOwn'
  BY <1>1 DEF DoomedOwn, TypeOK
<1> QED
  BY <1>3, <1>4, <1>5, <1>6, <1>7, <1>8

(* A status that is written ends a crawl, or makes it a revived one.       *)
LEMMA SetStatusGuarded ==
  ASSUME IndInv, NEW s \in Starters, SetStatus(s)
  PROVE  Guarded'
<1> USE DEF IndInv, Guarded
<1>1. /\ status[s] # "none"
      /\ UNCHANGED <<crawl, pc, unseen, removal, doomed, widened>>
      /\ \A c \in Starters \ {s} : status'[c] = status[c]
      /\ status'[s] # "none"
  BY DEF SetStatus, Active, TypeOK, starters, removals
<1>2. \/ status'[s] = "over" /\ revived' = revived /\ late' = late
      \/ /\ status' = [status EXCEPT ![s] = "active"]
         /\ s \in revived' /\ revived \subseteq revived' /\ late' = LateWith(s)
  BY DEF SetStatus, TypeOK
<1>3. RowsCreated'
  BY <1>1 DEF RowsCreated
<1>4. LookersRaced'
  BY <1>1 DEF LookersRaced, Raced
<1>5. LookHolds'
  BY <1>1, <1>2 DEF LookHolds, Raced, Active
<1>6. OneCrawlPerScope'
  BY <1>1, <1>2 DEF OneCrawlPerScope, Raced, Active
<1>7. LateCovers'
  BY <1>1, <1>2, LateStep DEF LateCovers, Active
<1>8. DoomedOwn'
  BY <1>1 DEF DoomedOwn, TypeOK
<1> QED
  BY <1>3, <1>4, <1>5, <1>6, <1>7, <1>8

(* A removal that begins finds no active crawl of its category; one that   *)
(* goes on selects crawls of its category.                                 *)
LEMMA RemovalGuarded ==
  ASSUME IndInv, NEW g \in Categories, Remove(g) \/ SelectCrawls(g)
  PROVE  Guarded'
<1> USE DEF IndInv, Guarded
<1>1. UNCHANGED <<status, crawl, pc, unseen, revived, widened>>
  BY DEF Remove, SelectCrawls, starters
<1>2. RowsCreated' /\ LookersRaced' /\ LookHolds' /\ OneCrawlPerScope'
  BY <1>1 DEF RowsCreated, LookersRaced, LookHolds, OneCrawlPerScope, Raced, Active
<1>3. CASE Remove(g)
  <2>1. LateCovers'
    BY <1>1, <1>3 DEF Remove, LateCovers, HasActiveCrawl, CrawlsOf, Active, TypeOK
  <2>2. DoomedOwn'
    BY <1>1, <1>3 DEF Remove, DoomedOwn, TypeOK
  <2> QED
    BY <1>2, <2>1, <2>2
<1>4. CASE SelectCrawls(g)
  <2>1. LateCovers'
    BY <1>1, <1>4 DEF SelectCrawls, LateCovers, Active, TypeOK
  <2>2. DoomedOwn'
    BY <1>1, <1>4 DEF SelectCrawls, DoomedOwn, CrawlsOf, TypeOK
  <2> QED
    BY <1>2, <2>1, <2>2
<1> QED
  BY <1>3, <1>4

(* A removal that ends takes its crawls away; those that referred to the   *)
(* category are widened.                                                   *)
LEMMA DeleteGuarded ==
  ASSUME IndInv, NEW g \in Categories, DeleteCategory(g)
  PROVE  Guarded'
<1> USE DEF IndInv, Guarded
<1>1. /\ removal[g] = "selected" /\ removal'[g] = "idle" /\ doomed'[g] = {}
      /\ \A h \in Categories \ {g} :
           removal'[h] = removal[h] /\ doomed'[h] = doomed[h] /\ late'[h] = late[h]
      /\ UNCHANGED <<pc, unseen, revived>>
  BY DEF DeleteCategory, TypeOK
<1>2. doomed[g] \subseteq Starters /\ Leftover(g) \subseteq Starters
  BY DEF TypeOK, Leftover, CrawlsOf
<1>3. \A c \in Starters :
        /\ status'[c] # "none" => status'[c] = status[c]
        /\ crawl'[c] # crawl[c] => c \in Leftover(g) /\ c \in widened'
        /\ widened \subseteq widened'
        /\ status'[c] # status[c] => c \in doomed[g]
        /\ crawl'[c].group # crawl[c].group => crawl'[c].group = None
  <2>1. CASE \E c \in Leftover(g) : crawl[c].scope = "group"
    BY <2>1 DEF DeleteCategory
  <2>2. CASE ~ \E c \in Leftover(g) : crawl[c].scope = "group"
    <3>1. /\ status' = [c \in Starters |-> IF c \in doomed[g] THEN "none" ELSE status[c]]
          /\ crawl' = [c \in Starters |->
                         IF c \in Leftover(g) THEN [crawl[c] EXCEPT !.group = None]
                         ELSE crawl[c]]
          /\ widened' = widened \cup Leftover(g)
      BY <2>2 DEF DeleteCategory
    <3>2. \A q \in Requests : [q EXCEPT !.group = None].group = None
      BY DEF Requests
    <3> QED
      BY <3>1, <3>2 DEF TypeOK
  <2> QED
    BY <2>1, <2>2
<1>4. \A c \in Starters : crawl'[c] # crawl[c] => status[c] # "none" /\ crawl[c].group = g
  BY <1>3 DEF Leftover, CrawlsOf
<1>5. RowsCreated'
  BY <1>1, <1>3 DEF RowsCreated
<1>6. LookersRaced'
  BY <1>1 DEF LookersRaced, Raced
<1>7. LookHolds'
  <2> SUFFICES ASSUME NEW a \in Starters, NEW b \in Starters,
                      Active(a)', pc[b] = "checked",
                      Conflict(crawl'[a].group, crawl'[b].group)
               PROVE  Raced(a, b) \/ a \in revived \cup widened'
    BY <1>1 DEF LookHolds, Raced
  <2>1. Active(a)
    BY <1>3 DEF Active
  <2>2. crawl'[b] = crawl[b]
    BY <1>4 DEF RowsCreated
  <2>3. CASE crawl'[a] = crawl[a]
    BY <1>3, <2>1, <2>2, <2>3 DEF LookHolds
  <2>4. CASE crawl'[a] # crawl[a]
    BY <1>3, <2>4
  <2> QED
    BY <2>3, <2>4
<1>8. OneCrawlPerScope'
  <2> SUFFICES ASSUME NEW a \in Starters, NEW b \in Starters, a # b,
                      Active(a)', Active(b)',
                      Conflict(crawl'[a].group, crawl'[b].group)
               PROVE  Raced(a, b) \/ {a, b} \cap (revived \cup widened') # {}
    BY <1>1 DEF OneCrawlPerScope, Raced
  <2>1. Active(a) /\ Active(b)
    BY <1>3 DEF Active
  <2>2. CASE crawl'[a] = crawl[a] /\ crawl'[b] = crawl[b]
    BY <1>3, <2>1, <2>2 DEF OneCrawlPerScope
  <2>3. CASE crawl'[a] # crawl[a] \/ crawl'[b] # crawl[b]
    BY <1>3, <2>3
  <2> QED
    BY <2>2, <2>3
<1>9. LateCovers'
  BY <1>1, <1>3, NoneAssumption DEF LateCovers, Active
<1>10. DoomedOwn'
  <2> SUFFICES ASSUME NEW h \in Categories, NEW c \in doomed'[h]
               PROVE  removal'[h] = "selected" /\ status'[c] # "none" /\ crawl'[c].group = h
    BY DEF DoomedOwn
  <2>1. h # g /\ c \in doomed[h] /\ c \in Starters
    BY <1>1 DEF TypeOK
  <2>2. crawl[c].group = h /\ status[c] # "none" /\ removal[h] = "selected"
    BY <2>1 DEF DoomedOwn
  <2>3. c \notin doomed[g]
    BY <2>1, <2>2 DEF DoomedOwn
  <2> QED
    BY <1>1, <1>3, <1>4, <2>1, <2>2, <2>3
<1> QED
  BY <1>5, <1>6, <1>7, <1>8, <1>9, <1>10

(* The invariant is inductive.                                             *)
LEMMA IndInvStep == IndInv /\ [Next]_vars => IndInv'
<1> SUFFICES ASSUME IndInv, [Next]_vars PROVE Guarded'
  BY TypeStep DEF IndInv
<1>1. ASSUME NEW s \in Starters, EnqueueOrchestrate(s) PROVE Guarded'
  <2>1. /\ UNCHANGED <<status, crawl, unseen, removal, doomed, revived, widened, late>>
        /\ pc[s] = "created" /\ pc'[s] = "done"
        /\ \A c \in Starters \ {s} : pc'[c] = pc[c]
    BY <1>1 DEF EnqueueOrchestrate, removals, IndInv, TypeOK
  <2> QED
    BY <2>1 DEF IndInv, Guarded, RowsCreated, LookersRaced, LookHolds, OneCrawlPerScope,
                LateCovers, DoomedOwn, Active, Raced
<1>2. CASE UNCHANGED vars
  BY <1>2 DEF vars, starters, removals, IndInv, Guarded, RowsCreated, LookersRaced,
              LookHolds, OneCrawlPerScope, LateCovers, DoomedOwn, Active, Raced
<1> QED
  BY <1>1, <1>2, StartGuarded, CreateGuarded, SetStatusGuarded, RemovalGuarded,
     DeleteGuarded DEF Next

(* Every behaviour keeps the invariant.                                    *)
LEMMA Invariance == Spec => []IndInv
<1>1. Init => IndInv
  BY InitType, InitGuarded DEF IndInv
<1> QED
  BY <1>1, IndInvStep, PTL DEF Spec

-----------------------------------------------------------------------------
(* Theorems.                                                               *)

(* Every variable keeps its type; in particular no crawl of scope 'group'  *)
(* is left without a category.                                             *)
THEOREM TypeCorrect == Spec => []TypeOK
<1>1. IndInv => TypeOK
  BY DEF IndInv
<1> QED
  BY <1>1, Invariance, PTL

(* The overlap guard of CrawlsService.start and of the schedule-fire       *)
(* processor keeps crawls of one scope apart unless their starters raced   *)
(* or something happened to one of them after its start.                   *)
THEOREM AdmissionCorrect == Spec => []OneCrawlPerScope
<1>1. IndInv => OneCrawlPerScope
  BY DEF IndInv, Guarded
<1> QED
  BY <1>1, Invariance, PTL

(* SitemapGroupsService.remove deletes no crawl that was active when it    *)
(* looked and has been ever since, and none of another category.           *)
THEOREM RemovalCorrect == Spec => RemovesOnlyIdle
<1>1. ASSUME IndInv, [Next]_vars, NEW c \in Starters, Active(c), status'[c] = "none"
      PROVE  \E g \in Categories :
               removal[g] = "selected" /\ crawl[c].group = g /\ c \in late[g]
  <2>1. status'[c] # status[c]
    BY <1>1 DEF Active
  <2>2. \A s \in Starters : ~ Start(s) /\ ~ EnqueueOrchestrate(s)
    BY <2>1 DEF Start, EnqueueOrchestrate
  <2>3. \A s \in Starters : ~ Create(s) /\ ~ SetStatus(s)
    BY <1>1, <2>1 DEF Create, SetStatus, IndInv, TypeOK
  <2>4. PICK g \in Categories : DeleteCategory(g)
    BY <1>1, <2>1, <2>2, <2>3 DEF Next, Remove, SelectCrawls, vars
  <2>5. removal[g] = "selected" /\ c \in doomed[g]
    BY <1>1, <2>1, <2>4 DEF DeleteCategory
  <2> QED
    BY <1>1, <2>5 DEF IndInv, Guarded, DoomedOwn, LateCovers
<1>2. IndInv /\ [Next]_vars =>
        [\A c \in Starters : Active(c) /\ status'[c] = "none" =>
           \E g \in Categories :
             removal[g] = "selected" /\ crawl[c].group = g /\ c \in late[g]]_vars
  BY <1>1
<1> QED
  BY <1>2, Invariance, PTL DEF Spec, RemovesOnlyIdle

-----------------------------------------------------------------------------
(* ScheduleSync: what a reconcile knows of the table.                      *)

(* A reconcile that read the table after its last edit works on what the   *)
(* table still holds: it writes active schedules as they are and removes   *)
(* inactive ones only.                                                     *)
FreshAgrees ==
  \A r \in fresh :
    /\ Live(r)
    /\ stage[r] = "upsert" => view[r] = rows
    /\ stage[r] = "remove" => todo[r] \cap ActiveIn(rows) = {}

(* What is still to be written is active in what was read. *)
WritesActive ==
  \A r \in Reconcilers : stage[r] = "upsert" => todo[r] \subseteq ActiveIn(view[r])

(* Beside a clean reconcile only fresh ones run.  What it has written is   *)
(* registered as the table has it, and when it removes, all that does not  *)
(* belong there is still on its list.                                      *)
CleanProgress ==
  \A r \in clean :
    /\ r \in fresh
    /\ \A q \in Reconcilers : Live(q) => q \in fresh
    /\ stage[r] = "upsert" =>
         \A s \in ActiveIn(rows) \ todo[r] : registered[s] = rows[s]
    /\ stage[r] = "remove" =>
         /\ \A s \in ActiveIn(rows) : registered[s] = rows[s]
         /\ ActiveIn(registered) \ ActiveIn(rows) \subseteq todo[r]

(* After a clean reconcile the projection equals the table, and whatever   *)
(* runs agrees with both.                                                  *)
Settled ==
  ~dirty => /\ registered = rows
            /\ \A q \in Reconcilers : Live(q) => q \in fresh

(* What a reconcile removes, or may come to remove, has lapsed. *)
LapsedCovers ==
  \A r \in Reconcilers :
    /\ stage[r] = "upsert" => Schedules \ ActiveIn(view[r]) \subseteq lapsed[r]
    /\ stage[r] = "remove" => todo[r] \subseteq lapsed[r]

Agreement ==
  /\ FreshAgrees
  /\ WritesActive
  /\ CleanProgress
  /\ Settled
  /\ LapsedCovers

SyncInv == SyncTypeOK /\ Agreement

-----------------------------------------------------------------------------
(* Types.                                                                  *)

(* No reconcile has anything on its list at first, and every variable has  *)
(* its type.                                                               *)
LEMMA SyncInitType == SyncInit => SyncTypeOK
<1> SUFFICES ASSUME SyncInit PROVE SyncTypeOK
  OBVIOUS
<1>1. NoRows \in Table
  BY DEF NoRows, Table
<1>2. rows \in Table /\ registered \in Table
  BY DEF SyncInit
<1>3. view \in [Reconcilers -> Table]
  BY <1>1 DEF SyncInit
<1>4. due \in BOOLEAN /\ dirty \in BOOLEAN
  BY Zenon DEF SyncInit
<1>5. /\ stage \in [Reconcilers -> {"idle", "upsert", "remove"}]
      /\ todo \in [Reconcilers -> SUBSET Schedules]
      /\ lapsed \in [Reconcilers -> SUBSET Schedules]
  BY DEF SyncInit
<1>6. /\ request \in {"none", "waiting", "active"}
      /\ {asking, edits, faults} \subseteq Nat
      /\ requested \subseteq Reconcilers
      /\ fresh \subseteq Reconcilers /\ clean \subseteq Reconcilers
  BY DEF SyncInit
<1> QED
  BY <1>2, <1>3, <1>4, <1>5, <1>6 DEF SyncTypeOK

(* Each step of the system keeps every variable in its type.               *)
LEMMA SyncTypeStep == SyncTypeOK /\ [SyncNext]_syncVars => SyncTypeOK'
<1> SUFFICES ASSUME SyncTypeOK, [SyncNext]_syncVars PROVE SyncTypeOK'
  OBVIOUS
<1> USE BoundsAssumption
<1>1. ASSUME NEW s \in Schedules, Edit(s) PROVE SyncTypeOK'
  <2>1. rows' \in Table
    BY <1>1 DEF Edit, SyncTypeOK, Table
  <2> QED
    BY <1>1, <2>1 DEF Edit, SyncTypeOK, reconciles
<1>2. CASE RequestScheduleReconcile
  BY <1>2 DEF RequestScheduleReconcile, SyncTypeOK, reconciles, history, bounds
<1>3. CASE Due
  BY <1>3 DEF Due, SyncTypeOK, reconciles, history, bounds
<1>4. ASSUME NEW r \in Reconcilers, ListAllActive(r) PROVE SyncTypeOK'
  BY <1>4 DEF ListAllActive, SyncTypeOK, ActiveIn, bounds
<1>5. ASSUME NEW r \in Reconcilers, UpsertJobScheduler(r) PROVE SyncTypeOK'
  <2>1. PICK s \in todo[r] :
          /\ registered' = [registered EXCEPT ![s] = view[r][s]]
          /\ todo' = [todo EXCEPT ![r] = @ \ {s}]
    BY <1>5 DEF UpsertJobScheduler
  <2>2. s \in Schedules /\ view[r][s] \in Crons \cup {NoCron}
    BY <2>1 DEF SyncTypeOK, Table
  <2>3. registered' \in Table
    BY <2>1, <2>2 DEF SyncTypeOK, Table
  <2> QED
    BY <1>5, <2>1, <2>3 DEF UpsertJobScheduler, SyncTypeOK, jobs, history, bounds
<1>6. ASSUME NEW r \in Reconcilers, GetJobSchedulers(r) PROVE SyncTypeOK'
  <2>1. NoRows \in Table
    BY DEF NoRows, Table
  <2> QED
    BY <1>6, <2>1 DEF GetJobSchedulers, SyncTypeOK, ActiveIn, jobs, history, bounds
<1>7. ASSUME NEW r \in Reconcilers, RemoveJobScheduler(r) PROVE SyncTypeOK'
  <2>1. PICK s \in todo[r] :
          /\ registered' = [registered EXCEPT ![s] = NoCron]
          /\ todo' = [todo EXCEPT ![r] = @ \ {s}]
    BY <1>7 DEF RemoveJobScheduler
  <2>2. registered' \in Table
    BY <2>1 DEF SyncTypeOK, Table
  <2> QED
    BY <1>7, <2>1, <2>2 DEF RemoveJobScheduler, SyncTypeOK, jobs, history, bounds
<1>8. ASSUME NEW r \in Reconcilers, Finish(r) \/ Die(r) PROVE SyncTypeOK'
  <2>1. NoRows \in Table
    BY DEF NoRows, Table
  <2>2. Leave(r) /\ UNCHANGED <<rows, registered, asking, edits>>
    BY <1>8 DEF Finish, Die, bounds
  <2>3. /\ stage' \in [Reconcilers -> {"idle", "upsert", "remove"}]
        /\ view' \in [Reconcilers -> Table]
        /\ todo' \in [Reconcilers -> SUBSET Schedules]
        /\ lapsed' \in [Reconcilers -> SUBSET Schedules]
        /\ requested' \subseteq Reconcilers
        /\ fresh' \subseteq Reconcilers /\ clean' \subseteq Reconcilers
    BY <2>1, <2>2 DEF Leave, SyncTypeOK
  <2>4. ASSUME Finish(r)
        PROVE  /\ request' \in {"none", "waiting", "active"}
               /\ due' \in BOOLEAN /\ faults' \in Nat
    <3>1. /\ request' \in {"none", "waiting", "active"}
          /\ due' = due /\ faults' = faults
      BY <2>4 DEF Finish, SyncTypeOK, bounds
    <3> QED
      BY <3>1 DEF SyncTypeOK
  <2>6. ASSUME Die(r)
        PROVE  /\ request' \in {"none", "waiting", "active"}
               /\ due' \in BOOLEAN /\ faults' \in Nat
    <3>1. request' \in {"none", "waiting", "active"}
      BY <2>6 DEF Die, SyncTypeOK
    <3>2. faults' \in Nat
      BY <2>6 DEF Die, SyncTypeOK
    <3>3. due' \in {TRUE, due}
      BY <2>6 DEF Die
    <3> QED
      BY <3>1, <3>2, <3>3, Zenon DEF SyncTypeOK
  <2>5. dirty' \in BOOLEAN
    BY <1>8 DEF Finish, Die, SyncTypeOK
  <2>7. {asking, edits, faults}' \subseteq Nat /\ rows' \in Table /\ registered' \in Table
    BY <2>2, <1>8, <2>4, <2>6 DEF SyncTypeOK
  <2> QED
    BY <1>8, <2>3, <2>4, <2>5, <2>6, <2>7 DEF SyncTypeOK
<1>9. ASSUME NEW r \in Reconcilers, Stall(r) PROVE SyncTypeOK'
  BY <1>9 DEF Stall, SyncTypeOK, history
<1>10. CASE UNCHANGED syncVars
  BY <1>10 DEF syncVars, SyncTypeOK, jobs, reconciles, history, bounds
<1> QED
  BY <1>1, <1>2, <1>3, <1>4, <1>5, <1>6, <1>7, <1>8, <1>9, <1>10
     DEF SyncNext, Reconcile

-----------------------------------------------------------------------------
(* Agreement.                                                              *)

(* Nothing runs at first, and what is registered is what the table holds.  *)
LEMMA InitAgrees == SyncInit => Agreement
BY DEF SyncInit, Agreement, FreshAgrees, WritesActive, CleanProgress, Settled,
       LapsedCovers, Live

(* An edit leaves no reconcile fresh; it can only add to what has lapsed.  *)
LEMMA EditAgrees ==
  ASSUME SyncInv, NEW s \in Schedules, Edit(s)
  PROVE  Agreement'
<1> USE DEF SyncInv, SyncTypeOK, Agreement, Edit
<1>1. fresh' = {} /\ clean' = {} /\ dirty' = TRUE
  OBVIOUS
<1>2. FreshAgrees' /\ CleanProgress' /\ Settled'
  BY <1>1 DEF FreshAgrees, CleanProgress, Settled
<1>3. UNCHANGED <<stage, view, todo>>
  BY DEF reconciles
<1>4. WritesActive'
  BY <1>3 DEF WritesActive, ActiveIn
<1>5. \A r \in Reconcilers : lapsed[r] \subseteq lapsed'[r]
  OBVIOUS
<1>6. LapsedCovers'
  BY <1>3, <1>5 DEF LapsedCovers, ActiveIn
<1> QED
  BY <1>2, <1>4, <1>6

(* A reconcile that reads the table agrees with it, and has still to write *)
(* every active schedule.                                                  *)
LEMMA ListAllActiveAgrees ==
  ASSUME SyncInv, NEW r \in Reconcilers, ListAllActive(r)
  PROVE  Agreement'
<1> USE DEF SyncInv, Agreement
<1>1. /\ rows' = rows /\ registered' = registered /\ dirty' = dirty
      /\ stage'[r] = "upsert" /\ view'[r] = rows /\ todo'[r] = ActiveIn(rows)
      /\ lapsed'[r] = Schedules \ ActiveIn(rows)
      /\ \A q \in Reconcilers \ {r} :
           /\ stage'[q] = stage[q] /\ view'[q] = view[q]
           /\ todo'[q] = todo[q] /\ lapsed'[q] = lapsed[q]
      /\ fresh' = fresh \cup {r}
      /\ clean' \subseteq clean \cup {r}
      /\ stage[r] = "idle"
  BY DEF ListAllActive, SyncTypeOK, Live
<1>2. r \notin fresh /\ r \notin clean
  BY <1>1 DEF FreshAgrees, CleanProgress, Live
<1>3. fresh \subseteq Reconcilers /\ clean \subseteq Reconcilers
  BY DEF SyncTypeOK
<1>4. FreshAgrees'
  BY <1>1, <1>2, <1>3 DEF FreshAgrees, Live, ActiveIn
<1>5. WritesActive'
  BY <1>1 DEF WritesActive, ActiveIn
<1>6. CleanProgress'
  <2>1. ASSUME NEW q \in clean' PROVE \A p \in Reconcilers : Live(p)' => p \in fresh'
    <3>1. CASE q = r
      BY <1>1, <1>2, <2>1, <3>1 DEF ListAllActive, Live
    <3>2. CASE q # r
      BY <1>1, <2>1, <3>2 DEF CleanProgress, Live
    <3> QED
      BY <3>1, <3>2
  <2>2. ASSUME NEW q \in clean' PROVE q \in fresh'
    BY <1>1, <2>2 DEF CleanProgress
  <2>3. ASSUME NEW q \in clean', stage'[q] = "upsert"
        PROVE  \A s \in ActiveIn(rows)' \ todo'[q] : registered'[s] = rows'[s]
    BY <1>1, <1>3, <2>3 DEF CleanProgress, ActiveIn
  <2>4. ASSUME NEW q \in clean', stage'[q] = "remove"
        PROVE  /\ \A s \in ActiveIn(rows)' : registered'[s] = rows'[s]
               /\ ActiveIn(registered)' \ ActiveIn(rows)' \subseteq todo'[q]
    BY <1>1, <1>3, <2>4 DEF CleanProgress, ActiveIn
  <2> QED
    BY <2>1, <2>2, <2>3, <2>4 DEF CleanProgress
<1>7. Settled'
  BY <1>1 DEF Settled, Live
<1>8. LapsedCovers'
  BY <1>1 DEF LapsedCovers, ActiveIn
<1> QED
  BY <1>4, <1>5, <1>6, <1>7, <1>8

(* What one reconcile writes is what the table holds, if it is fresh, and  *)
(* never the end of a scheduler.                                           *)
LEMMA UpsertAgrees ==
  ASSUME SyncInv, NEW r \in Reconcilers, UpsertJobScheduler(r)
  PROVE  Agreement'
<1> USE DEF SyncInv, Agreement
<1>1. PICK s \in todo[r] :
        /\ registered' = [registered EXCEPT ![s] = view[r][s]]
        /\ todo' = [todo EXCEPT ![r] = @ \ {s}]
  BY DEF UpsertJobScheduler
<1>2. /\ stage[r] = "upsert"
      /\ rows' = rows /\ stage' = stage /\ view' = view
      /\ fresh' = fresh /\ clean' = clean /\ lapsed' = lapsed /\ dirty' = dirty
  BY DEF UpsertJobScheduler, history
<1>3. /\ s \in Schedules /\ s \in ActiveIn(view[r]) /\ view[r][s] # NoCron
      /\ fresh \subseteq Reconcilers /\ clean \subseteq Reconcilers
  BY <1>1, <1>2 DEF SyncTypeOK, WritesActive, ActiveIn
<1>4. \A p \in Schedules : registered'[p] = IF p = s THEN view[r][s] ELSE registered[p]
  BY <1>1, <1>3 DEF SyncTypeOK, Table
<1>5. \A q \in Reconcilers : todo'[q] = IF q = r THEN todo[r] \ {s} ELSE todo[q]
  BY <1>1 DEF SyncTypeOK
<1>6. r \in fresh => registered'[s] = rows[s] /\ s \in ActiveIn(rows)
  BY <1>2, <1>3, <1>4 DEF FreshAgrees
<1>7. FreshAgrees'
  BY <1>2, <1>3, <1>5 DEF FreshAgrees, Live, ActiveIn
<1>8. WritesActive'
  BY <1>2, <1>5 DEF WritesActive, ActiveIn
<1>9. CleanProgress'
  <2> SUFFICES ASSUME NEW q \in clean
               PROVE  /\ q \in fresh
                      /\ \A p \in Reconcilers : Live(p) => p \in fresh
                      /\ stage[q] = "upsert" =>
                           \A p \in ActiveIn(rows) \ todo'[q] : registered'[p] = rows[p]
                      /\ stage[q] = "remove" =>
                           /\ \A p \in ActiveIn(rows) : registered'[p] = rows[p]
                           /\ ActiveIn(registered') \ ActiveIn(rows) \subseteq todo'[q]
    BY <1>2 DEF CleanProgress, Live, ActiveIn
  <2>1. q \in fresh /\ q \in Reconcilers /\ \A p \in Reconcilers : Live(p) => p \in fresh
    BY <1>3 DEF CleanProgress
  <2>2. r \in fresh
    BY <1>2, <2>1 DEF Live
  <2>3. ASSUME stage[q] = "upsert", NEW p \in ActiveIn(rows) \ todo'[q]
        PROVE  registered'[p] = rows[p]
    <3>1. p = s \/ p \in ActiveIn(rows) \ todo[q]
      BY <1>5, <2>1
    <3> QED
      BY <1>4, <1>6, <2>2, <2>3, <3>1 DEF CleanProgress, ActiveIn
  <2>4. ASSUME stage[q] = "remove"
        PROVE  /\ \A p \in ActiveIn(rows) : registered'[p] = rows[p]
               /\ ActiveIn(registered') \ ActiveIn(rows) \subseteq todo'[q]
    BY <1>2, <1>4, <1>5, <1>6, <2>1, <2>2, <2>4 DEF CleanProgress, ActiveIn
  <2> QED
    BY <2>1, <2>3, <2>4
<1>10. Settled'
  <2> SUFFICES ASSUME ~dirty
               PROVE  registered' = rows /\ \A q \in Reconcilers : Live(q) => q \in fresh
    BY <1>2 DEF Settled, Live
  <2>1. r \in fresh /\ registered = rows
    BY <1>2 DEF Settled, Live
  <2>2. view[r][s] = registered[s]
    BY <1>2, <2>1 DEF FreshAgrees
  <2> QED
    BY <1>1, <2>1, <2>2 DEF Settled, SyncTypeOK, Table
<1>11. LapsedCovers'
  BY <1>2, <1>5 DEF LapsedCovers, ActiveIn
<1> QED
  BY <1>7, <1>8, <1>9, <1>10, <1>11

(* The list of what to remove holds all that does not belong there, when   *)
(* the reconcile is clean, and never an active schedule, when it is fresh. *)
LEMMA GetJobSchedulersAgrees ==
  ASSUME SyncInv, NEW r \in Reconcilers, GetJobSchedulers(r)
  PROVE  Agreement'
<1> USE DEF SyncInv, Agreement
<1>1. /\ stage[r] = "upsert" /\ todo[r] = {}
      /\ rows' = rows /\ registered' = registered
      /\ fresh' = fresh /\ clean' = clean /\ lapsed' = lapsed /\ dirty' = dirty
      /\ stage'[r] = "remove" /\ todo'[r] = ActiveIn(registered) \ ActiveIn(view[r])
      /\ \A q \in Reconcilers \ {r} :
           stage'[q] = stage[q] /\ view'[q] = view[q] /\ todo'[q] = todo[q]
      /\ fresh \subseteq Reconcilers /\ clean \subseteq Reconcilers
  BY DEF GetJobSchedulers, history, SyncTypeOK
<1>2. r \in fresh => view[r] = rows
  BY <1>1 DEF FreshAgrees
<1>3. FreshAgrees'
  BY <1>1, <1>2 DEF FreshAgrees, Live, ActiveIn
<1>4. WritesActive'
  BY <1>1 DEF WritesActive, ActiveIn
<1>5. CleanProgress'
  <2>1. ASSUME NEW q \in clean
        PROVE  q \in fresh /\ \A p \in Reconcilers : Live(p)' => p \in fresh
    BY <1>1 DEF CleanProgress, Live
  <2>2. ASSUME NEW q \in clean, stage'[q] = "upsert"
        PROVE  \A p \in ActiveIn(rows) \ todo'[q] : registered[p] = rows[p]
    BY <1>1, <2>2 DEF CleanProgress
  <2>3. ASSUME NEW q \in clean, stage'[q] = "remove"
        PROVE  /\ \A p \in ActiveIn(rows) : registered[p] = rows[p]
               /\ ActiveIn(registered) \ ActiveIn(rows) \subseteq todo'[q]
    BY <1>1, <1>2, <2>3 DEF CleanProgress
  <2> QED
    BY <1>1, <2>1, <2>2, <2>3 DEF CleanProgress, ActiveIn
<1>6. Settled'
  BY <1>1 DEF Settled, Live
<1>7. LapsedCovers'
  BY <1>1 DEF LapsedCovers, ActiveIn, SyncTypeOK
<1> QED
  BY <1>3, <1>4, <1>5, <1>6, <1>7

(* A removal takes away what has lapsed; beside a clean reconcile, only    *)
(* what does not belong there.                                             *)
LEMMA RemoveAgrees ==
  ASSUME SyncInv, NEW r \in Reconcilers, RemoveJobScheduler(r)
  PROVE  Agreement'
<1> USE DEF SyncInv, Agreement
<1>1. PICK s \in todo[r] :
        /\ registered' = [registered EXCEPT ![s] = NoCron]
        /\ todo' = [todo EXCEPT ![r] = @ \ {s}]
  BY DEF RemoveJobScheduler
<1>2. /\ stage[r] = "remove"
      /\ rows' = rows /\ stage' = stage /\ view' = view
      /\ fresh' = fresh /\ clean' = clean /\ lapsed' = lapsed /\ dirty' = dirty
  BY DEF RemoveJobScheduler, history
<1>3. /\ s \in Schedules
      /\ fresh \subseteq Reconcilers /\ clean \subseteq Reconcilers
  BY <1>1 DEF SyncTypeOK
<1>4. \A p \in Schedules : registered'[p] = IF p = s THEN NoCron ELSE registered[p]
  BY <1>1, <1>3 DEF SyncTypeOK, Table
<1>5. \A q \in Reconcilers : todo'[q] = IF q = r THEN todo[r] \ {s} ELSE todo[q]
  BY <1>1 DEF SyncTypeOK
<1>6. r \in fresh => s \notin ActiveIn(rows) /\ rows[s] = NoCron
  BY <1>2, <1>3 DEF FreshAgrees, ActiveIn
<1>7. FreshAgrees'
  BY <1>2, <1>3, <1>5 DEF FreshAgrees, Live, ActiveIn
<1>8. WritesActive'
  BY <1>2, <1>5 DEF WritesActive, ActiveIn
<1>9. CleanProgress'
  <2>1. ASSUME NEW q \in clean
        PROVE  /\ r \in fresh /\ q \in fresh /\ q \in Reconcilers
               /\ \A p \in Reconcilers : Live(p) => p \in fresh
    BY <1>2, <1>3 DEF CleanProgress, Live
  <2>2. ASSUME NEW q \in clean, stage[q] = "upsert"
        PROVE  \A p \in ActiveIn(rows) \ todo'[q] : registered'[p] = rows[p]
    BY <1>2, <1>4, <1>5, <1>6, <2>1, <2>2 DEF CleanProgress, ActiveIn
  <2>3. ASSUME NEW q \in clean, stage[q] = "remove"
        PROVE  /\ \A p \in ActiveIn(rows) : registered'[p] = rows[p]
               /\ ActiveIn(registered') \ ActiveIn(rows) \subseteq todo'[q]
    BY <1>2, <1>4, <1>5, <1>6, <2>1, <2>3 DEF CleanProgress, ActiveIn
  <2> QED
    BY <1>2, <2>1, <2>2, <2>3 DEF CleanProgress, Live, ActiveIn
<1>10. Settled'
  <2> SUFFICES ASSUME ~dirty
               PROVE  registered' = rows /\ \A q \in Reconcilers : Live(q) => q \in fresh
    BY <1>2 DEF Settled, Live
  <2>1. r \in fresh /\ registered = rows
    BY <1>2 DEF Settled, Live
  <2>2. registered[s] = NoCron
    BY <1>6, <2>1
  <2> QED
    BY <1>1, <2>1, <2>2 DEF Settled, SyncTypeOK, Table
<1>11. LapsedCovers'
  BY <1>2, <1>5 DEF LapsedCovers, ActiveIn
<1> QED
  BY <1>7, <1>8, <1>9, <1>10, <1>11

(* A reconcile that is over claims nothing any more, and the others do not *)
(* notice.                                                                 *)
LEMMA LeaveAgrees ==
  ASSUME SyncInv, NEW r \in Reconcilers, Leave(r),
         UNCHANGED <<rows, registered>>
  PROVE  /\ FreshAgrees' /\ WritesActive' /\ CleanProgress' /\ LapsedCovers'
         /\ \A q \in Reconcilers : Live(q)' <=> (Live(q) /\ q # r)
<1> USE DEF SyncInv, Agreement
<1>1. /\ stage'[r] = "idle"
      /\ \A q \in Reconcilers \ {r} :
           /\ stage'[q] = stage[q] /\ view'[q] = view[q]
           /\ todo'[q] = todo[q] /\ lapsed'[q] = lapsed[q]
      /\ fresh' = fresh \ {r} /\ clean' = clean \ {r}
      /\ fresh \subseteq Reconcilers /\ clean \subseteq Reconcilers
  BY DEF Leave, SyncTypeOK
<1>2. FreshAgrees' /\ WritesActive' /\ LapsedCovers'
  BY <1>1 DEF FreshAgrees, WritesActive, LapsedCovers, Live, ActiveIn
<1>3. \A q \in Reconcilers : Live(q)' <=> (Live(q) /\ q # r)
  BY <1>1 DEF Live
<1>4. CleanProgress'
  <2> SUFFICES ASSUME NEW q \in clean, q # r
               PROVE  /\ q \in fresh'
                      /\ \A p \in Reconcilers : Live(p)' => p \in fresh'
                      /\ stage'[q] = "upsert" =>
                           \A p \in ActiveIn(rows) \ todo'[q] : registered[p] = rows[p]
                      /\ stage'[q] = "remove" =>
                           /\ \A p \in ActiveIn(rows) : registered[p] = rows[p]
                           /\ ActiveIn(registered) \ ActiveIn(rows) \subseteq todo'[q]
    BY <1>1 DEF CleanProgress, ActiveIn
  <2>1. q \in fresh' /\ \A p \in Reconcilers : Live(p)' => p \in fresh'
    BY <1>1, <1>3 DEF CleanProgress
  <2>2. stage'[q] = stage[q] /\ todo'[q] = todo[q]
    BY <1>1
  <2> QED
    BY <2>1, <2>2 DEF CleanProgress
<1> QED
  BY <1>2, <1>3, <1>4

(* A clean reconcile that has nothing left to remove leaves the projection *)
(* equal to the table.                                                     *)
LEMMA FinishAgrees ==
  ASSUME SyncInv, NEW r \in Reconcilers, Finish(r)
  PROVE  Agreement'
<1> USE DEF SyncInv, Agreement
<1>1. /\ stage[r] = "remove" /\ todo[r] = {} /\ Leave(r)
      /\ rows' = rows /\ registered' = registered
      /\ dirty' = (dirty /\ r \notin clean)
  BY DEF Finish
<1>2. /\ FreshAgrees' /\ WritesActive' /\ CleanProgress' /\ LapsedCovers'
      /\ \A q \in Reconcilers : Live(q)' <=> (Live(q) /\ q # r)
  BY <1>1, LeaveAgrees
<1>3. fresh' = fresh \ {r}
  BY <1>1 DEF Leave
<1>4. ASSUME r \in clean
      PROVE  registered = rows /\ \A q \in Reconcilers : Live(q) => q \in fresh
  <2>1. /\ \A s \in ActiveIn(rows) : registered[s] = rows[s]
        /\ ActiveIn(registered) \subseteq ActiveIn(rows)
        /\ \A q \in Reconcilers : Live(q) => q \in fresh
    BY <1>1, <1>4 DEF CleanProgress
  <2>2. \A s \in Schedules : registered[s] = rows[s]
    BY <2>1 DEF ActiveIn
  <2> QED
    BY <2>1, <2>2 DEF SyncTypeOK, Table
<1>5. ASSUME ~dirty
      PROVE  registered = rows /\ \A q \in Reconcilers : Live(q) => q \in fresh
  BY <1>5 DEF Settled
<1>6. Settled'
  <2>1. ~dirty' => ~dirty \/ r \in clean
    BY <1>1
  <2> QED
    BY <1>1, <1>2, <1>3, <1>4, <1>5, <2>1 DEF Settled
<1> QED
  BY <1>2, <1>6

(* A reconcile that dies may leave its work half done: the edits before it *)
(* stay without a clean reconcile.                                         *)
LEMMA DieAgrees ==
  ASSUME SyncInv, NEW r \in Reconcilers, Die(r)
  PROVE  Agreement'
<1> USE DEF SyncInv, Agreement
<1>1. Leave(r) /\ rows' = rows /\ registered' = registered /\ dirty' = dirty
  BY DEF Die
<1>2. /\ FreshAgrees' /\ WritesActive' /\ CleanProgress' /\ LapsedCovers'
      /\ \A q \in Reconcilers : Live(q)' <=> (Live(q) /\ q # r)
  BY <1>1, LeaveAgrees
<1>3. fresh' = fresh \ {r}
  BY <1>1 DEF Leave
<1>4. Settled'
  BY <1>1, <1>2, <1>3 DEF Settled
<1> QED
  BY <1>2, <1>4

(* The agreement speaks of the table, the projection and the reconciles    *)
(* only.                                                                   *)
LEMMA AgreementStutter ==
  ASSUME Agreement,
         UNCHANGED <<rows, registered, stage, view, todo, fresh, clean, lapsed, dirty>>
  PROVE  Agreement'
BY DEF Agreement, FreshAgrees, WritesActive, CleanProgress, Settled, LapsedCovers,
       Live, ActiveIn

(* The invariant is inductive.                                             *)
LEMMA SyncInvStep == SyncInv /\ [SyncNext]_syncVars => SyncInv'
<1> SUFFICES ASSUME SyncInv, [SyncNext]_syncVars PROVE Agreement'
  BY SyncTypeStep DEF SyncInv
<1>1. Agreement
  BY DEF SyncInv
<1>2. ASSUME NEW s \in Schedules, Edit(s) PROVE Agreement'
  BY <1>2, EditAgrees
<1>3. CASE RequestScheduleReconcile
  BY <1>1, <1>3, AgreementStutter DEF RequestScheduleReconcile, reconciles, history
<1>4. CASE Due
  BY <1>1, <1>4, AgreementStutter DEF Due, reconciles, history
<1>5. ASSUME NEW r \in Reconcilers, Reconcile(r) PROVE Agreement'
  BY <1>5, ListAllActiveAgrees, UpsertAgrees, GetJobSchedulersAgrees,
     RemoveAgrees, FinishAgrees DEF Reconcile
<1>6. ASSUME NEW r \in Reconcilers, Die(r) PROVE Agreement'
  BY <1>6, DieAgrees
<1>7. ASSUME NEW r \in Reconcilers, Stall(r) PROVE Agreement'
  BY <1>1, <1>7, AgreementStutter DEF Stall, history
<1>8. CASE UNCHANGED syncVars
  BY <1>1, <1>8, AgreementStutter DEF syncVars, reconciles, history
<1> QED
  BY <1>2, <1>3, <1>4, <1>5, <1>6, <1>7, <1>8 DEF SyncNext

(* Every behaviour keeps the invariant, whatever its fairness.             *)
LEMMA SyncInvariance == SyncSpec => []SyncInv
<1>1. SyncInit => SyncInv
  BY SyncInitType, InitAgrees DEF SyncInv
<1> QED
  BY <1>1, SyncInvStep, PTL DEF SyncSpec, Safe

-----------------------------------------------------------------------------
(* Theorems.                                                               *)

(* Every variable keeps its type.                                          *)
THEOREM SyncTypeCorrect == SyncSpec => []SyncTypeOK
<1>1. SyncInv => SyncTypeOK
  BY DEF SyncInv
<1> QED
  BY <1>1, SyncInvariance, PTL

(* SchedulerSyncService.reconcile: after a reconcile that began after the  *)
(* last edit, beside none that began before it, the job schedulers are the *)
(* active schedules, and stay so until the next edit.                      *)
THEOREM SyncCorrect == SyncSpec => []InSync
<1>1. SyncInv => InSync
  BY DEF SyncInv, Agreement, Settled, InSync
<1> QED
  BY <1>1, SyncInvariance, PTL

(* A step that ends a job scheduler is the removal of a reconcile during   *)
(* which the schedule had no active row.                                   *)
LEMMA RemovalStep ==
  ASSUME SyncInv, [SyncNext]_syncVars, NEW s \in Schedules,
         registered[s] # NoCron, registered'[s] = NoCron
  PROVE  \E r \in Reconcilers : stage[r] = "remove" /\ s \in lapsed[r]
<1> USE DEF SyncInv, Agreement
<1>1. PICK r \in Reconcilers : UpsertJobScheduler(r) \/ RemoveJobScheduler(r)
  <2>1. registered' # registered
    OBVIOUS
  <2> QED
    BY <2>1 DEF SyncNext, Reconcile, Edit, RequestScheduleReconcile, Due, ListAllActive,
                GetJobSchedulers, Finish, Die, Stall, syncVars
<1>2. CASE UpsertJobScheduler(r)
  <2>1. PICK p \in todo[r] : registered' = [registered EXCEPT ![p] = view[r][p]]
    BY <1>2 DEF UpsertJobScheduler
  <2>2. view[r][p] # NoCron
    BY <1>2, <2>1 DEF UpsertJobScheduler, WritesActive, ActiveIn
  <2> QED
    BY <2>1, <2>2 DEF SyncTypeOK, Table
<1>3. CASE RemoveJobScheduler(r)
  <2>1. PICK p \in todo[r] : registered' = [registered EXCEPT ![p] = NoCron]
    BY <1>3 DEF RemoveJobScheduler
  <2>2. s = p
    BY <2>1 DEF SyncTypeOK, Table
  <2>3. stage[r] = "remove" /\ todo[r] \subseteq lapsed[r]
    BY <1>3 DEF RemoveJobScheduler, LapsedCovers
  <2> QED
    BY <2>1, <2>2, <2>3
<1> QED
  BY <1>1, <1>2, <1>3

(* A schedule that is active all along keeps its job scheduler, however    *)
(* many reconciles run, die or overtake one another.                       *)
THEOREM SyncRemovalCorrect == SyncSpec => RemovesOnlyLapsed
<1>1. SyncInv /\ [SyncNext]_syncVars =>
        [\A s \in Schedules : registered[s] # NoCron /\ registered'[s] = NoCron =>
           \E r \in Reconcilers : stage[r] = "remove" /\ s \in lapsed[r]]_syncVars
  BY RemovalStep
<1> QED
  BY <1>1, SyncInvariance, PTL DEF SyncSpec, Safe, RemovesOnlyLapsed
=============================================================================
