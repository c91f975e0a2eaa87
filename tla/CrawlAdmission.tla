--------------------------- MODULE CrawlAdmission ---------------------------
(***************************************************************************)
(* Starting crawls of one website, and deleting its categories.            *)
(*                                                                         *)
(* A crawl is started by an API request or by a delivery of a scheduled    *)
(* firing.  Either looks for an active crawl in the way, creates its row,  *)
(* and queues the orchestrate job, in three statements.  Deleting a        *)
(* category looks for an active crawl of it, and then deletes it with its  *)
(* crawls in a transaction of its own.                                     *)
(*                                                                         *)
(* PagePipeline and CrawlFinalize say who writes which status of a crawl;  *)
(* here a crawl is active (queued to finalizing) or over, and either may   *)
(* be written at any time, as setStatus has no condition.  The audit entry *)
(* of a request and the bookkeeping of a firing are left out.              *)
(***************************************************************************)
EXTENDS Integers, FiniteSets

CONSTANTS
  Starters,     \* start requests, and deliveries of scheduled firings
  Categories,   \* ids of sitemap groups
  None,         \* the group of a website-wide crawl
  MaxRevivals   \* bound: crawls that turn active again after their end

ASSUME NoneAssumption == None \notin Categories
ASSUME BoundAssumption == MaxRevivals \in Nat

(* What is asked for.  Only a crawl of scope 'group' must have a group;    *)
(* one of scope 'site' or 'page' may.  A firing asks for the website.      *)
Requests ==
  [scope : {"group"}, group : Categories] \cup
  [scope : {"other"}, group : Categories \cup {None}]

Blank == [scope |-> "other", group |-> None]

VARIABLES
  categories,  \* Postgres: the sitemap groups that exist
  crawl,       \* what each starter asks for, and the row of its crawl
  status,      \* Postgres: none (no row), active or over
  queued,      \* crawls whose orchestrate job has been queued
  pc,          \* where each starter is
  removal,     \* where the request to delete each category is
  doomed,      \* the crawls its transaction has selected
  (* history: who had looked and not yet created when each starter looked,   *)
  (* the crawls that turned active again, those that lost their category,    *)
  (* and those that turned active since each removal looked                  *)
  unseen, revived, widened, late

starters == <<crawl, queued, pc, unseen>>
removals == <<removal, doomed>>

vars == <<categories, status, starters, removals, revived, widened, late>>

-----------------------------------------------------------------------------

(* A crawl turns active while the removal of its category goes on. *)
LateWith(c) ==
  [g \in Categories |->
     IF removal[g] # "idle" /\ crawl[c].group = g THEN late[g] \cup {c} ELSE late[g]]

(* A website-wide crawl covers every category. *)
Conflict(g, h) == g = None \/ h = None \/ g = h

Active(c) == status[c] = "active"

Init ==
  /\ categories = Categories
  /\ crawl = [s \in Starters |-> Blank]
  /\ status = [s \in Starters |-> "none"]
  /\ queued = {}
  /\ pc = [s \in Starters |-> "idle"]
  /\ removal = [g \in Categories |-> "idle"]
  /\ doomed = [g \in Categories |-> {}]
  /\ unseen = [s \in Starters |-> {}]
  /\ revived = {} /\ widened = {}
  /\ late = [g \in Categories |-> {}]

-----------------------------------------------------------------------------
(* Starting: CrawlsService.start, ScheduleFireProcessor.process.           *)

(* Mutant: a website-wide crawl looks for website-wide crawls only.        *)
FindActiveForScopeNarrow(group) ==
  {c \in Starters : Active(c) /\ crawl[c].group \in {None, group}}

(* The crawls in the way of what a starter asks for. *)
FindActiveForScope(group) ==
  {c \in Starters : Active(c) /\ Conflict(crawl[c].group, group)}

(* A conflict refuses the request and skips the firing. *)
Start(s) ==
  /\ pc[s] = "idle"
  /\ \E request \in Requests :
       IF FindActiveForScope(request.group) = {}
       THEN /\ pc' = [pc EXCEPT ![s] = "checked"]
            /\ crawl' = [crawl EXCEPT ![s] = request]
            /\ unseen' = [unseen EXCEPT ![s] = {q \in Starters : pc[q] = "checked"}]
       ELSE /\ pc' = [pc EXCEPT ![s] = "done"]
            /\ UNCHANGED <<crawl, unseen>>
  /\ UNCHANGED <<categories, status, queued, removals, revived, widened, late>>

(* The row of a category that is gone cannot be referred to. *)
Create(s) ==
  /\ pc[s] = "checked"
  /\ IF crawl[s].group \in categories \cup {None}
     THEN /\ pc' = [pc EXCEPT ![s] = "created"]
          /\ status' = [status EXCEPT ![s] = "active"]
          /\ late' = LateWith(s)
     ELSE /\ pc' = [pc EXCEPT ![s] = "done"]
          /\ UNCHANGED <<status, late>>
  /\ UNCHANGED <<categories, crawl, queued, unseen, removals, revived, widened>>

(* A starter that dies before leaves its crawl queued and takes no more    *)
(* steps; nothing here makes it take them.                                 *)
EnqueueOrchestrate(s) ==
  /\ pc[s] = "created"
  /\ pc' = [pc EXCEPT ![s] = "done"]
  /\ queued' = queued \cup {s}
  /\ UNCHANGED <<categories, status, crawl, unseen, removals, revived, widened, late>>

-----------------------------------------------------------------------------
(* CrawlsRepository.setStatus, by a worker of a queued crawl or by a       *)
(* control request decided on before.  A row that is gone is not written.  *)

SetStatus(c) ==
  \/ /\ Active(c) /\ c \in queued
     /\ status' = [status EXCEPT ![c] = "over"]
     /\ UNCHANGED <<categories, starters, removals, revived, widened, late>>
  \/ /\ status[c] = "over" /\ Cardinality(revived) < MaxRevivals
     /\ status' = [status EXCEPT ![c] = "active"]
     /\ revived' = revived \cup {c}
     /\ late' = LateWith(c)
     /\ UNCHANGED <<categories, starters, removals, widened>>

-----------------------------------------------------------------------------
(* Deleting a category: SitemapGroupsService.remove, and the transaction   *)
(* of SitemapGroupsRepository.remove, whose statements see what others     *)
(* have committed between them.                                            *)

CrawlsOf(g) == {c \in Starters : status[c] # "none" /\ crawl[c].group = g}

(* Mutant: crawls of scope 'group' are looked at only.                     *)
HasActiveCrawlOfScope(g) ==
  \E c \in CrawlsOf(g) : Active(c) /\ crawl[c].scope = "group"

HasActiveCrawl(g) == \E c \in CrawlsOf(g) : Active(c)

Remove(g) ==
  /\ removal[g] = "idle" /\ g \in categories /\ ~HasActiveCrawl(g)
  /\ removal' = [removal EXCEPT ![g] = "checked"]
  /\ late' = [late EXCEPT ![g] = {}]
  /\ UNCHANGED <<categories, status, starters, doomed, revived, widened>>

SelectCrawls(g) ==
  /\ removal[g] = "checked"
  /\ removal' = [removal EXCEPT ![g] = "selected"]
  /\ doomed' = [doomed EXCEPT ![g] = CrawlsOf(g)]
  /\ UNCHANGED <<categories, status, starters, revived, widened, late>>

(* Crawls selected go with their rows.  Another one that refers to the     *)
(* category loses it; one of scope 'group' must not, and everything is     *)
(* rolled back.                                                            *)
Leftover(g) == CrawlsOf(g) \ doomed[g]

(* Mutant: nothing says that a category crawl must have a category.        *)
DeleteCategoryUnchecked(g) ==
  /\ removal[g] = "selected"
  /\ removal' = [removal EXCEPT ![g] = "idle"]
  /\ doomed' = [doomed EXCEPT ![g] = {}]
  /\ categories' = categories \ {g}
  /\ status' = [c \in Starters |-> IF c \in doomed[g] THEN "none" ELSE status[c]]
  /\ crawl' = [c \in Starters |->
                 IF c \in Leftover(g) THEN [crawl[c] EXCEPT !.group = None] ELSE crawl[c]]
  /\ widened' = widened \cup Leftover(g)
  /\ late' = [late EXCEPT ![g] = {}]
  /\ UNCHANGED <<queued, pc, unseen, revived>>

DeleteCategory(g) ==
  /\ removal[g] = "selected"
  /\ removal' = [removal EXCEPT ![g] = "idle"]
  /\ doomed' = [doomed EXCEPT ![g] = {}]
  /\ IF \E c \in Leftover(g) : crawl[c].scope = "group"
     THEN UNCHANGED <<categories, status, crawl, widened>>
     ELSE /\ categories' = categories \ {g}
          /\ status' = [c \in Starters |-> IF c \in doomed[g] THEN "none" ELSE status[c]]
          /\ crawl' = [c \in Starters |->
                         IF c \in Leftover(g) THEN [crawl[c] EXCEPT !.group = None]
                         ELSE crawl[c]]
          /\ widened' = widened \cup Leftover(g)
  /\ late' = [late EXCEPT ![g] = {}]
  /\ UNCHANGED <<queued, pc, unseen, revived>>

-----------------------------------------------------------------------------

Next ==
  \/ \E s \in Starters :
       Start(s) \/ Create(s) \/ EnqueueOrchestrate(s) \/ SetStatus(s)
  \/ \E g \in Categories : Remove(g) \/ SelectCrawls(g) \/ DeleteCategory(g)

Spec == Init /\ [][Next]_vars

-----------------------------------------------------------------------------
(* Correctness.                                                            *)

TypeOK ==
  /\ categories \subseteq Categories
  /\ crawl \in [Starters -> Requests]
  /\ status \in [Starters -> {"none", "active", "over"}]
  /\ queued \subseteq Starters
  /\ pc \in [Starters -> {"idle", "checked", "created", "done"}]
  /\ removal \in [Categories -> {"idle", "checked", "selected"}]
  /\ doomed \in [Categories -> SUBSET Starters]
  /\ unseen \in [Starters -> SUBSET Starters]
  /\ revived \subseteq Starters /\ widened \subseteq Starters
  /\ late \in [Categories -> SUBSET Starters]

(* Each looked before the other had created its crawl. *)
Raced(a, b) == a \in unseen[b] \/ b \in unseen[a]

(* Two active crawls overlap only if their starters raced, or one turned   *)
(* active after its end or lost its category: everywhere else the guard    *)
(* holds between requests, firings, and one firing delivered twice         *)
(* ("don't stack crawls on a website that is still crawling").             *)
OneCrawlPerScope ==
  \A a, b \in Starters :
    /\ a # b /\ Active(a) /\ Active(b)
    /\ Conflict(crawl[a].group, crawl[b].group)
    => Raced(a, b) \/ {a, b} \cap (revived \cup widened) # {}

(* An active crawl is deleted only with its own category, and only if it   *)
(* turned active after the removal had looked ("Deleting the group out     *)
(* from under a running crawl would leave workers writing ...").           *)
RemovesOnlyIdle ==
  [][\A c \in Starters : Active(c) /\ status'[c] = "none" =>
       \E g \in Categories :
         removal[g] = "selected" /\ crawl[c].group = g /\ c \in late[g]]_vars

=============================================================================
