------------------------------ MODULE PageAudit ------------------------------
(***************************************************************************)
(* One page through successive crawls: what its report says, and what the  *)
(* page was.  The worker audits the page or carries its last report        *)
(* forward, its link targets are verified, and the finalizer adds what     *)
(* only verified links can tell and scores the page again.  Meanwhile the  *)
(* site changes.  Faults and other jobs are in PagePipeline and            *)
(* CrawlFinalize; here every step is done once.                            *)
(***************************************************************************)
EXTENDS SeoEngine

CONSTANTS
  Versions,    \* what the site may serve for the page: [doc, response]
  LinkUrls,    \* the link targets that may break
  LinkHops,    \* redirects in front of each link target
  Origin,      \* the website's domain
  MaxCrawls,   \* bound: crawls
  MaxChanges   \* bound: changes of the page or of its link targets

(* A document holds lists, and a list ends.                                *)
ASSUME VersionsAssumption ==
  \A version \in Versions :
    /\ \A part \in {"canonicals", "headings", "images", "anchors"} :
         version.doc[part] \in Seq(Range(version.doc[part]))
    /\ IsFiniteSet(version.doc.resources)

(* An inlined image is not fetched from anywhere.                          *)
ASSUME InlineAssumption == Inline \notin LinkUrls

ASSUME BoundsAssumption == MaxCrawls \in Nat /\ MaxChanges \in Nat

VARIABLES
  served,   \* the version on the site
  broken,   \* link targets that do not answer
  phase,    \* of the crawl: "over", "fetch", "verify", "finalize"
  previous, \* the page's report in the last completed crawl
  report,   \* page_snapshots and page_issues of this crawl
  checked,  \* link_checks of this crawl: [ok, hops]
  (* history: what this crawl fetched, the response its report was made   *)
  (* from, the link targets broken when they were verified                *)
  fetched, audited, brokenThen,
  crawls, siteChanges

vars == <<served, broken, phase, previous, report, checked, fetched, audited, brokenThen,
          crawls, siteChanges>>

site == <<served, broken, siteChanges>>

NoReport == [fetch |-> "none", body |-> None, artifacts |-> None, issues |-> {},
             score |-> 0, counts |-> <<>>]

MAX_REDIRECT_HOPS == 2

Init ==
  /\ served \in Versions
  /\ broken \in {{}, LinkUrls}
  /\ phase = "over"
  /\ previous = NoReport /\ report = NoReport
  /\ checked = <<>>
  /\ fetched = None /\ audited = None /\ brokenThen = {}
  /\ crawls = 0 /\ siteChanges = 0

(* The page changes between two fetches, a link target at any time.        *)
Change ==
  /\ siteChanges < MaxChanges
  /\ siteChanges' = siteChanges + 1
  /\ \/ /\ phase = "over" /\ crawls > 0
        /\ served' \in Versions \ {served} /\ UNCHANGED broken
     \/ /\ \E u \in LinkUrls : broken' \in {broken \cup {u}, broken \ {u}} \ {broken}
        /\ UNCHANGED served
  /\ UNCHANGED <<phase, previous, report, checked, fetched, audited, brokenThen, crawls>>

StartCrawl ==
  /\ phase = "over" /\ crawls < MaxCrawls
  /\ crawls' = crawls + 1
  /\ phase' = "fetch"
  /\ previous' = report
  /\ report' = NoReport
  /\ checked' = <<>>
  /\ fetched' = None /\ brokenThen' = {}
  /\ UNCHANGED <<audited, site>>

(* loadConditionalHints: a redirected or failed page has none.             *)
Hinted == previous.fetch \in {"ok", "carried"}

-----------------------------------------------------------------------------
(* PageProcessorService.                                                   *)

(* Mutant: the page has a hint, so it has not changed.                     *)
CarryForwardBlindly ==
  /\ Hinted
  /\ served.response.status < 400
  /\ report' = [previous EXCEPT !.fetch = "carried"]
  /\ UNCHANGED audited

(* The body is the one of the last crawl, by a 304 or by its hash.  The    *)
(* snapshot, its issues and its score are copies; only the body counts.    *)
CarryForward ==
  /\ Hinted /\ served.doc = previous.body
  /\ served.response.status < 400
  /\ report' = [previous EXCEPT !.fetch = "carried"]
  /\ UNCHANGED audited

ValidateAndPersist ==
  /\ served.response.status < 400
  /\ ~(Hinted /\ served.doc = previous.body)
  /\ LET artifacts == ExtractArtifacts(served.doc, served.response)
         results == RunChecks(artifacts)
     IN  report' = [fetch |-> IF served.response.hops > 0 THEN "redirected" ELSE "ok",
                    body |-> served.doc, artifacts |-> artifacts, issues |-> results,
                    score |-> ComputePageScore(results), counts |-> CountBySeverity(results)]
  /\ audited' = served.response

(* A fetch can fail whatever the site serves.                              *)
PersistFetchError ==
  /\ LET check == IF served.response.status >= 400 THEN "status_error" ELSE "fetch_failed" IN
     report' = [NoReport EXCEPT !.fetch = "error", !.issues = Fail(check, TRUE),
                                !.counts = CountBySeverity(Fail(check, TRUE))]
  /\ audited' = served.response

ProcessFetch ==
  /\ phase = "fetch"
  /\ CarryForward \/ ValidateAndPersist \/ PersistFetchError
  /\ phase' = "verify"
  /\ fetched' = served
  /\ UNCHANGED <<previous, checked, brokenThen, crawls, site>>

-----------------------------------------------------------------------------
(* Link verification.                                                      *)

Hrefs(artifacts) == {artifacts.links[i].href : i \in DOMAIN artifacts.links}
Sources(artifacts) == {artifacts.images[i].src : i \in DOMAIN artifacts.images} \ {None}

(* Mutant: images are not verified.                                        *)
LinkTargetsOnly(r) == IF r.fetch \in {"ok", "redirected"} THEN Hrefs(r.artifacts) ELSE {}

(* enqueueLinkTargets: anchors and images of a page audited in this crawl. *)
LinkTargets(r) ==
  IF r.fetch \in {"ok", "redirected"} THEN Hrefs(r.artifacts) \cup Sources(r.artifacts)
  ELSE {}

(* Other pages' links are verified as well, and may be the same.           *)
CheckLinks ==
  /\ phase = "verify"
  /\ \E others \in {{}, LinkUrls} :
       checked' = [u \in LinkTargets(report) \cup others |->
                     [ok |-> u \notin broken \cup {Inline},
                      hops |-> IF u \in LinkUrls THEN LinkHops[u] ELSE 0]]
  /\ brokenThen' = broken
  /\ phase' = "finalize"
  /\ UNCHANGED <<previous, report, fetched, audited, crawls, site>>

-----------------------------------------------------------------------------
(* The finalizer.                                                          *)

Derived(check, urls) == {Result(check, 0, u) : u \in urls}

(* One issue per page and distinct target.                                 *)
BrokenLinkIssues(r) ==
  LET bad == {u \in Hrefs(r.artifacts) \cap DOMAIN checked : ~checked[u].ok} IN
  Derived("internal_broken", {u \in bad : u.domain = Origin})
    \cup Derived("external_broken", {u \in bad : u.domain # Origin})

BrokenImageIssues(r) ==
  Derived("image_broken", {u \in Sources(r.artifacts) \cap DOMAIN checked : ~checked[u].ok})

RedirectChainIssues(r) ==
  Derived("chain_too_long", {u \in Hrefs(r.artifacts) \cap DOMAIN checked :
                               checked[u].hops > MAX_REDIRECT_HOPS})

OwnIssues(r) == {i \in r.issues : i.check \notin DOMAIN LinkCatalog}

(* Mutant: the rows of a check are not counted.                            *)
PerCheckOnce(issues) ==
  [g \in {[check |-> i.check, severity |-> i.severity] : i \in issues} |-> 1]

(* The rows of each check and severity.                                    *)
PerCheck(issues) ==
  [g \in {[check |-> i.check, severity |-> i.severity] : i \in issues} |->
     Cardinality({i \in issues : i.check = g.check /\ i.severity = g.severity})]

(* coalesce(default_weight, 10): the checks table is the whole catalog.    *)
DefaultWeight(c) == IF c \in DOMAIN CATALOG_CHECKS THEN CATALOG_CHECKS[c].weight ELSE 10

(* The VALUES a severity is joined with, in tenths.                        *)
Multipliers == [critical |-> 10, high |-> 6, medium |-> 3, low |-> 1, info |-> 0]

SqlDeductions(issues) ==
  LET perCheck == PerCheck(issues) IN
  [g \in {h \in DOMAIN perCheck : h.severity \in DOMAIN Multipliers} |->
     DefaultWeight(g.check) * (1000 + Surcharge(perCheck[g])) * Multipliers[g.severity]]

SqlScore(issues) == Max({0, Min({FULL, FULL - SumFunction(SqlDeductions(issues))})})

(* Both updates join the issues: a page without any keeps what it had.     *)
RecomputeSnapshotScores(r, issues) ==
  IF issues = {} THEN [r EXCEPT !.issues = {}]
  ELSE [r EXCEPT !.issues = issues, !.score = SqlScore(issues),
                 !.counts = CountBySeverity(issues)]

(* A failed page has no artifacts to find links in.                        *)
Finalize ==
  /\ phase = "finalize"
  /\ LET derived == IF report.fetch = "error" THEN {}
                    ELSE BrokenLinkIssues(report) \cup BrokenImageIssues(report)
                           \cup RedirectChainIssues(report)
     IN  report' = RecomputeSnapshotScores(report, OwnIssues(report) \cup derived)
  /\ phase' = "over"
  /\ UNCHANGED <<previous, checked, fetched, audited, brokenThen, crawls, site>>

Next == Change \/ StartCrawl \/ ProcessFetch \/ CheckLinks \/ Finalize

Spec == Init /\ [][Next]_vars

-----------------------------------------------------------------------------
(* Correctness.                                                            *)

(* The variables hold what the tables may hold.                            *)
TypeOK ==
  /\ served \in Versions /\ fetched \in Versions \cup {None}
  /\ {broken, brokenThen} \subseteq SUBSET LinkUrls
  /\ phase \in {"over", "fetch", "verify", "finalize"}
  /\ \A r \in {previous, report} :
       /\ r.fetch \in {"none", "ok", "redirected", "error", "carried"}
       /\ r.score \in 0 .. FULL
       /\ \A i \in r.issues : /\ i.check \in DOMAIN CATALOG_CHECKS
                             /\ i.severity = CATALOG_CHECKS[i.check].severity
       /\ \A s \in DOMAIN r.counts : r.counts[s] \in Nat \ {0}
  /\ crawls \in 0 .. MaxCrawls /\ siteChanges \in 0 .. MaxChanges

(* A report that was carried forward, over however many crawls, finds on   *)
(* the page what an audit of the page as it was fetched would find, unless *)
(* only the response around the body has changed: the body alone decides   *)
(* whether a page is audited again (validateAndPersist).                   *)
CarriedIsCurrent ==
  phase \in {"verify", "finalize"} /\ report.fetch = "carried" /\ fetched.response = audited
    => OwnIssues(report) = RunChecks(ExtractArtifacts(fetched.doc, fetched.response))

(* The report of a page audited in this crawl names exactly the anchors    *)
(* and images that were broken when the crawl verified them.               *)
BrokenLinksReported ==
  phase = "over" /\ report.fetch \in {"ok", "redirected"}
    => {i.element : i \in {j \in report.issues :
          j.check \in {"internal_broken", "external_broken", "image_broken"}}} \ {Inline}
         = brokenThen \cap (Hrefs(report.artifacts) \cup Sources(report.artifacts))

(* The finalizer's SQL "mirrors scoring.ts exactly": what it makes of the  *)
(* issues of a page that was fetched, in this crawl or an earlier one, is  *)
(* what computePageScore would, though it groups them by severity as well, *)
(* and weighs them by another catalog.  So verified links never raise the  *)
(* score of an audited page, and leave it where they add nothing.          *)
RescoringAgrees ==
  [][phase = "finalize" /\ phase' = "over" /\ report.fetch # "error"
       => /\ report'.issues # {} => report'.score = ComputePageScore(report'.issues)
          /\ report.fetch \in {"ok", "redirected"}
               => /\ report'.score <= report.score
                  /\ report'.issues = report.issues
                       => report'.score = report.score /\ report'.counts = report.counts]_vars
=============================================================================
