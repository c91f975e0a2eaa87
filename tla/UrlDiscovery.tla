----------------------------- MODULE UrlDiscovery -----------------------------
(***************************************************************************)
(* Which URLs a crawl visits.  The orchestrator resolves the sources of a  *)
(* website, or the sitemap of a category, to seeds, registers a page for   *)
(* each and queues them; then every page that may discover queues the      *)
(* links it is the first to find.  A sitemap tree is fetched document by   *)
(* document, and any fetch may fail.  Crashes, retries and completion are  *)
(* in PagePipeline; here every job is done once, in any order.             *)
(*                                                                         *)
(* Meanwhile users edit the sources.  The file of a CSV source is in       *)
(* object storage: written before its row, removed after it, and the API   *)
(* may die in between.                                                     *)
(***************************************************************************)
EXTENDS SourceIntake

CONSTANTS
  Crawls,        \* what may be asked for: [scope, target, category, allow, block]
  Tables,        \* the url_sources rows there may be at first, newest first
  Requests,      \* sources that may be asked for: [kind, where, entries, hasColumn]
  Keys,          \* object keys
  MaxEdits,      \* bound on the edits
  Documents,     \* each sitemap's document: [kind, locs, onSite]
  Flaky,         \* sitemaps that may fail to be fetched
  Site,          \* what each address answers with: [finalUrl, links]
  MaxDepth,      \* discoveryMaxDepth
  MaxUrls,       \* discoveryMaxPages
  MaxSitemaps,   \* DEFAULT_MAX_SITEMAPS
  CHUNK          \* pages of one upsert

Kinds == {"manual", "csv", "discovery", "sitemap"}
Entries == UNION {Range(r.entries) : r \in Requests \cup UNION {Range(rows) : rows \in Tables}}

(* url_sources.                                                            *)
UrlSources == [kind : Kinds, active : BOOLEAN, where : Keys \cup DOMAIN Documents \cup {None},
               entries : Seq(Entries)]

WellFormed(row) ==
  /\ row.kind = "csv" => row.where \in Keys
  /\ row.kind = "sitemap" => row.where \in DOMAIN Documents
  /\ row.kind \in {"manual", "discovery"} => \A u \in Range(row.entries) : IsHttpUrl(u)
  /\ row.kind = "discovery" => \A u \in Range(row.entries) : SameOrigin(u)

CsvKeys(rows) == {rows[i].where : i \in {j \in DOMAIN rows : rows[j].kind = "csv"}}

(* No two rows share a file.                                               *)
ASSUME TablesAssumption ==
  \A rows \in Tables :
    /\ rows \in Seq(UrlSources) /\ \A row \in Range(rows) : WellFormed(row)
    /\ \A i, j \in DOMAIN rows :
         rows[i].kind = "csv" /\ rows[j].kind = "csv" /\ rows[i].where = rows[j].where => i = j

ASSUME RequestsAssumption ==
  /\ \A asked \in Requests :
       /\ asked.kind \in Kinds /\ asked.entries \in Seq(Entries)
       /\ asked.where \in DOMAIN Documents \cup {None}
       /\ asked.kind = "sitemap" => asked.where \in DOMAIN Documents
  /\ \A asked \in Crawls :
       /\ asked.scope \in {"page", "group", "website"}
       /\ asked.scope = "group" => /\ asked.category.sitemap \in DOMAIN Documents \cup {None}
                                  /\ asked.category.maxUrls \in Nat

ASSUME BoundsAssumption ==
  MaxEdits \in Nat /\ MaxDepth \in Nat /\ MaxUrls \in Nat /\ MaxSitemaps \in Nat

(* Every sitemap that is listed has a document.                            *)
ASSUME DocumentsAssumption ==
  \A sitemap \in DOMAIN Documents :
    LET document == Documents[sitemap] IN
    /\ document.locs \in Seq(Range(document.locs))
    /\ document.kind = "index" => Range(document.locs) \subseteq DOMAIN Documents \cup {None}

(* Every address that is written in a source, a sitemap, a request or a    *)
(* link.                                                                   *)
Raws ==
  (Entries \ {Blank}) \cup {Origin} \cup {asked.target : asked \in Crawls}
    \cup (UNION {Range(Documents[s].locs) : s \in {t \in DOMAIN Documents : Documents[t].kind = "urlset"}})
    \cup (UNION {Site[url].links : url \in DOMAIN Site})

(* Each of them parses, and leads to an address that answers.              *)
ASSUME SiteAssumption ==
  /\ \A raw \in Raws \ {None} :
       /\ DOMAIN raw = {"secure", "host", "port", "path", "query", "fragment"}
       /\ raw.path \in Seq(Range(raw.path)) /\ raw.query \in Seq(Range(raw.query))
       /\ \A param \in Range(raw.query) : param.key \in Nat
       /\ NormalizeUrl(raw) \in DOMAIN Site
  /\ \A url \in DOMAIN Site : IsFiniteSet(Site[url].links)

VARIABLES
  table,     \* url_sources, newest first
  files,     \* object keys that are stored
  request,   \* what an API request that touches both has left to do, or None
  edits,     \* how many edits there were
  crawl,     \* the crawl, and the website's settings, or None
  phase,     \* "idle", "resolving", "orchestrating", "running", "completed", "failed"
  sources,   \* sources still to resolve
  walk,      \* the sitemap tree being fetched, or None
  seeds,     \* resolved seeds: [url, allowDiscovery]
  pages,     \* URLs registered
  seen,      \* hashes marked as seen
  total,     \* the crawl's total
  jobs,      \* page-fetch jobs: [url, depth, discover]
  processed, \* those that are done
  walked     \* history: the last sitemap tree that was fetched

vars == <<table, files, request, edits, crawl, phase, sources, walk, seeds, pages, seen,
          total, jobs, processed, walked>>

resolution == <<sources, walk, walked>>
frontier == <<pages, seen, total, jobs, processed>>
configured == <<table, files, request, edits>>

Init ==
  /\ table \in Tables
  /\ files = CsvKeys(table)
  /\ request = None /\ edits = 0
  /\ crawl = None
  /\ phase = "idle"
  /\ sources = <<>>
  /\ walk = None /\ walked = None
  /\ seeds = <<>>
  /\ pages = {} /\ seen = {} /\ total = 0 /\ jobs = {} /\ processed = {}

-----------------------------------------------------------------------------
(* Editing the sources.  Later edits, and those of other crawls, cannot be *)
(* told from none.                                                         *)

Edit ==
  /\ edits < MaxEdits /\ edits' = edits + 1
  /\ phase = "idle" \/ (phase = "resolving" /\ crawl.scope = "website")
  /\ UNCHANGED <<crawl, phase, seeds, resolution, frontier>>

CreateSource ==
  /\ Edit
  /\ \E asked \in {r \in Requests : r.kind # "csv" /\ Acceptable(r)} :
       table' = <<SourceRow(asked, asked.where)>> \o table
  /\ UNCHANGED <<files, request>>

(* Mutant: the row is there before its file.                               *)
ListBeforeUpload ==
  /\ request = None /\ Edit
  /\ \E asked \in {r \in Requests : r.kind = "csv" /\ Acceptable(r)},
        key \in Keys \ (files \cup CsvKeys(sources)) :
       /\ table' = <<SourceRow(asked, key)>> \o table
       /\ UNCHANGED <<files, request>>

(* createFromCsv, under a key of its own: first the object.                *)
UploadCsv ==
  /\ request = None /\ Edit
  /\ \E asked \in {r \in Requests : r.kind = "csv" /\ Acceptable(r)},
        key \in Keys \ (files \cup CsvKeys(sources)) :
       /\ files' = files \cup {key}
       /\ request' = [step |-> "insert", source |-> SourceRow(asked, key)]
  /\ UNCHANGED table

Proceed(step) ==
  /\ request # None /\ request.step = step /\ request' = None
  /\ UNCHANGED <<edits, crawl, phase, seeds, resolution, frontier>>

InsertCsvSource ==
  /\ Proceed("insert")
  /\ table' = <<request.source>> \o table
  /\ UNCHANGED files

SetActive ==
  /\ Edit
  /\ \E i \in DOMAIN table : table' = [table EXCEPT ![i].active = ~@]
  /\ UNCHANGED <<files, request>>

DeleteSource ==
  /\ request = None /\ Edit
  /\ \E i \in DOMAIN table :
       /\ table' = RemoveAt(table, i)
       /\ request' = IF table[i].kind = "csv" THEN [step |-> "unlink", source |-> table[i]] ELSE None
  /\ UNCHANGED files

(* deleteObjectSafe: a failure is ignored.                                 *)
DeleteObject ==
  /\ Proceed("unlink")
  /\ files' \in {files, files \ {request.source.where}}
  /\ UNCHANGED table

(* The API dies between the two writes.                                    *)
LoseRequest ==
  /\ request # None /\ request' = None
  /\ UNCHANGED <<table, files, edits, crawl, phase, seeds, resolution, frontier>>

EditSources ==
  \/ CreateSource \/ UploadCsv \/ InsertCsvSource \/ SetActive
  \/ DeleteSource \/ DeleteObject \/ LoseRequest

-----------------------------------------------------------------------------
(* Starting a crawl.                                                       *)

(* A target must be on the website, as must the sitemap of a category;     *)
(* that of None has yet to be set.                                         *)
MayStart(asked) ==
  /\ asked.scope = "page" => ResolvePageTarget(asked.target)
  /\ asked.scope = "group" /\ asked.category.sitemap # None
       => Documents[asked.category.sitemap].onSite

Active(rows) == Present([i \in DOMAIN rows |-> IF rows[i].active THEN rows[i] ELSE None])

(* The orchestrate job reads what it is to resolve: the active sources, or *)
(* the category's sitemap.  Edits matter to crawls of the website only, so *)
(* the others are started before any.                                      *)
StartCrawl ==
  /\ phase = "idle"
  /\ \E asked \in Crawls :
       /\ MayStart(asked)
       /\ asked.scope = "website" \/ edits = 0
       /\ crawl' = asked
       /\ sources' = CASE asked.scope = "page" -> <<>>
                       [] asked.scope = "group" ->
                            IF asked.category.sitemap = None THEN <<>>
                            ELSE <<[kind |-> "sitemap", active |-> TRUE, entries |-> <<>>,
                                    where |-> asked.category.sitemap]>>
                       [] asked.scope = "website" -> Active(table)
  /\ phase' = "resolving"
  /\ UNCHANGED <<configured, walk, walked, seeds, frontier>>

-----------------------------------------------------------------------------
(* Resolution.                                                             *)

Seed(url, allowDiscovery) == [url |-> url, allowDiscovery |-> allowDiscovery]

SeedsOf(raws, allowDiscovery) ==
  LET urls == NormalizeAll(raws) IN [i \in DOMAIN urls |-> Seed(urls[i], allowDiscovery)]

(* Mutant: what a source lists is appended.                                *)
MergedAppending(known, found) == known \o found

(* One seed for each URL, where it was found first; any that permits       *)
(* discovery makes it do so.                                               *)
AddSeed(known, seed) ==
  IF seed.url \notin {known[i].url : i \in DOMAIN known} THEN Append(known, seed)
  ELSE [i \in DOMAIN known |->
          IF known[i].url = seed.url
          THEN Seed(seed.url, known[i].allowDiscovery \/ seed.allowDiscovery) ELSE known[i]]

Merged(known, found) == FoldLeft(AddSeed, known, found)

(* A manual list, a CSV file or discovery seeds; a file that is gone or    *)
(* cannot be read costs its source only.                                   *)
ResolveList ==
  /\ phase = "resolving" /\ walk = None /\ sources # <<>>
  /\ LET source == Head(sources) IN
     \/ /\ source.kind \in {"manual", "discovery"}
        /\ seeds' = Merged(seeds, SeedsOf(source.entries, source.kind = "discovery"))
     \/ /\ source.kind = "csv" /\ source.where \in files
        /\ seeds' = Merged(seeds, SeedsOf(ReadCsvUrls(source), FALSE))
     \/ source.kind = "csv" /\ UNCHANGED seeds
  /\ sources' = Tail(sources)
  /\ UNCHANGED <<configured, crawl, phase, walk, walked, frontier>>

(* fetchSitemapTree, with the documents it has yet to walk in order.  A    *)
(* category may have a bound of its own.                                   *)
StartWalk ==
  /\ phase = "resolving" /\ walk = None /\ sources # <<>>
  /\ Head(sources).kind = "sitemap"
  /\ walk' = [root |-> Head(sources).where, agenda |-> <<Head(sources).where>>,
              visited |-> {}, failed |-> {}, entries |-> <<>>, truncated |-> FALSE,
              maxUrls |-> IF crawl.scope = "group" THEN crawl.category.maxUrls ELSE MaxUrls]
  /\ UNCHANGED <<configured, crawl, phase, sources, walked, seeds, frontier>>

HttpLocs(document) == Present(document.locs)

(* Mutant: the bound is looked at too late.                                *)
AddEntryLate(w, loc) ==
  IF w.truncated \/ Contains(w.entries, loc) THEN w
  ELSE IF Len(w.entries) > w.maxUrls THEN [w EXCEPT !.truncated = TRUE]
  ELSE [w EXCEPT !.entries = Append(w.entries, loc)]

(* addEntry.  A loop that meets the bound stops there.                     *)
AddEntry(w, loc) ==
  IF w.truncated \/ Contains(w.entries, loc) THEN w
  ELSE IF Len(w.entries) >= w.maxUrls THEN [w EXCEPT !.truncated = TRUE]
  ELSE [w EXCEPT !.entries = Append(w.entries, loc)]

(* Mutant: a sitemap that could not be read is tried again.                *)
ExpandedRetrying(w, sitemap, document) ==
  CASE document.kind = "index" -> [w EXCEPT !.agenda = HttpLocs(document) \o w.agenda]
    [] document.kind = "urlset" -> FoldLeft(AddEntry, w, HttpLocs(document))
    [] OTHER -> [w EXCEPT !.agenda = <<sitemap>> \o w.agenda, !.visited = w.visited \ {sitemap}]

(* What walk makes of a document once it has it, or has failed to.         *)
Expanded(w, sitemap, document) ==
  CASE document.kind = "index" -> [w EXCEPT !.agenda = HttpLocs(document) \o w.agenda]
    [] document.kind = "urlset" -> FoldLeft(AddEntry, w, HttpLocs(document))
    [] OTHER -> [w EXCEPT !.failed = w.failed \cup {sitemap}]

(* Mutant: the bound is looked at before it is asked whether there is      *)
(* anything new.                                                           *)
VisitBoundFirst(w, sitemap, document) ==
  IF w.truncated THEN w
  ELSE IF Cardinality(w.visited) >= MaxSitemaps THEN [w EXCEPT !.truncated = TRUE]
  ELSE IF sitemap \in w.visited THEN w
  ELSE Expanded([w EXCEPT !.visited = w.visited \cup {sitemap}], sitemap, document)

Visit(w, sitemap, document) ==
  IF w.truncated \/ sitemap \in w.visited THEN w
  ELSE IF Cardinality(w.visited) >= MaxSitemaps THEN [w EXCEPT !.truncated = TRUE]
  ELSE Expanded([w EXCEPT !.visited = w.visited \cup {sitemap}], sitemap, document)

Unreachable == [kind |-> "error", locs |-> <<>>]

WalkSitemap ==
  /\ walk # None /\ walk.agenda # <<>>
  /\ LET sitemap == Head(walk.agenda) IN
     \E document \in {Documents[sitemap]} \cup (IF sitemap \in Flaky THEN {Unreachable} ELSE {}) :
       walk' = Visit([walk EXCEPT !.agenda = Tail(walk.agenda)], sitemap, document)
  /\ UNCHANGED <<configured, crawl, phase, sources, walked, seeds, frontier>>

(* A website's sources are merged; a category's entries are taken as they  *)
(* are.                                                                    *)
EndWalk ==
  /\ walk # None /\ walk.agenda = <<>>
  /\ LET found == SeedsOf(walk.entries, FALSE) IN
     seeds' = IF crawl.scope = "group" THEN found ELSE Merged(seeds, found)
  /\ walk' = None /\ walked' = walk
  /\ sources' = Tail(sources)
  /\ UNCHANGED <<configured, crawl, phase, frontier>>

(* A page's only target, or the homepage when the sources give nothing.    *)
Resolved ==
  /\ phase = "resolving" /\ walk = None /\ sources = <<>>
  /\ LET found == CASE crawl.scope = "page" -> SeedsOf(<<crawl.target>>, FALSE)
                    [] crawl.scope = "website" /\ seeds = <<>> -> SeedsOf(<<Origin>>, TRUE)
                    [] OTHER -> seeds
     IN  /\ seeds' = found
         /\ phase' = CASE found # <<>> -> "orchestrating"
                       [] found = <<>> /\ (\/ crawl.scope = "page"
                                           \/ crawl.scope = "group" /\ crawl.category.sitemap = None) -> "failed"
                       [] OTHER -> "completed"
  /\ UNCHANGED <<configured, crawl, resolution, frontier>>

-----------------------------------------------------------------------------
(* Registration.                                                           *)

SeedUrls == {seeds[i].url : i \in DOMAIN seeds}

(* upsertMany: one statement cannot touch a row twice.                     *)
ChunkFails(urls) ==
  \E i, j \in DOMAIN urls : i < j /\ urls[i] = urls[j] /\ (i - 1) \div CHUNK = (j - 1) \div CHUNK

(* Job ids name the page: a second job for it is not added.                *)
Orchestrate ==
  /\ phase = "orchestrating"
  /\ IF ChunkFails([i \in DOMAIN seeds |-> seeds[i].url])
     THEN phase' = "failed" /\ UNCHANGED frontier
     ELSE /\ phase' = "running"
          /\ pages' = SeedUrls /\ seen' = SeedUrls
          /\ total' = Len(seeds)
          /\ jobs' = {[url |-> u, depth |-> 0,
                       discover |-> seeds[Min({i \in DOMAIN seeds : seeds[i].url = u})].allowDiscovery] :
                        u \in SeedUrls}
          /\ UNCHANGED processed
  /\ UNCHANGED <<configured, crawl, seeds, resolution>>

-----------------------------------------------------------------------------
(* Discovery.                                                              *)

Filter(url) == [origin |-> url, pathScope |-> <<"/">>, allow |-> crawl.allow, block |-> crawl.block]

(* Mutant: a link is compared with the page that answered only.            *)
InternalByAnswer(link, job, page) == Internal(link, page) /\ IsAllowed(Filter(page), link)

(* Internal to the page that answered and in scope for the address asked.  *)
InternalLink(link, job, page) == Internal(link, page) /\ Classify(Filter(job.url), link) = "in_scope"

MayExpand(job) == job.discover /\ job.depth < MaxDepth

(* A page is done; the links it marks first become pages and jobs.         *)
ProcessPage ==
  /\ phase = "running"
  /\ \E job \in jobs \ processed :
       LET page == Site[job.url]
           urls == {NormalizeUrl(l) : l \in {m \in page.links \ {None} :
                                               InternalLink(m, job, page.finalUrl)}}
           fresh == IF MayExpand(job) THEN urls \ seen ELSE {}
       IN  /\ seen' = seen \cup fresh
           /\ pages' = pages \cup fresh
           /\ total' = total + Cardinality(fresh)
           /\ jobs' = jobs \cup {[url |-> u, depth |-> job.depth + 1, discover |-> TRUE] : u \in fresh}
           /\ processed' = processed \cup {job}
  /\ UNCHANGED <<configured, crawl, phase, seeds, resolution>>

Progress ==
  ResolveList \/ StartWalk \/ WalkSitemap \/ EndWalk \/ Resolved \/ Orchestrate \/ ProcessPage

Next == EditSources \/ StartCrawl \/ Progress

(* The orchestrate job and the page jobs are run by workers that go on;    *)
(* nobody need edit or start anything.                                     *)
Spec == Init /\ [][Next]_vars /\ WF_vars(Progress)

-----------------------------------------------------------------------------
(* Correctness.                                                            *)

JobUrls == {j.url : j \in jobs}

(* The variables hold what the code may put there, bounds included.        *)
TypeOK ==
  /\ IF phase = "idle" THEN crawl = None ELSE crawl \in Crawls /\ MayStart(crawl)
  /\ phase \in {"idle", "resolving", "orchestrating", "running", "completed", "failed"}
  /\ \A i \in DOMAIN table : table[i].active \in BOOLEAN
  /\ files \subseteq Keys /\ edits \in 0 .. MaxEdits
  /\ request # None => request.step \in {"insert", "unlink"} /\ request.source.kind = "csv"
  /\ \A i \in DOMAIN sources : sources[i].active
  /\ \A i \in DOMAIN seeds : seeds[i].url # None /\ seeds[i].allowDiscovery \in BOOLEAN
  /\ \A w \in {walk, walked} \ {None} :
       /\ w.visited \subseteq DOMAIN Documents /\ Cardinality(w.visited) <= MaxSitemaps
       /\ w.failed \subseteq w.visited
       /\ Len(w.entries) <= w.maxUrls /\ IsInjective(w.entries)
  /\ processed \subseteq jobs /\ total \in Nat

(* The port that is connected to.                                          *)
Port(url) == IF url.port = DEFAULT_PORT THEN (IF url.secure THEN 443 ELSE 80) ELSE url.port

(* Where each character of a path stands, one slash for several.           *)
Plain(path) ==
  LET p == NormalizePercentEncoding(path)
      kept == {i \in DOMAIN p : i = 1 \/ <<p[i - 1], p[i]>> # <<"/", "/">>}
  IN  {<<Cardinality({j \in kept : j <= i}), p[i]>> : i \in kept}

(* The same parameters, the values of each key in the same order.          *)
SameQuery(s, t) ==
  /\ Len(s) = Len(t)
  /\ \E place \in [DOMAIN s -> DOMAIN t] :
       /\ \A i \in DOMAIN s : t[place[i]] = s[i]
       /\ \A i, j \in DOMAIN s :
            i < j => place[i] # place[j] /\ (s[i].key = s[j].key => place[i] < place[j])

(* Two addresses of one document: they differ in nothing, or in what a     *)
(* server does not tell apart.                                             *)
SameAddress(u, v) ==
  /\ u.secure = v.secure /\ u.host = v.host /\ Port(u) = Port(v)
  /\ Plain(u.path) = Plain(v.path) /\ SameQuery(u.query, v.query)

(* A document is crawled as one page however many ways its address is      *)
(* written in sources, sitemaps and links.                                 *)
OnePagePerAddress == \A u, v \in pages : u # v => ~SameAddress(u, v)

(* Discovery stays on the website's registrable domain and within the      *)
(* depth limit, whatever is entered as a source and whatever pages link or *)
(* redirect to; a crawl of a page stays on the website; and without seeds  *)
(* that permit it nothing but the seeds is crawled.                        *)
StaysOnSite ==
  \A j \in jobs : \/ /\ j.depth = 0 /\ j.url \in SeedUrls
                     /\ crawl.scope = "page" => SameOrigin(j.url)
                  \/ /\ j.depth \in 1 .. MaxDepth
                     /\ \E i \in DOMAIN seeds : seeds[i].allowDiscovery
                     /\ RegistrableDomain(j.url.host) = RegistrableDomain(Origin.host)

(* The file of a CSV source is stored for as long as the source is listed, *)
(* wherever a request that uploads or deletes one ends; what is left over  *)
(* is a file without a row, never a row without its file.                  *)
ListedFilesStored == CsvKeys(table) \subseteq files

(* The index documents of a tree that could be read.                       *)
Indexes(w) == {s \in w.visited \ w.failed : Documents[s].kind = "index"}
Listed(w, kind) == UNION {Range(HttpLocs(Documents[s])) : s \in {t \in w.visited \ w.failed :
                                                                  Documents[t].kind = kind}}

(* A tree's entries are the addresses listed by every sitemap its indexes  *)
(* lead to, cycles and failures included; `truncated' is set exactly when  *)
(* a bound has left something out, never when it was merely reached.       *)
SitemapExact ==
  walked # None =>
    LET known == {walked.root} \cup Listed(walked, "index")
        listed == Listed(walked, "urlset")
    IN  /\ walked.visited \subseteq known /\ Range(walked.entries) \subseteq listed
        /\ walked.truncated <=> (known # walked.visited \/ listed # Range(walked.entries))

(* A running crawl's total is the number of its page jobs: a seed counted  *)
(* twice would be waited for forever.  A category whose entries coincide   *)
(* once they are normalized is the exception.                              *)
TotalMatchesJobs ==
  phase = "running" /\ (crawl.scope = "group" => Cardinality(SeedUrls) = Len(seeds))
    => total = Cardinality(JobUrls) /\ Cardinality(JobUrls) = Cardinality(jobs)

(* A crawl comes to an end, though sitemaps and pages link in circles and  *)
(* sources go away while they are read.                                    *)
DiscoveryEnds ==
  phase = "resolving"
    ~> [](phase \in {"completed", "failed"} \/ (phase = "running" /\ processed = jobs))
=============================================================================
