------------------------------- MODULE FetchPath -------------------------------
(***************************************************************************)
(* How a page or a link target gets its answer: the politeness window, the *)
(* fetch with its redirects, the handover to the render queue and the      *)
(* browser pool, one step per await.  The jobs of one process interleave;  *)
(* the process may die and its jobs are delivered again.  What becomes of  *)
(* an answer, and how a job is counted, is in PageAudit and PagePipeline.  *)
(***************************************************************************)
EXTENDS SafeFetcher, FiniteSetsExt

CONSTANTS
  Pages, Links,   \* the jobs: a page each, a link target each
  Target,         \* the URL of each job
  Parsed,         \* what new URL() makes of each URL
  Hinted,         \* pages the previous crawl has a snapshot of
  Serves,         \* for each URL, the responses its server may give
  Lookups,        \* for each host name, the records a lookup may give
  Settings,       \* the website's settings, one of several
  Defaults,       \* the process's own: userAgent, rate
  RecycleAfter,   \* pages a browser renders
  MAX_BODY,
  MaxDeaths       \* bound: deaths of the process

Jobs == Pages \cup Links

RecordsOf(url) == IF url = None \/ IsLiteral(url) THEN {<<>>} ELSE Lookups[url.host]

(* Every URL that is asked for is known, and what a lookup or a literal    *)
(* gives is an address.                                                    *)
ASSUME UrlsAssumption ==
  /\ Target \in [Jobs -> DOMAIN Parsed]
  /\ \A url \in DOMAIN Parsed : \A records \in RecordsOf(Parsed[url]) : records \in Seq(Address)
  /\ \A url \in DOMAIN Parsed : Parsed[url] # None /\ IsLiteral(Parsed[url])
                                  => Parsed[url].host.address \in Address

ASSUME ServesAssumption ==
  \A url \in DOMAIN Parsed : \A response \in Serves[url] :
    response.status \in Nat /\ response.location \in DOMAIN Parsed \cup {None}

VARIABLES
  pc,       \* of the job: "queued", "guard", "send", "body", "browser", "closing", "launching",
            \* "rendering", "done"
  stage,    \* "fetch", "render" of a page, "check" of a link target
  request,  \* of the job: [url, method, hops]
  pinned,   \* the vetted address a job's request connects to
  reply,    \* the response a body is read of
  answer,   \* FetchResult
  outcome,  \* what became of the job
  window,   \* requests let through this second, by domain
  stored,   \* crawl:config in Redis
  pool,     \* [browser, rendered]: the pool's own browser
  up,       \* browsers that run
  browser,  \* the browser a job closes or renders in
  deaths

vars == <<pc, stage, request, pinned, reply, answer, outcome, window, stored, pool, up, browser,
          deaths>>

fetch == <<request, pinned, reply, answer>>
pools == <<pool, up, browser>>

NoRequest == [url |-> None, method |-> "GET", hops |-> 0]
Domains == {Parsed[Target[j]].host.domain : j \in Jobs}
NoWindow == [d \in Domains |-> 0]

FirstStage == [j \in Jobs |-> IF j \in Pages THEN "fetch" ELSE "check"]

Init ==
  /\ pc = [j \in Jobs |-> "queued"]
  /\ stage = FirstStage
  /\ request = [j \in Jobs |-> NoRequest]
  /\ pinned = [j \in Jobs |-> None] /\ reply = [j \in Jobs |-> None]
  /\ answer = [j \in Jobs |-> None] /\ outcome = [j \in Jobs |-> None]
  /\ window = NoWindow
  /\ \E settings \in Settings : stored = ResolveCrawlConfig(settings, Defaults)
  /\ pool = [browser |-> 0, rendered |-> 0]
  /\ up = {} /\ browser = [j \in Jobs |-> 0]
  /\ deaths = 0

Config == DeserializeConfig(stored, Defaults)

(* crawl:config expires, or Redis loses it.                                *)
ForgetConfig ==
  /\ stored # None
  /\ stored' = None
  /\ UNCHANGED <<pc, stage, fetch, outcome, window, pools, deaths>>

-----------------------------------------------------------------------------
(* PolitenessService.                                                      *)

Begin(j, method) == request' = [request EXCEPT ![j] = [url |-> Target[j], method |-> method, hops |-> 0]]

(* Refused requests count too, once past the cap they make no difference.  *)
Incr(domain) ==
  window' = [window EXCEPT ![domain] = Min({@ + 1, Config.rate \div 10 + 1})]

Allowed(domain) == (window[domain] + 1) * 10 <= Config.rate

(* processFetch: a page that is refused goes back to its queue.            *)
GatePoliteness(j) ==
  /\ pc[j] = "queued" /\ stage[j] = "fetch"
  /\ Incr(Parsed[Target[j]].host.domain)
  /\ IF Allowed(Parsed[Target[j]].host.domain)
     THEN Begin(j, "GET") /\ pc' = [pc EXCEPT ![j] = "guard"]
     ELSE UNCHANGED <<request, pc>>
  /\ UNCHANGED <<stage, pinned, reply, answer, outcome, stored, pools, deaths>>

(* A link target counts and does not wait.                                 *)
StartLinkCheck(j) ==
  /\ pc[j] = "queued" /\ stage[j] = "check"
  /\ Incr(Parsed[Target[j]].host.domain)
  /\ Begin(j, "HEAD")
  /\ pc' = [pc EXCEPT ![j] = "guard"]
  /\ UNCHANGED <<stage, pinned, reply, answer, outcome, stored, pools, deaths>>

(* A page for the browser is fetched again, and asks nobody.               *)
StartRender(j) ==
  /\ pc[j] = "queued" /\ stage[j] = "render"
  /\ Begin(j, "GET")
  /\ pc' = [pc EXCEPT ![j] = "guard"]
  /\ UNCHANGED <<stage, pinned, reply, answer, outcome, window, stored, pools, deaths>>

(* Mutant: the counter's name does not hold the second, and a death before *)
(* PEXPIRE leaves it for good.                                             *)
NextWindowKept ==
  /\ window # NoWindow /\ deaths = 0
  /\ window' = NoWindow
  /\ UNCHANGED <<pc, stage, fetch, outcome, stored, pools, deaths>>

(* The next second has counters of its own, whether or not the last ones   *)
(* were given an expiry.                                                   *)
NextWindow ==
  /\ window # NoWindow
  /\ window' = NoWindow
  /\ UNCHANGED <<pc, stage, fetch, outcome, stored, pools, deaths>>

-----------------------------------------------------------------------------
(* What each job makes of a FetchResult.  An empty body is a body here.    *)

Settled(j, result) == pc' = [pc EXCEPT ![j] = "done"] /\ outcome' = [outcome EXCEPT ![j] = result]

ProcessFetch(j, result) ==
  /\ stage[j] = "fetch"
  /\ LET bad == result.error \/ ~result.body \/ result.status >= 400
         carried == result.notModified /\ j \in Hinted
         render == Config.renderPolicy = "always" \/ (Config.renderPolicy = "auto" /\ result.shell)
     IN  \/ carried /\ Settled(j, "unchanged") /\ UNCHANGED stage
         \/ ~carried /\ bad /\ Settled(j, "failed") /\ UNCHANGED stage
         \/ /\ ~carried /\ ~bad /\ render
            /\ stage' = [stage EXCEPT ![j] = "render"]
            /\ pc' = [pc EXCEPT ![j] = "queued"]
            /\ UNCHANGED outcome
         \/ ~carried /\ ~bad /\ ~render /\ Settled(j, "audited") /\ UNCHANGED stage

(* PageRenderProcessor: without a body there is nothing to render.         *)
ProcessRender(j, result) ==
  /\ stage[j] = "render"
  /\ UNCHANGED stage
  /\ IF result.error \/ ~result.body THEN Settled(j, "failed")
     ELSE pc' = [pc EXCEPT ![j] = "browser"] /\ UNCHANGED outcome

RefusesHead(j, result) ==
  /\ stage[j] = "check" /\ request[j].method = "HEAD"
  /\ result.error \/ result.status \in {405, 501}

(* LinkCheckProcessor: a server that refuses HEAD is asked with GET.       *)
CheckLink(j, result) ==
  /\ stage[j] = "check" /\ UNCHANGED stage
  /\ IF RefusesHead(j, result)
     THEN pc' = [pc EXCEPT ![j] = "guard"] /\ UNCHANGED outcome
     ELSE Settled(j, IF result.ok \/ result.status \in 200..399 THEN "ok" ELSE "broken")

Finish(j, result) ==
  /\ answer' = IF j \in Pages THEN [answer EXCEPT ![j] = result] ELSE answer
  /\ pinned' = [pinned EXCEPT ![j] = None] /\ reply' = [reply EXCEPT ![j] = None]
  /\ (ProcessFetch(j, result) \/ ProcessRender(j, result) \/ CheckLink(j, result))
  /\ IF RefusesHead(j, result) THEN Begin(j, "GET")
     ELSE request' = [request EXCEPT ![j] = NoRequest]
  /\ UNCHANGED <<window, stored, pools, deaths>>

Fail(j) == Finish(j, Failure)

-----------------------------------------------------------------------------
(* SafeFetcher.fetch.                                                      *)

(* A lookup takes as long as it takes: the deadline is looked at after it. *)
GuardRequest(j) ==
  /\ pc[j] = "guard"
  /\ \E records \in RecordsOf(Parsed[request[j].url]) :
       LET guard == Guard(Parsed[request[j].url], records) IN
       \/ Fail(j)   \* refused, or too late
       \/ /\ guard.code = None
          /\ pinned' = [pinned EXCEPT ![j] = guard.address]
          /\ pc' = [pc EXCEPT ![j] = "send"]
          /\ UNCHANGED <<stage, request, reply, answer, outcome, window, stored, pools, deaths>>

Redirected(j, response) ==
  LET hops == request[j].hops + 1 IN
  IF hops > Config.maxRedirects THEN Fail(j)
  ELSE IF response.location = None THEN Fail(j)
  ELSE /\ request' = [request EXCEPT ![j] =
                        [url |-> response.location, hops |-> hops,
                         method |-> NextMethod(request[j].method, response.status)]]
       /\ pinned' = [pinned EXCEPT ![j] = None]
       /\ pc' = [pc EXCEPT ![j] = "guard"]
       /\ UNCHANGED <<stage, reply, answer, outcome, window, stored, pools, deaths>>

Respond(j) ==
  /\ pc[j] = "send"
  /\ \E response \in Serves[request[j].url] :
       IF IsRedirect(response) THEN Redirected(j, response)
       ELSE IF SkipBody(request[j].method, response)
       THEN Finish(j, Answer(response, FALSE))
       ELSE /\ reply' = [reply EXCEPT ![j] = response]
            /\ pc' = [pc EXCEPT ![j] = "body"]
            /\ UNCHANGED <<stage, request, pinned, answer, outcome, window, stored, pools, deaths>>

(* The limit is on what is decoded.                                        *)
ReadBody(j) ==
  /\ pc[j] = "body"
  /\ LET response == reply[j] IN
     CASE BodySize(response) > MAX_BODY -> Fail(j)
       [] BodySize(response) <= MAX_BODY /\ CorruptBody(response) -> Fail(j)
       [] OTHER -> Finish(j, Answer(response, TRUE))

(* The first of the response, a socket error and the timer settles it.     *)
BreakOff(j) ==
  /\ pc[j] \in {"send", "body"}
  /\ Fail(j)

-----------------------------------------------------------------------------
(* BrowserPoolService.                                                     *)

(* processRendered.  What a browser serializes is never empty.             *)
Audit(j, empty) ==
  Settled(j, IF empty \/ answer[j].status >= 400 THEN "failed" ELSE "audited")

GetBrowser(j) ==
  /\ pc[j] = "browser"
  /\ LET usable == pool.browser \in up /\ pool.rendered < RecycleAfter IN
     \/ usable /\ pc' = [pc EXCEPT ![j] = "rendering"] /\ browser' = [browser EXCEPT ![j] = pool.browser]
     \/ /\ ~usable /\ pool.browser # 0
        /\ pc' = [pc EXCEPT ![j] = "closing"] /\ browser' = [browser EXCEPT ![j] = pool.browser]
     \/ /\ ~usable /\ pool.browser = 0
        /\ pc' = [pc EXCEPT ![j] = "launching"] /\ UNCHANGED browser
  /\ UNCHANGED <<stage, fetch, outcome, window, stored, pool, up, deaths>>

Close(j) ==
  /\ pc[j] = "closing"
  /\ up' = up \ {browser[j]}
  /\ pool' = [pool EXCEPT !.rendered = 0]
  /\ pc' = [pc EXCEPT ![j] = "launching"]
  /\ UNCHANGED <<stage, fetch, outcome, window, stored, browser, deaths>>

Fresh == CHOOSE b \in 1..Cardinality(Jobs) * 2 + 1 :
           b \notin up \cup {pool.browser} \cup {browser[k] : k \in Jobs}

(* The last to be launched is the pool's.                                  *)
Launch(j) ==
  /\ pc[j] = "launching"
  /\ up' = up \cup {Fresh}
  /\ pool' = [pool EXCEPT !.browser = Fresh]
  /\ browser' = [browser EXCEPT ![j] = Fresh]
  /\ pc' = [pc EXCEPT ![j] = "rendering"]
  /\ UNCHANGED <<stage, fetch, outcome, window, stored, deaths>>

Render(j) ==
  /\ pc[j] = "rendering" /\ browser[j] \in up
  /\ pool' = [pool EXCEPT !.rendered = Min({@ + 1, RecycleAfter})]
  /\ browser' = [browser EXCEPT ![j] = 0]
  /\ Audit(j, FALSE)
  /\ UNCHANGED <<stage, fetch, window, stored, up, deaths>>

(* Mutant: a page the browser cannot render has failed.                    *)
RenderFailsHard(j) ==
  /\ pc[j] \in {"launching", "rendering"}
  /\ browser' = [browser EXCEPT ![j] = 0]
  /\ Settled(j, "failed")
  /\ UNCHANGED <<stage, fetch, window, stored, pool, up, deaths>>

(* The launch fails, the page times out, or another job closed the         *)
(* browser: the page as it was served is audited.                          *)
RenderFails(j) ==
  /\ pc[j] \in {"launching", "rendering"}
  /\ browser' = [browser EXCEPT ![j] = 0]
  /\ Audit(j, answer[j].empty)
  /\ UNCHANGED <<stage, fetch, window, stored, pool, up, deaths>>

CrashBrowser ==
  /\ \E b \in up : up' = up \ {b}
  /\ UNCHANGED <<pc, stage, fetch, outcome, window, stored, pool, browser, deaths>>

(* The jobs of the process are delivered again, from the start of their    *)
(* own queue; a request let through stays counted.                         *)
Die ==
  /\ deaths < MaxDeaths
  /\ deaths' = deaths + 1
  /\ pc' = [j \in Jobs |-> IF pc[j] = "done" THEN "done" ELSE "queued"]
  /\ request' = [j \in Jobs |-> NoRequest]
  /\ pinned' = [j \in Jobs |-> None] /\ reply' = [j \in Jobs |-> None]
  /\ answer' = [j \in Jobs |-> IF pc[j] = "done" THEN answer[j] ELSE None]
  /\ pool' = [browser |-> 0, rendered |-> 0] /\ up' = {}
  /\ browser' = [j \in Jobs |-> 0]
  /\ UNCHANGED <<stage, outcome, window, stored>>

Step(j) ==
  \/ GatePoliteness(j) \/ StartLinkCheck(j) \/ StartRender(j)
  \/ GuardRequest(j) \/ Respond(j) \/ ReadBody(j) \/ BreakOff(j)
  \/ GetBrowser(j) \/ Close(j) \/ Launch(j) \/ Render(j) \/ RenderFails(j)

Work == \E j \in Jobs : Step(j)

Next ==
  \/ Work
  \/ NextWindow
  \/ ForgetConfig
  \/ CrashBrowser
  \/ Die

(* Every await settles: a request by its timer, a render by its timeout,   *)
(* so a process with jobs works at one of them; and time passes.           *)
Spec == Init /\ [][Next]_vars /\ WF_vars(Work) /\ WF_vars(NextWindow)

-----------------------------------------------------------------------------
(* Properties.                                                             *)

(* The special-purpose blocks of IPv4: the first 16 bits, and how many of  *)
(* their values the block spans.                                           *)
RESERVED == {<<0, 256>>, <<2560, 256>>, <<25664, 64>>, <<32512, 256>>, <<43518, 1>>,
             <<44048, 16>>, <<49320, 1>>, <<50706, 2>>, <<57344, 8192>>}

Reserved4(o) ==
  \E block \in RESERVED : o[1] * 256 + o[2] \in block[1] .. block[1] + block[2] - 1

(* Loopback, unspecified, unique local, link local, multicast, and the     *)
(* IPv4 blocks as mapped addresses.                                        *)
Reserved6(g) ==
  \/ g \in {<<0, 0, 0, 0, 0, 0, 0, 0>>, <<0, 0, 0, 0, 0, 0, 0, 1>>}
  \/ g[1] \in 64512..65023 \cup 65152..65215 \cup 65280..65535
  \/ SubSeq(g, 1, 6) = <<0, 0, 0, 0, 0, 65535>>
     /\ Reserved4(<<g[7] \div 256, g[7] % 256, g[8] \div 256, g[8] % 256>>)

Reserved(address) ==
  IF address.family = 4 THEN Reserved4(address.groups) ELSE Reserved6(address.groups)

(* safe-fetcher.ts: whatever a page or its redirects lead to, whatever a   *)
(* lookup answers and however often a host is looked up, no request goes   *)
(* to an address of a reserved block unless its target is a fixture.       *)
VettedConnections ==
  \A j \in Jobs : pc[j] \in {"send", "body"} =>
    AllowListed(Parsed[request[j].url]) \/ ~Reserved(pinned[j])

(* page-render.processor.ts: a page that was served is audited and is not  *)
(* reported as failed, whatever becomes of the browser, of the process and *)
(* of the configuration meanwhile; a page that was not is never audited.   *)
AuditedIsServed ==
  \A j \in Pages : outcome[j] # None =>
    LET served == ~answer[j].error /\ answer[j].body /\ answer[j].status < 400 IN
    /\ outcome[j] = "audited" => served
    /\ outcome[j] = "failed" => ~served \/ (answer[j].empty /\ stage[j] = "render")
    /\ outcome[j] = "unchanged" => answer[j].notModified /\ j \in Hinted

(* Every job ends: behind a full politeness window, over redirects and     *)
(* slow servers, past deaths of the browser and of the process, with one   *)
(* or more requests a second allowed.                                      *)
PageEnds == <>(\A j \in Jobs : pc[j] = "done")
=============================================================================
