------------------------------ MODULE SeoEngine ------------------------------
(***************************************************************************)
(* The SEO engine: what it extracts from a document and its response, the  *)
(* checks it runs on that, and the score.  It performs no I/O, so all of   *)
(* it is operators; module PageAudit runs them.                            *)
(*                                                                         *)
(* A document keeps what a check can tell apart: a text is what it says    *)
(* and how long it is, a URL is [secure, domain, path, fragment].          *)
(***************************************************************************)
EXTENDS Integers, Sequences, FiniteSets, FiniteSetsExt, SequencesExt

CONSTANTS
  None,    \* null, and an href that makes no http(s) URL
  Inline   \* the data: address of an image inlined in the document

-----------------------------------------------------------------------------
(* Extraction.                                                             *)

(* resolveUrl drops the fragment.                                          *)
ResolveUrl(href) == IF href = None THEN None ELSE [href EXCEPT !.fragment = FALSE]

KeepUrl(urls, href) == IF href = None THEN urls ELSE Append(urls, ResolveUrl(href))

Resolved(hrefs) == FoldLeft(KeepUrl, <<>>, hrefs)

Insecure(url) == url \notin {None, Inline} /\ ~url.secure

(* Values are compared trimmed and in lower case; a blank one has no hash. *)
NormalizedHash(text) == IF text = None \/ text.length = 0 THEN None ELSE text.says

Noindex(tokens) == tokens \cap {"noindex", "none"} # {}
Nofollow(tokens) == tokens \cap {"nofollow", "none"} # {}

(* A charset attribute that is blank gives way to the http-equiv form.     *)
Charset(doc) == IF doc.charset \in {"", "absent"} THEN doc.httpEquiv ELSE doc.charset

(* What an <img> will request: src, else a lazy-load attribute, else the   *)
(* first candidate of a srcset.  What resolves to no URL stays as it is.   *)
EffectiveSrc(img) ==
  LET raw == CASE img.src # None -> img.src
               [] img.src = None /\ img.lazy # None -> img.lazy
               [] OTHER -> img.srcset
  IN  IF raw = Inline THEN Inline ELSE ResolveUrl(raw)

ExtractImages(doc) ==
  [i \in DOMAIN doc.images |->
     [src |-> EffectiveSrc(doc.images[i]), alt |-> doc.images[i].alt,
      width |-> doc.images[i].width, height |-> doc.images[i].height]]

(* Anchors that lead nowhere the crawler goes are no links.                *)
KeepLink(anchors, l) == IF l.href = None THEN anchors ELSE Append(anchors, l)

ExtractLinks(doc, page) ==
  LET anchors == FoldLeft(KeepLink, <<>>, doc.anchors) IN
  [i \in DOMAIN anchors |->
     [href |-> ResolveUrl(anchors[i].href), text |-> anchors[i].text,
      rel |-> anchors[i].rel, blank |-> anchors[i].blank,
      internal |-> anchors[i].href.domain = page.domain]]

(* Subresources are looked for where the browser looks, so a lazy image's  *)
(* address is not one.                                                     *)
MixedContent(doc, page) ==
  IF ~page.secure THEN {}
  ELSE {ResolveUrl(u) : u \in {v \in doc.resources : Insecure(v)}}
         \cup {ResolveUrl(u) : u \in {v \in {doc.images[i].src : i \in DOMAIN doc.images} :
                                        Insecure(v)}}

FirstH1(doc) ==
  LET h1s == SelectSeq(doc.headings, LAMBDA h : h.level = 1) IN
  IF h1s = <<>> \/ Head(h1s).text.length = 0 THEN None ELSE Head(h1s).text

(* The first tag of each name that has a content, which may be blank.      *)
FirstTags(tags) ==
  LET given == SelectSeq(tags, LAMBDA t : t.content # None) IN
  [key \in {t.key : t \in Range(given)} |->
     given[Min({i \in DOMAIN given : given[i].key = key})].content]

ExtractOgTags(doc) == FirstTags(doc.og)
ExtractTwitterTags(doc) == FirstTags(doc.twitter)

ExtractArtifacts(doc, response) ==
  [url |-> response.url, finalUrl |-> response.finalUrl,
   status |-> response.status, hops |-> response.hops,
   title |-> doc.title, description |-> doc.description,
   canonicals |-> Resolved(doc.canonicals),
   robots |-> doc.robots,
   noindex |-> Noindex(doc.robots), nofollow |-> Nofollow(doc.robots),
   headerNoindex |-> Noindex(response.robots),
   charset |-> Charset(doc),
   lang |-> IF doc.lang = "" THEN "absent" ELSE doc.lang,
   viewport |-> doc.viewport,
   ogTags |-> ExtractOgTags(doc), twitterTags |-> ExtractTwitterTags(doc),
   headings |-> doc.headings, h1Text |-> FirstH1(doc),
   images |-> ExtractImages(doc),
   links |-> ExtractLinks(doc, response.finalUrl),
   mixed |-> MixedContent(doc, response.finalUrl)]

-----------------------------------------------------------------------------
(* The catalog.                                                            *)

CRITICAL == "critical"
HIGH == "high"
MEDIUM == "medium"
LOW == "low"
INFO == "info"

Entry(severity, weight) == [severity |-> severity, weight |-> weight]

Joined(catalog, other) ==
  [c \in DOMAIN catalog \cup DOMAIN other |->
     IF c \in DOMAIN catalog THEN catalog[c] ELSE other[c]]

MetaCatalog ==
  [title_missing |-> Entry(CRITICAL, 25), title_empty |-> Entry(CRITICAL, 25),
   title_too_long |-> Entry(MEDIUM, 8), title_too_short |-> Entry(LOW, 5),
   description_missing |-> Entry(HIGH, 15), description_too_long |-> Entry(LOW, 5),
   description_too_short |-> Entry(LOW, 5),
   canonical_missing |-> Entry(HIGH, 15), canonical_multiple |-> Entry(CRITICAL, 20),
   canonical_non_https |-> Entry(MEDIUM, 10), canonical_cross_domain |-> Entry(MEDIUM, 10),
   robots_noindex |-> Entry(CRITICAL, 30), robots_nofollow |-> Entry(HIGH, 15),
   robots_conflicting |-> Entry(HIGH, 12), charset_missing |-> Entry(MEDIUM, 8),
   viewport_missing |-> Entry(HIGH, 15), viewport_not_responsive |-> Entry(MEDIUM, 10),
   lang_missing |-> Entry(MEDIUM, 8), lang_invalid |-> Entry(MEDIUM, 8)]

PageCatalog ==
  [h1_missing |-> Entry(HIGH, 15), h1_multiple |-> Entry(MEDIUM, 8),
   h1_duplicate_of_title |-> Entry(INFO, 3), skipped_level |-> Entry(LOW, 4),
   heading_empty |-> Entry(MEDIUM, 6),
   alt_missing |-> Entry(HIGH, 12), alt_empty |-> Entry(MEDIUM, 6),
   missing_width |-> Entry(LOW, 3), missing_height |-> Entry(LOW, 3),
   noopener_missing |-> Entry(LOW, 4), anchor_generic |-> Entry(LOW, 3),
   not_secure |-> Entry(CRITICAL, 30), mixed_content |-> Entry(HIGH, 15),
   status_4xx |-> Entry(CRITICAL, 30), status_5xx |-> Entry(CRITICAL, 30),
   indexability_conflict |-> Entry(MEDIUM, 10), redirect_present |-> Entry(LOW, 4),
   og_missing |-> Entry(MEDIUM, 6), card_missing |-> Entry(LOW, 3)]

(* Not applicable to a page on its own: nothing is known of its links yet. *)
LinkCatalog ==
  [internal_broken |-> Entry(CRITICAL, 20), external_broken |-> Entry(MEDIUM, 8),
   image_broken |-> Entry(HIGH, 12), chain_too_long |-> Entry(HIGH, 10)]

(* The checks the runner knows.                                            *)
CHECKS == Joined(Joined(MetaCatalog, PageCatalog), LinkCatalog)

(* Those it does not: what a page that was not fetched is given instead.   *)
RUNTIME_CHECKS ==
  [fetch_failed |-> Entry(CRITICAL, 40), status_error |-> Entry(CRITICAL, 40)]

(* What the finalizer finds by comparing pages.                            *)
CROSS_PAGE_CHECKS ==
  [duplicate_title |-> Entry(HIGH, 15), duplicate_description |-> Entry(MEDIUM, 8),
   duplicate_h1 |-> Entry(MEDIUM, 8)]

(* Whatever can be an issue.                                               *)
CATALOG_CHECKS == Joined(Joined(CHECKS, CROSS_PAGE_CHECKS), RUNTIME_CHECKS)

-----------------------------------------------------------------------------
(* Checks.  A result is the check with its severity, and the element it is *)
(* about: its place in the list it was found in, and its address where it  *)
(* has one.                                                                *)

Result(check, at, element) ==
  [check |-> check, severity |-> CATALOG_CHECKS[check].severity, at |-> at, element |-> element]

Fail(check, holds) == IF holds THEN {Result(check, 0, None)} ELSE {}

FailEach(check, list, Offends(_), Address(_)) ==
  {Result(check, i, Address(list[i])) : i \in {j \in DOMAIN list : Offends(list[j])}}

TITLE_MAX == 60
TITLE_MIN == 10
DESCRIPTION_MAX == 160
DESCRIPTION_MIN == 50

Length(text) == IF text = None THEN 0 ELSE text.length

(* The address of the element of a list.                                   *)
Self(url) == url
Src(img) == img.src
Href(link) == link.href
Nowhere(element) == None

TitleResults(a) ==
  Fail("title_missing", a.title = None)
    \cup Fail("title_empty", a.title # None /\ Length(a.title) = 0)
    \cup Fail("title_too_long", Length(a.title) > TITLE_MAX)
    \cup Fail("title_too_short", Length(a.title) \in 1 .. TITLE_MIN - 1)

DescriptionResults(a) ==
  Fail("description_missing", Length(a.description) = 0)
    \cup Fail("description_too_long", Length(a.description) > DESCRIPTION_MAX)
    \cup Fail("description_too_short", Length(a.description) \in 1 .. DESCRIPTION_MIN - 1)

CanonicalResults(a) ==
  Fail("canonical_missing", a.canonicals = <<>>)
    \cup Fail("canonical_multiple", Len(a.canonicals) > 1)
    \cup FailEach("canonical_non_https", a.canonicals, Insecure, Self)
    \cup FailEach("canonical_cross_domain", a.canonicals,
                  LAMBDA c : c.domain # a.finalUrl.domain, Self)

RobotsResults(a) ==
  Fail("robots_noindex", a.noindex \/ a.headerNoindex)
    \cup Fail("robots_nofollow", a.nofollow)
    \cup Fail("robots_conflicting",
              \/ "index" \in a.robots /\ (Noindex(a.robots) \/ a.headerNoindex)
              \/ "follow" \in a.robots /\ Nofollow(a.robots))

(* maximum-scale=1.5 locks as well: the pattern ends at a word boundary.   *)
Locked(viewport) == viewport.scale \in {"no", "1", "1.5"}

(* Letters and hyphens are a tag, whatever language they name.             *)
IsValidBcp47(lang) == lang \in {"en", "en-US", "english"}

DeclarationResults(a) ==
  Fail("charset_missing", a.charset = "absent")
    \cup Fail("viewport_missing", a.viewport = None)
    \cup Fail("viewport_not_responsive",
              a.viewport # None /\ (~a.viewport.deviceWidth \/ Locked(a.viewport)))
    \cup Fail("lang_missing", a.lang = "absent")
    \cup Fail("lang_invalid", a.lang # "absent" /\ ~IsValidBcp47(a.lang))

H1Count(headings) == Cardinality({i \in DOMAIN headings : headings[i].level = 1})
Jumps(headings) ==
  [i \in 1 .. Len(headings) - 1 |-> headings[i + 1].level - headings[i].level]

Skips(jump) == jump > 1
Untitled(heading) == heading.text.length = 0

HeadingResults(a) ==
  Fail("h1_missing", H1Count(a.headings) = 0)
    \cup Fail("h1_multiple", H1Count(a.headings) > 1)
    \cup Fail("h1_duplicate_of_title",
              /\ a.h1Text # None /\ Length(a.title) > 0
              /\ a.h1Text.says = a.title.says)
    \cup FailEach("skipped_level", Jumps(a.headings), Skips, Nowhere)
    \cup FailEach("heading_empty", a.headings, Untitled, Nowhere)

NoAlt(img) == img.alt = None
EmptyAlt(img) == img.alt = ""
NoWidth(img) == ~img.width
NoHeight(img) == ~img.height

ImageResults(a) ==
  FailEach("alt_missing", a.images, NoAlt, Src)
    \cup FailEach("alt_empty", a.images, EmptyAlt, Src)
    \cup FailEach("missing_width", a.images, NoWidth, Src)
    \cup FailEach("missing_height", a.images, NoHeight, Src)

Unguarded(link) == link.blank /\ link.rel \cap {"noopener", "noreferrer"} = {}
Generic(link) == link.text \in {"", "generic"}

LinkResults(a) ==
  FailEach("noopener_missing", a.links, Unguarded, Href)
    \cup FailEach("anchor_generic", a.links, Generic, Href)

TechnicalResults(a) ==
  Fail("not_secure", ~a.finalUrl.secure)
    \cup {Result("mixed_content", 0, u) : u \in a.mixed}
    \cup Fail("status_4xx", a.status \in 400 .. 499)
    \cup Fail("status_5xx", a.status \in 500 .. 599)
    \cup Fail("indexability_conflict",
              /\ a.noindex \/ a.headerNoindex
              /\ \E i \in DOMAIN a.canonicals : a.canonicals[i] # ResolveUrl(a.finalUrl))
    \cup Fail("redirect_present", a.hops > 0 \/ a.url # a.finalUrl)

REQUIRED_OG == {"og:title", "og:type", "og:image", "og:url"}

Missing(tags, key) == key \notin DOMAIN tags \/ tags[key] = ""

(* A page without any Open Graph tag fails the same check.                 *)
SocialResults(a) ==
  Fail("og_missing", \E key \in REQUIRED_OG : Missing(a.ogTags, key))
    \cup Fail("card_missing", Missing(a.twitterTags, "twitter:card"))

(* runChecks, as the worker calls it: no overrides, no link statuses.      *)
RunChecks(a) ==
  UNION {TitleResults(a), DescriptionResults(a), CanonicalResults(a), RobotsResults(a),
         DeclarationResults(a), HeadingResults(a), ImageResults(a), LinkResults(a),
         TechnicalResults(a), SocialResults(a)}

-----------------------------------------------------------------------------
(* Scores, in ten-thousandths of a point.                                  *)

FULL == 1000000   \* 100 points

(* In tenths.                                                              *)
SEVERITY_MULTIPLIER ==
  [critical |-> 10, high |-> 6, medium |-> 3, low |-> 1, info |-> 0]

(* log2(n) * 0.1, in thousandths: 100 for each octave below n, and what is *)
(* left of it by quarters, which is exact up to eight instances.           *)
Surcharge(n) ==
  LET octaves == Cardinality({k \in 1 .. n : 2 ^ k <= n})
      quarters == (4 * n) \div (2 ^ octaves) - 4
  IN  100 * octaves
        + (CASE quarters = 1 -> 32 [] quarters = 2 -> 58 [] quarters = 3 -> 81 [] OTHER -> 0)

(* A check the runner does not know weighs nothing here.                   *)
Weight(c) == IF c \in DOMAIN CHECKS THEN CHECKS[c].weight ELSE 0

FailedChecks(results) == {r.check : r \in results}
Instances(results, c) == Cardinality({r \in results : r.check = c})

(* The results of a check count as its first one does.                     *)
Group(results, c) ==
  [check |-> c, severity |-> (CHOOSE r \in results : r.check = c).severity]

(* What each failed check costs.                                           *)
Deductions(results) ==
  [g \in {Group(results, c) : c \in FailedChecks(results)} |->
     Weight(g.check) * (1000 + Surcharge(Instances(results, g.check)))
       * SEVERITY_MULTIPLIER[g.severity]]

(* Mutant: a score falls below zero.                                       *)
Unclamped(score) == score

Clamped(score) == Max({0, Min({FULL, score})})

ComputePageScore(results) == Clamped(FULL - SumFunction(Deductions(results)))

CountBySeverity(results) ==
  [s \in {r.severity : r \in results} |-> Cardinality({r \in results : r.severity = s})]
=============================================================================
