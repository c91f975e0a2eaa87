------------------------------- MODULE UrlRules -------------------------------
(***************************************************************************)
(* What crawler-core says of a URL: its normal form, its registrable       *)
(* domain, and whether a crawl filter lets it in.                          *)
(*                                                                         *)
(* A URL is [secure, host, port, path, query, fragment]: the host its      *)
(* labels, a path or a pattern its characters, the first of them "/", the  *)
(* query its parameters [key, value] with keys numbered in alphabetical    *)
(* order.  The parser has already taken case and dot segments away.        *)
(***************************************************************************)
EXTENDS Integers, Sequences, FiniteSets, FiniteSetsExt, SequencesExt

CONSTANTS
  None,        \* what parses to no http(s) URL
  Unreserved   \* the percent-encodings that need not be, and what they encode

(* What they encode is a character, not an encoding.                       *)
ASSUME UnreservedAssumption == Range(Unreserved) \cap DOMAIN Unreserved = {}

DEFAULT_PORT == 0

(* %61 -> a, while %2F stays.                                              *)
NormalizePercentEncoding(path) ==
  [i \in DOMAIN path |-> IF path[i] \in DOMAIN Unreserved THEN Unreserved[path[i]] ELSE path[i]]

Collapse(out, c) == IF c = "/" /\ out # <<>> /\ Last(out) = "/" THEN out ELSE Append(out, c)

CollapseSlashes(path) == FoldLeft(Collapse, <<>>, path)

(* params.sort() is stable: a parameter stands behind those with lesser    *)
(* keys, and those with its own that came before it.                       *)
Place(query, i) ==
  Cardinality({j \in DOMAIN query : \/ query[j].key < query[i].key
                                    \/ query[j].key = query[i].key /\ j <= i})

SortedQuery(query) ==
  [k \in DOMAIN query |-> query[CHOOSE i \in DOMAIN query : Place(query, i) = k]]

(* URL parsing drops the port that a scheme has anyway.                    *)
ParsedPort(url) ==
  IF url.port = (IF url.secure THEN 443 ELSE 80) THEN DEFAULT_PORT ELSE url.port

(* The parameters aside.                                                   *)
NormalizedAddress(raw) ==
  [raw EXCEPT !.fragment = FALSE,
              !.port = ParsedPort(raw),
              !.path = CollapseSlashes(NormalizePercentEncoding(raw.path))]

(* Mutant: parameters are left in the order they came.                     *)
NormalizeUrlUnsorted(raw) == IF raw = None THEN None ELSE NormalizedAddress(raw)

NormalizeUrl(raw) ==
  IF raw = None THEN None
  ELSE [NormalizedAddress(raw) EXCEPT !.query = SortedQuery(raw.query)]

Keep(kept, e) == IF e = None THEN kept ELSE Append(kept, e)

(* What there is in a sequence, None left out.                             *)
Present(seq) == FoldLeft(Keep, <<>>, seq)

NormalizeAll(raws) == Present([i \in DOMAIN raws |-> NormalizeUrl(raws[i])])

-----------------------------------------------------------------------------
SECOND_LEVEL_SUFFIX_LABELS == {"co", "com", "net", "org", "gov", "ac", "edu"}

(* The last two labels, or three below a suffix like co.uk.                *)
RegistrableDomain(host) ==
  LET take == IF host[Len(host) - 1] \in SECOND_LEVEL_SUFFIX_LABELS THEN 3 ELSE 2 IN
  IF Len(host) <= 2 THEN host ELSE SubSeq(host, Len(host) - take + 1, Len(host))

(* The SEO engine's link.internal: of a URL as it was parsed, its host and *)
(* port together, where a port other than the scheme's own counts.         *)
Internal(url, page) ==
  /\ RegistrableDomain(url.host) = RegistrableDomain(page.host)
  /\ ParsedPort(url) = ParsedPort(page)

-----------------------------------------------------------------------------
(* A pattern's character may be a wildcard: "**" any characters, "*" any   *)
(* but "/", "?" one.  Ends is where in the path a match can end.           *)

Advance(c, path, i) ==
  CASE c = "**" -> i .. Len(path)
    [] c = "*" -> {j \in i .. Len(path) : "/" \notin Range(SubSeq(path, i + 1, j))}
    [] c = "?" -> {j \in {i + 1} : j <= Len(path) /\ path[j] # "/"}
    [] OTHER -> {j \in {i + 1} : j <= Len(path) /\ path[j] = c}

Ends(pattern, path) ==
  FoldLeft(LAMBDA ends, c : UNION {Advance(c, path, i) : i \in ends}, {0}, pattern)

(* A glob matches the whole path.                                          *)
GlobMatches(glob, path) ==
  LET pattern == IF Head(glob) \in {"/", "*", "**", "?"} THEN glob ELSE <<"/">> \o glob IN
  Len(path) \in Ends(pattern, path)

UnderScope(path, scope) ==
  IF Last(scope) = "/" THEN path = Front(scope) \/ IsPrefix(scope, path)
  ELSE path = scope \/ IsPrefix(Append(scope, "/"), path)

(* A UrlFilter is [origin, pathScope, allow, block].                       *)
IsInScope(filter, url) ==
  /\ RegistrableDomain(url.host) = RegistrableDomain(filter.origin.host)
  /\ UnderScope(url.path, filter.pathScope)

IsAllowed(filter, url) ==
  /\ \A glob \in filter.block : ~GlobMatches(glob, url.path)
  /\ filter.allow = {} \/ \E glob \in filter.allow : GlobMatches(glob, url.path)

Classify(filter, url) ==
  IF ~IsInScope(filter, url) THEN "out_of_scope"
  ELSE IF IsAllowed(filter, url) THEN "in_scope" ELSE "blocked"
=============================================================================
