----------------------------- MODULE SourceIntake -----------------------------
(***************************************************************************)
(* What the API lets in before a crawl resolves it: the sources of a       *)
(* website, a crawl's target page, a category's sitemap.  Whatever a       *)
(* resolver reads has passed here, so these are its inputs.                *)
(*                                                                         *)
(* An entry is what was typed or uploaded: a URL, Blank, or None for what  *)
(* is no http(s) URL.                                                      *)
(***************************************************************************)
EXTENDS UrlRules

CONSTANTS
  Blank,        \* an entry of white space, or a cell a row does not have
  Origin,       \* the website's
  RowsPerError  \* one row of a file in so many may hold no URL: 20, by MAX_INVALID_RATIO

IsHttpUrl(entry) == entry \notin {None, Blank}

(* URL.origin leaves a default port out.                                   *)
SameOrigin(url) ==
  LET address == NormalizedAddress(url) IN
  /\ address.secure = Origin.secure /\ address.host = Origin.host
  /\ address.port = NormalizedAddress(Origin).port

(* [...new Set(...)] of the trimmed entries.                               *)
Enter(kept, e) == IF e = Blank \/ Contains(kept, e) THEN kept ELSE Append(kept, e)

Entered(entries) == FoldLeft(Enter, <<>>, entries)

(* At least one row holds a URL, and few do not.                           *)
ValidateUrlCsv(request) ==
  LET rows == Len(request.entries)
      valid == Cardinality({i \in 1 .. rows : IsHttpUrl(request.entries[i])})
  IN  request.hasColumn /\ valid > 0 /\ RowsPerError * (rows - valid) <= rows

CreateManual(request) == \A u \in Range(Entered(request.entries)) : IsHttpUrl(u)

CreateDiscovery(request) ==
  \A u \in Range(Entered(request.entries)) : IsHttpUrl(u) /\ SameOrigin(u)

(* A sitemap's URL may be on any site.                                     *)
Acceptable(request) ==
  CASE request.kind = "manual" -> CreateManual(request)
    [] request.kind = "discovery" -> CreateDiscovery(request)
    [] request.kind = "csv" -> ValidateUrlCsv(request)
    [] request.kind = "sitemap" -> TRUE

(* A row of url_sources; where names its sitemap or its stored file.  The  *)
(* rows of a file are kept with it here, as they were uploaded.            *)
SourceRow(request, where) ==
  [kind |-> request.kind, active |-> TRUE, where |-> where,
   entries |-> IF request.kind = "csv" THEN request.entries ELSE Entered(request.entries)]

(* readCsvUrls: an empty cell is passed over, as is what parses to no URL. *)
ReadCsvUrls(source) ==
  [i \in DOMAIN source.entries |-> IF source.entries[i] = Blank THEN None ELSE source.entries[i]]

ResolvePageTarget(url) == IsHttpUrl(url) /\ SameOrigin(url)
=============================================================================
