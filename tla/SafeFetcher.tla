------------------------------ MODULE SafeFetcher ------------------------------
(***************************************************************************)
(* What the fetcher decides: which addresses a request may go to, what a   *)
(* response means, and the configuration a crawl fetches with.  The steps  *)
(* that take these decisions, one await after the other, are in FetchPath. *)
(*                                                                         *)
(* A URL is [protocol, host, port, path]; a host is a name or an address   *)
(* literal.  An address is [family, groups]: four octets or eight 16-bit   *)
(* groups, as the text of it expands.                                      *)
(***************************************************************************)
EXTENDS Integers, Sequences, FiniteSets, SequencesExt

CONSTANTS
  None,
  maxRedirects,         \* hops that are followed
  AllowPrivateTargets   \* <<host, port>> pairs that skip the checks, for fixtures

ERROR_CODES == {"CONNECTION_ERROR", "UNSUPPORTED_PROTOCOL", "SSRF_BLOCKED", "DNS_ERROR"}

ASSUME NoneAssumption == None \notin ERROR_CODES

(* What does not expand has no groups.                                     *)
Octet == 0 .. 255
MAX_GROUP == 65535
Group == 0 .. MAX_GROUP
Address ==
  [family : {4}, groups : [1 .. 4 -> Octet]]
    \cup [family : {6}, groups : [1 .. 8 -> Group] \cup {None}]

V4(a, b, c, d) == [family |-> 4, groups |-> <<a, b, c, d>>]

(* "a:b::c": head and tail are the groups on the two sides of "::", tail   *)
(* is None without one, and v4 the octets of an embedded IPv4 address.     *)
ExpandIPv6(text) ==
  LET folded == IF text.v4 = None THEN <<>>
                ELSE <<text.v4[1] * 256 + text.v4[2], text.v4[3] * 256 + text.v4[4]>>
      head == IF text.tail = None THEN text.head \o folded ELSE text.head
      tail == IF text.tail = None THEN <<>> ELSE text.tail \o folded
      missing == 8 - Len(head) - Len(tail)
  IN  IF missing < 0 \/ (text.tail = None /\ missing # 0) THEN None
      ELSE head \o [i \in 1..missing |-> 0] \o tail

V6(text) == [family |-> 6, groups |-> ExpandIPv6(text)]

IsPrivateIPv4(o) ==
  \/ o[1] \in {0, 10, 127} \/ o[1] >= 224
  \/ o[1] = 100 /\ o[2] \in 64..127
  \/ o[1] = 169 /\ o[2] = 254
  \/ o[1] = 172 /\ o[2] \in 16..31
  \/ o[1] = 192 /\ o[2] = 168
  \/ o[1] = 198 /\ o[2] \in {18, 19}

(* What does not expand counts as private.                                 *)
IsPrivateIPv6(g) ==
  \/ g = None
  \/ \A i \in 1..7 : g[i] = 0 /\ g[8] \in {0, 1}
  \/ /\ \A i \in 1..5 : g[i] = 0
     /\ g[6] = 65535
     /\ IsPrivateIPv4(<<g[7] \div 256, g[7] % 256, g[8] \div 256, g[8] % 256>>)
  \/ g[1] \div 512 = 126     \* fc00::/7
  \/ g[1] \div 64 = 1018     \* fe80::/10
  \/ g[1] \div 256 = 255     \* ff00::/8

IsPrivateAddress(address) ==
  IF address.family = 4 THEN IsPrivateIPv4(address.groups) ELSE IsPrivateIPv6(address.groups)

-----------------------------------------------------------------------------
(* guard                                                                   *)

Port(url) == CASE url.port # None -> url.port
               [] url.port = None /\ url.protocol = "https:" -> 443
               [] OTHER -> 80

AllowListed(url) == <<url.host, Port(url)>> \in AllowPrivateTargets

IsLiteral(url) == url.host.kind = "literal"

Pass(address) == [code |-> None, address |-> address]
Refuse(code) == [code |-> code, address |-> None]

(* Mutant: only names are looked into.                                     *)
GuardLiteralUnchecked(url) == Pass(url.host.address)

GuardLiteral(url) ==
  IF ~AllowListed(url) /\ IsPrivateAddress(url.host.address)
  THEN Refuse("SSRF_BLOCKED") ELSE Pass(url.host.address)

(* records: what the lookup answers, <<>> when it fails.  Any private      *)
(* record refuses the host; the first one is connected to.                 *)
GuardRecords(url, records) ==
  CASE records = <<>> -> Refuse("DNS_ERROR")
    [] records # <<>> /\ ~AllowListed(url) /\ (\E r \in ToSet(records) : IsPrivateAddress(r)) ->
         Refuse("SSRF_BLOCKED")
    [] OTHER -> Pass(Head(records))

Guard(url, records) ==
  CASE url = None -> Refuse("CONNECTION_ERROR")
    [] url # None /\ url.protocol \notin {"http:", "https:"} -> Refuse("UNSUPPORTED_PROTOCOL")
    [] /\ url # None /\ url.protocol \in {"http:", "https:"}
       /\ ~AllowListed(url) /\ Port(url) \notin {80, 443} /\ Port(url) < 1024 -> Refuse("SSRF_BLOCKED")
    [] OTHER -> IF IsLiteral(url) THEN GuardLiteral(url) ELSE GuardRecords(url, records)

-----------------------------------------------------------------------------
(* Responses: [status, located, location, encoding, corrupt, sent, size, appRoot,   *)
(* text], where sent bytes decode to size and text is how much of it shows.*)

REDIRECT_STATUSES == {301, 302, 303, 307, 308}
DECODERS == {"gzip", "x-gzip", "deflate", "br"}

IsRedirect(response) == response.status \in REDIRECT_STATUSES /\ response.located

SkipBody(method, response) == method = "HEAD" \/ response.status = 304 \/ IsRedirect(response)

BodySize(response) == IF response.encoding \in DECODERS THEN response.size ELSE response.sent

CorruptBody(response) == response.encoding \in DECODERS /\ response.corrupt

(* A page whose root an app fills in, near empty as it is served.          *)
NeedsRender(response) == response.appRoot /\ response.text < 200

(* A 303 turns any method but HEAD into GET.                               *)
NextMethod(method, status) == IF status = 303 /\ method # "HEAD" THEN "GET" ELSE method

(* Why it failed is recorded and decides nothing.                          *)
Failure ==
  [error |-> TRUE, status |-> 0, ok |-> FALSE, notModified |-> FALSE, body |-> FALSE,
   empty |-> TRUE, shell |-> FALSE]

Answer(response, body) ==
  [error |-> FALSE, status |-> response.status,
   ok |-> response.status \in 200..299 \/ response.status = 304,
   notModified |-> response.status = 304, body |-> body,
   empty |-> BodySize(response) = 0, shell |-> body /\ NeedsRender(response)]

-----------------------------------------------------------------------------
(* crawl-config.ts.  Rates are in tenths of a request per second.          *)

(* value: None when it is no number.                                       *)
ClampNumber(value, fallback, low, high) ==
  CASE value = None -> fallback
    [] value # None /\ value < low -> low
    [] value # None /\ value > high -> high
    [] OTHER -> value

ResolveCrawlConfig(settings, defaults) ==
  [userAgent |-> IF settings.userAgent = None THEN defaults.userAgent ELSE settings.userAgent,
   renderPolicy |-> IF settings.renderPolicy = None THEN "auto" ELSE settings.renderPolicy,
   rate |-> ClampNumber(settings.rate, defaults.rate, 1, 500),
   maxRedirects |-> maxRedirects]

NoSettings == [userAgent |-> None, renderPolicy |-> None, rate |-> None]

(* A configuration that Redis has lost gives way to the defaults.          *)
DeserializeConfig(stored, defaults) ==
  IF stored = None THEN ResolveCrawlConfig(NoSettings, defaults) ELSE stored
=============================================================================
