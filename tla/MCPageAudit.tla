---------------------------- MODULE MCPageAudit ----------------------------
(***************************************************************************)
(* A page that is in order, and the pages that differ from it in one thing *)
(* a check can find, or in a few.                                          *)
(***************************************************************************)
EXTENDS PageAudit, TLC

Url(secure, domain, path) ==
  [secure |-> secure, domain |-> domain, path |-> path, fragment |-> FALSE]

PageUrl == Url(TRUE, "site", "page")
PlainUrl == Url(FALSE, "site", "page")
Inner == Url(TRUE, "site", "inner")
Outer == Url(TRUE, "other", "outer")
Picture == Url(FALSE, "site", "picture")

AllUrls == {Inner, Outer, Picture}
Hops == (Inner :> 2) @@ (Outer :> 3) @@ (Picture :> 0)
SiteDomain == "site"

Text(says, length) == [says |-> says, length |-> length]
Heading(level, text) == [level |-> level, text |-> text]
Image(src, lazy, srcset, alt) ==
  [src |-> src, lazy |-> lazy, srcset |-> srcset, alt |-> alt, width |-> TRUE, height |-> TRUE]
Anchor(href, text) == [href |-> href, text |-> text, rel |-> {}, blank |-> FALSE]

Tag(key, content) == [key |-> key, content |-> content]

OgTags == <<Tag("og:title", "t"), Tag("og:type", "website"), Tag("og:image", "i"),
            Tag("og:url", "u"), Tag("og:title", "")>>

GoodDoc ==
  [title |-> Text("welcome", 20), description |-> Text("about", 100),
   canonicals |-> <<[PageUrl EXCEPT !.fragment = TRUE]>>, robots |-> {},
   charset |-> "utf-8", httpEquiv |-> "absent", lang |-> "en",
   viewport |-> [deviceWidth |-> TRUE, scale |-> "free"],
   og |-> OgTags, twitter |-> <<Tag("twitter:card", "summary")>>,
   headings |-> <<Heading(1, Text("hello", 5)), Heading(2, Text("more", 4))>>,
   images |-> <<>>, anchors |-> <<Anchor(Inner, "descriptive")>>, resources |-> {}]

(* For each part of the document, what else it may be.                     *)
Alternatives ==
  [title |-> {None, Text("", 0), Text("welcome", 9), Text("welcome", 61), Text("hello", 20)},
   description |-> {None, Text("", 0), Text("about", 49), Text("about", 161)},
   canonicals |-> {<<>>, <<PageUrl, PlainUrl>>, <<Outer>>, <<None>>},
   robots |-> {{"noindex"}, {"none"}, {"index", "none"}, {"follow", "nofollow"}},
   charset |-> {"absent", ""},
   lang |-> {"absent", "", "en_US", "english"},
   viewport |-> {None, [deviceWidth |-> FALSE, scale |-> "free"],
                 [deviceWidth |-> TRUE, scale |-> "1.5"]},
   og |-> {<<>>, <<Tag("og:title", "t")>>, <<Tag("og:title", "")>> \o OgTags},
   twitter |-> {<<Tag("twitter:site", "s")>>, <<Tag("twitter:card", None)>>},
   headings |-> {<<>>, <<Heading(1, Text("", 0)), Heading(1, Text("hello", 5))>>,
                 <<Heading(1, Text("hello", 5)), Heading(3, Text("", 0))>>},
   images |-> {<<Image(Picture, None, None, None)>>,
               <<Image(None, Outer, Picture, ""), Image(None, None, Picture, None),
                 Image(None, None, None, None)>>,
               <<[Image(Inner, Picture, None, "") EXCEPT !.width = FALSE, !.height = FALSE]>>},
   anchors |-> {<<>>, <<Anchor(None, ""), Anchor(Outer, ""), Anchor(Outer, "generic")>>,
                <<[Anchor(Inner, "descriptive") EXCEPT !.blank = TRUE],
                  [Anchor(Outer, "descriptive") EXCEPT !.blank = TRUE, !.rel = {"noopener"}]>>},
   resources |-> {{Outer, PlainUrl}}]

Docs == {GoodDoc} \cup UNION {{[GoodDoc EXCEPT ![part] = alternative] :
                                 alternative \in Alternatives[part]} :
                                part \in DOMAIN Alternatives}

BadDoc == [GoodDoc EXCEPT !.title = None, !.robots = {"index", "noindex"},
                          !.canonicals = <<PlainUrl, Outer>>, !.headings = <<>>]

Response == [url |-> PageUrl, finalUrl |-> PageUrl, status |-> 200, hops |-> 0, robots |-> {}]

(* The document is served otherwise: insecurely, redirected, not at all,   *)
(* or with an X-Robots-Tag.                                                *)
Responses ==
  {[Response EXCEPT !.url = PlainUrl, !.finalUrl = PlainUrl],
   [Response EXCEPT !.url = PlainUrl, !.hops = 1],
   [Response EXCEPT !.status = 404],
   [Response EXCEPT !.robots = {"none"}]}

AllVersions ==
  {[doc |-> d, response |-> Response] : d \in Docs \cup {BadDoc}}
    \cup {[doc |-> d, response |-> r] : d \in {GoodDoc, BadDoc}, r \in Responses}
=============================================================================
