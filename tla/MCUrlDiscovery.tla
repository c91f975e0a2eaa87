--------------------------- MODULE MCUrlDiscovery ---------------------------
(***************************************************************************)
(* A small site below co.uk with a blog beside it, another site, sitemaps  *)
(* that contain one another, and addresses written in several ways.        *)
(***************************************************************************)
EXTENDS UrlDiscovery, TLC

Url(host, path) ==
  [secure |-> TRUE, host |-> host, port |-> 0, path |-> path, query |-> <<>>, fragment |-> FALSE]

Encodings == "%61" :> "a"

SiteHost == <<"www", "site", "co", "uk">>
BlogHost == <<"blog", "site", "co", "uk">>
OtherHost == <<"other", "co", "uk">>

Home == Url(SiteHost, <<"/">>)
A == Url(SiteHost, <<"/", "a">>)
B == [Url(SiteHost, <<"/", "b">>) EXCEPT !.query = <<[key |-> 1, value |-> "x"], [key |-> 2, value |-> "y"]>>]
C == Url(SiteHost, <<"/", "c", "/", "d">>)
Admin == Url(SiteHost, <<"/", "admin", "/", "e">>)
Blog == Url(BlogHost, <<"/", "a">>)
Other == Url(OtherHost, <<"/">>)
Gone == Url(SiteHost, <<"/", "g">>)

(* The same addresses in other words.                                      *)
A2 == [A EXCEPT !.path = <<"/", "/", "%61">>, !.fragment = TRUE]
A3 == [A EXCEPT !.port = 443]
Gone2 == [Gone EXCEPT !.port = 443]
B2 == [B EXCEPT !.query = <<[key |-> 2, value |-> "y"], [key |-> 1, value |-> "x"]>>]

Answer(url, links) == [finalUrl |-> url, links |-> links]
AllPages ==
  (Home :> Answer(Home, {A2, B, Other, None, Admin})) @@ (A :> Answer(A, {Home, C, Blog}))
    @@ (B :> Answer(Other, {Other, C})) @@ (C :> Answer(C, {Gone2, B2, A3}))
    @@ (Blog :> Answer(Blog, {A, Gone})) @@ (Gone :> Answer(Gone, {Home, C}))
    @@ (Other :> Answer(Other, {Home, Other})) @@ (Admin :> Answer(Admin, {Home}))
    @@ (B2 :> Answer(Other, {Other, C}))

Document(kind, locs) == [kind |-> kind, locs |-> locs, onSite |-> TRUE]
AllDocuments ==
  [root |-> Document("index", <<"posts", "nested", "root", None>>),
   nested |-> Document("index", <<"posts", "junk", "root", "more">>),
   posts |-> Document("urlset", <<A, None, B2, A>>),
   more |-> Document("urlset", <<A3, C, B>>),
   junk |-> Document("junk", <<>>),
   twins |-> Document("urlset", <<A, A3, C>>),
   cousins |-> Document("urlset", <<A, C, A2>>),
   wide |-> Document("index", <<"root", "bare">>),
   bare |-> Document("urlset", <<>>),
   foreign |-> [Document("urlset", <<Other>>) EXCEPT !.onSite = FALSE]]

Request(kind, where, entries) ==
  [kind |-> kind, where |-> where, entries |-> entries, hasColumn |-> TRUE]

Manual == Request("manual", None, <<A2, Blank, B2, A2>>)
Csv == Request("csv", None, <<B, C>>)
Tree == Request("sitemap", "root", <<>>)
Discover == Request("discovery", None, <<A, A2>>)

(* With one row in three that may be anything.                             *)
LongCsv == Request("csv", None, <<C, Blank, A2>>)

AllRequests ==
  {Manual, Csv, LongCsv, Tree, Discover, Request("manual", None, <<Blank>>),
   Request("manual", None, <<A, None>>), Request("discovery", None, <<A, Other>>),
   Request("csv", None, <<B, Blank>>), [Csv EXCEPT !.hasColumn = FALSE]}

Row(asked) == SourceRow(asked, IF asked.kind = "csv" THEN "k1" ELSE asked.where)
Rows(asked) == [i \in DOMAIN asked |-> Row(asked[i])]
AllTables ==
  {Rows(t) : t \in {<<>>, <<Manual, Discover>>, <<Discover, Tree, Csv>>, <<Csv, Manual, Tree>>,
                    <<Request("sitemap", "nested", <<>>), Tree>>}}
    \cup {<<[Row(Manual) EXCEPT !.active = FALSE], Row(Tree)>>}

Crawl(scope, target, category) ==
  [scope |-> scope, target |-> target, category |-> category, allow |-> {},
   block |-> {<<"/", "admin", "/", "**">>}]
Category(sitemap, maxUrls) == [sitemap |-> sitemap, maxUrls |-> maxUrls]
Website == Crawl("website", None, None)

AllCrawls ==
  {Crawl("page", t, None) : t \in {A3, None, Blog, Other}}
    \cup {Crawl("group", None, Category(m, MaxUrls)) :
            m \in {None, "root", "nested", "twins", "cousins", "bare", "foreign"}}
    \cup {Crawl("group", None, Category("posts", 1))}
    \cup {Crawl("group", None, Category(m, 9)) : m \in {"root", "wide"}}
    \cup {Website, [Website EXCEPT !.allow = {<<"a">>, <<"/">>, <<"/", "?">>},
                                !.block = {<<"**", "d">>, <<"/", "*", "/", "e">>}]}
=============================================================================
