------------------------------ MODULE MCFetchPath ------------------------------
(***************************************************************************)
(* Two pages of a site and a link target: hosts whose lookups mix public   *)
(* and reserved records just inside and outside a block, redirects in a    *)
(* circle, to a fixture and to a mapped private address, bodies that are   *)
(* too large, broken, empty or in need of the browser.                     *)
(***************************************************************************)
EXTENDS FetchPath

CONSTANTS a, b, l

MCPages == {a, b}
MCLinks == {l}

Name(domain, name) == [kind |-> "name", domain |-> domain, name |-> name, address |-> None]
Literal(address) == [kind |-> "literal", domain |-> "literal", name |-> None, address |-> address]

Acme == Name("acme", "acme")
Cdn == Name("acme", "cdn.acme")
Fixture == Literal(V4(127, 0, 0, 1))
Mapped == Literal(V6([head |-> <<>>, tail |-> <<65535>>, v4 |-> <<10, 0, 0, 1>>]))

Url(protocol, host, port) == [protocol |-> protocol, host |-> host, port |-> port]

MCParsed ==
  [home |-> Url("http:", Acme, None), app |-> Url("https:", Acme, None),
   asset |-> Url("http:", Cdn, None), local |-> Url("http:", Fixture, 8080),
   folded |-> Url("http:", Mapped, 8080)]

MCTarget == (a :> "home") @@ (b :> "app") @@ (l :> "asset")
MCAllow == {<<Fixture, 8080>>}

MCLookups ==
  (Acme :> {<<V4(93, 184, 216, 34)>>}) @@
  (Cdn :> {<<>>, <<V4(100, 128, 0, 1)>>, <<V4(172, 32, 0, 1), V4(100, 127, 0, 1)>>,
           <<V6([head |-> <<65215>>, tail |-> <<1>>, v4 |-> None])>>})

Response(status, located, location) ==
  [status |-> status, located |-> located, location |-> location, encoding |-> None,
   corrupt |-> FALSE, sent |-> 1, size |-> 1, appRoot |-> FALSE, text |-> 500]
Plain(status) == Response(status, FALSE, None)
Ok == Plain(200)
Shell == [Ok EXCEPT !.appRoot = TRUE, !.text = 10]
Empty == [Ok EXCEPT !.sent = 0, !.size = 0]
Bomb == [Ok EXCEPT !.encoding = "gzip", !.size = 9]
Broken == [Ok EXCEPT !.encoding = "br", !.corrupt = TRUE]
To(status, url) == Response(status, TRUE, url)

MCServes ==
  [home |-> {Plain(304), Shell},
   app |-> {Bomb, Empty, To(307, "local"), To(303, "folded")},
   asset |-> {Ok, Plain(405)},
   local |-> {Broken, Ok, To(301, "local")}, folded |-> {}]

MCSettings == {[userAgent |-> "own", renderPolicy |-> "always", rate |-> 12]}
MCDefaults == [userAgent |-> "process", rate |-> 10]
=============================================================================
