--------------------------- MODULE MCSchemaHistory ---------------------------
(* Instances of SchemaHistory: a product page that is marked up in every    *)
(* format, loses what a rich result requires, repeats itself and grows too *)
(* large to load, and a page with little to say.                           *)
EXTENDS SchemaHistory, SchemaEngine, SchemaPacks

CONSTANTS p, q

MCPages == {p, q}

MCShortNames ==
  [n \in {"schema:Product"} |-> "Product"] @@ [n \in {"https://schema.org/Product"} |-> "Product"]
    @@ [n \in {"schema:name"} |-> "name"] @@ [n \in {"https://schema.org/InStock"} |-> "InStock"]

Text(says) == [kind |-> "text", says |-> says, formats |-> {}]
Url(says) == [kind |-> "text", says |-> says, formats |-> {"URL"}]
Number(says) == [kind |-> "number", says |-> says, formats |-> {"Number", "Integer"}]
List(items) == [kind |-> "array", items |-> items]
Object(entries) == [kind |-> "object", entries |-> entries]
E(key, value) == [key |-> key, value |-> value]

MCLarge == "a whole document"

Offer == Object(<<E("@type", Text("Offer")), E("price", Text("9.99")),
                  E("availability", Url("https://schema.org/InStock"))>>)

Phone(type, entries) ==
  Object(<<E("@context", Url("https://schema.org")), E("@type", type),
           E("schema:name", Text("Phone"))>> \o entries)

Image == E("image", Url("https://acme.example/phone.jpg"))
Product == Text("schema:Product")

(* An element of a document.                                               *)
El(tag, property, value, children) ==
  [tag |-> tag, property |-> property, item |-> None, id |-> None, children |-> children,
   text |-> value, attributes |-> [a \in {} |-> Blank]]
With(el, attribute, value) == [el EXCEPT !.attributes = @ @@ (attribute :> value)]
Item(el, types) == [el EXCEPT !.item = types]

NameAndImage ==
  <<El("h1", <<"name">>, Text("Phone"), <<>>),
    El("div", None, Blank, <<With(El("img", <<"image">>, Blank, <<>>), "src", Url("https://acme.example/phone.jpg"))>>)>>

Nothing == [scripts |-> <<>>, microdata |-> <<>>, rdfa |-> <<>>]
Scripts(scripts) == [Nothing EXCEPT !.scripts = scripts]

Eligible == Scripts(<<Phone(Product, <<Image, E("offers", List(<<Offer>>))>>)>>)
Reordered == Scripts(<<[kind |-> "blank"],
                       Phone(List(<<Product>>), <<E("offers", Offer), Image, E("sku", [kind |-> "null"])>>)>>)
NoImage == Scripts(<<Phone(Product, <<E("image", Text("")), E("reviews", Text("good"))>>)>>)
Mistaken == Scripts(<<[kind |-> "invalid"], Phone(Product, <<Image, E("brand", Text("none"))>>),
                      Object(<<E("description", Object(<<E("@value", Text("A phone"))>>))>>)>>)
Twice == Scripts(<<Object(<<E("@graph", List(<<Phone(Product, <<Image>>), Phone(Product, <<>>)>>))>>)>>)
Catalog == Scripts(<<List(<<Phone(Product, <<Image>>),
                            Object(<<E("@type", Product), E("name", Text("Case"))>>)>>)>>)
Grown == Scripts(<<Phone(Product, <<Image, E("description", Text(MCLarge))>>)>>)
SecondType == Scripts(<<Phone(List(<<Text("Thing"), Product>>), <<Image>>)>>)

Microdata ==
  [Nothing EXCEPT !.microdata =
     <<Item(El("div", None, Blank,
         Append(NameAndImage, Item(El("div", <<"brand">>, Blank,
           <<El("span", <<"name">>, Text("Acme"), <<>>)>>), <<"Brand">>))), <<"https://schema.org/Product">>)>>]

Rdfa ==
  [Nothing EXCEPT !.rdfa =
     <<El("body", None, Blank, <<[Item(El("div", None, Blank, NameAndImage), <<"Product">>) EXCEPT !.id = "#phone"]>>)>>]

Rating(items) ==
  Object(<<E("@type", Text("AggregateRating")), E("ratingValue", Number("4")), E("bestRating", Number("5")),
           E("itemReviewed", Object(<<E("@id", Text("#phone"))>>))>> \o items)

Rated == Scripts(<<Rating(<<E("reviewCount", Number("12"))>>)>>)
Unrated == Scripts(<<Rating(<<>>)>>)

MCDocuments ==
  (p :> {Eligible, Reordered, NoImage, Mistaken, Twice, Catalog, Grown, SecondType, Microdata, Rdfa})
    @@ (q :> {Nothing, Rated, Unrated})
=============================================================================
