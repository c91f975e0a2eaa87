----------------------------- MODULE SchemaEngine -----------------------------
(***************************************************************************)
(* The schema engine on trees: the entities it extracts from the JSON-LD,  *)
(* microdata and RDFa of a document, those it finds inside an entity, and  *)
(* what it compares of a value.  Trees have any depth, so these operators  *)
(* are recursive; what the engine says of an entity is in SchemaVerdicts,  *)
(* and module SchemaHistory runs both.                                     *)
(*                                                                         *)
(* A JSON object is the sequence of its entries, each key once.  An        *)
(* element of a document has the attributes the extraction reads.          *)
(***************************************************************************)
EXTENDS SchemaVerdicts

ShortNamesOf(names) == [i \in DOMAIN names |-> ShortName(names[i])]

Blank == [kind |-> "text", says |-> "", formats |-> {}]

Without(values, unwanted) == SelectSeq(values, LAMBDA v : v # unwanted)
FlatMap(Each(_), list) == FlattenSeq([i \in DOMAIN list |-> Each(list[i])])

-----------------------------------------------------------------------------
(* Entities.                                                               *)

RECURSIVE Clean(_)
Clean(value) ==
  CASE value.kind = "array" -> [kind |-> "array", items |-> [i \in DOMAIN value.items |-> Clean(value.items[i])]]
    [] value.kind = "entity" -> value.hash
    [] OTHER -> value

(* The order of the types does not count, nor do the ids.                  *)
HashOf(types, properties) ==
  [kind |-> "content",
   types |-> [t \in ToSet(types) |-> Cardinality({i \in DOMAIN types : types[i] = t})],
   properties |-> [p \in DOMAIN properties |-> Clean(properties[p])]]

RECURSIVE FirstString(_)
FirstString(value) ==
  CASE value.kind = "text" -> value.says
    [] value.kind = "array" ->
         LET strings == Without([i \in DOMAIN value.items |-> FirstString(value.items[i])], None)
             nonblank == Without(strings, "")
         IN  IF nonblank = <<>> THEN None ELSE Head(nonblank)
    [] OTHER -> None

Named(properties, p) == IF p \in DOMAIN properties THEN FirstString(properties[p]) ELSE None

(* No entity when there is neither a type nor a property.                  *)
BuildEntity(types, properties, format, id) ==
  LET named == Without(<<id, Named(properties, "url"), Named(properties, "name")>>, None) IN
  IF types = <<>> /\ DOMAIN properties = {} THEN None
  ELSE [kind |-> "entity", types |-> types, format |-> format, properties |-> properties,
        identity |-> IF named = <<>> THEN None ELSE Head(named),
        hash |-> HashOf(types, properties)]

-----------------------------------------------------------------------------
(* JSON-LD.                                                                *)

Keys(object) == {object.entries[i].key : i \in DOMAIN object.entries}
At(object, key) == (CHOOSE e \in ToSet(object.entries) : e.key = key).value

RECURSIVE RootNodes(_)
RootNodes(json) ==
  CASE json.kind = "array" -> FlatMap(RootNodes, json.items)
    [] json.kind = "object" ->
         IF "@graph" \in Keys(json) /\ At(json, "@graph").kind = "array"
         THEN RootNodes(At(json, "@graph"))
         ELSE <<json>>
    [] OTHER -> <<>>

ToTypes(object) ==
  IF "@type" \notin Keys(object) THEN <<>>
  ELSE LET raw == At(object, "@type")
           named == IF raw.kind = "array" THEN raw.items ELSE <<raw>>
           texts == SelectSeq(named, LAMBDA t : t.kind = "text")
       IN  [i \in DOMAIN texts |-> ShortName(texts[i].says)]

Keywords == {"@type", "@id", "@graph", "@context", "@value", "@language"}

IsReference(object) == Keys(object) = {"@id"}

RECURSIVE JsonValue(_), JsonEntity(_)

(* None is a value that is left out.                                       *)
JsonValue(value) ==
  CASE value.kind = "null" -> None
    [] value.kind = "array" ->
         LET items == Without([i \in DOMAIN value.items |-> JsonValue(value.items[i])], None) IN
         IF Len(items) = 1 THEN Head(items) ELSE [kind |-> "array", items |-> items]
    [] value.kind = "object" ->
         CASE "@value" \in Keys(value) -> At(value, "@value")
           [] "@value" \notin Keys(value) /\ IsReference(value) ->
                [kind |-> "ref", ref |-> At(value, "@id").says]
           [] OTHER -> JsonEntity(value)
    [] OTHER -> value

(* Of two keys with one short name the later stands.                       *)
JsonEntity(object) ==
  LET kept == SelectSeq(object.entries,
                LAMBDA e : e.key \notin Keywords /\ JsonValue(e.value) # None)
      Under(p) == SelectSeq(kept, LAMBDA e : ShortName(e.key) = p)
      properties == [p \in {ShortName(kept[i].key) : i \in DOMAIN kept} |->
                       JsonValue(Last(Under(p)).value)]
      id == IF "@id" \in Keys(object) /\ At(object, "@id").kind = "text"
            THEN At(object, "@id").says ELSE None
  IN  BuildEntity(ToTypes(object), properties, "json-ld", id)

ExtractJsonLd(scripts) ==
  LET valid == SelectSeq(scripts, LAMBDA s : s.kind \notin {"blank", "invalid"}) IN
  Without(FlatMap(LAMBDA s : LET roots == RootNodes(s) IN
                             [i \in DOMAIN roots |-> JsonEntity(roots[i])], valid), None)

-----------------------------------------------------------------------------
(* Microdata and RDFa.                                                     *)

Attribute(el, name, default) == IF name \in DOMAIN el.attributes THEN el.attributes[name] ELSE default

(* A name given again makes an array of its values.                        *)
AddProp(properties, name, value) ==
  IF name \notin DOMAIN properties THEN properties @@ (name :> value)
  ELSE LET old == properties[name] IN
       [properties EXCEPT ![name] =
          [kind |-> "array", items |-> IF old.kind = "array" THEN Append(old.items, value)
                                       ELSE <<old, value>>]]

(* found: the [name, value] pairs in document order.                       *)
Collected(found) ==
  FoldLeft(LAMBDA properties, f : AddProp(properties, ShortName(f.name), f.value), NoProperties, found)

MicrodataValue(el) ==
  CASE el.tag = "meta" -> Attribute(el, "content", Blank)
    [] el.tag \in {"a", "area", "link"} -> Attribute(el, "href", Blank)
    [] el.tag \in {"img", "audio", "video", "source", "embed"} -> Attribute(el, "src", Blank)
    [] el.tag = "object" -> Attribute(el, "data", Blank)
    [] el.tag = "time" -> Attribute(el, "datetime", el.text)
    [] el.tag = "data" -> Attribute(el, "value", el.text)
    [] OTHER -> Attribute(el, "content", el.text)

RdfaValue(el) ==
  CASE "content" \in DOMAIN el.attributes -> el.attributes["content"]
    [] "content" \notin DOMAIN el.attributes /\ el.tag \in {"a", "link", "area"} ->
         Attribute(el, "href", el.text)
    [] "content" \notin DOMAIN el.attributes /\ el.tag = "img" -> Attribute(el, "src", Blank)
    [] "content" \notin DOMAIN el.attributes /\ el.tag = "time" -> Attribute(el, "datetime", el.text)
    [] OTHER -> Attribute(el, "resource", el.text)

IsProperty(el) == el.property # None
IsItem(el) == el.item # None

(* The properties below an item, not those inside another item.            *)
RECURSIVE ItemProperties(_)
ItemProperties(el) ==
  FlatMap(LAMBDA child : (IF IsProperty(child) THEN <<child>> ELSE <<>>)
                           \o (IF IsItem(child) THEN <<>> ELSE ItemProperties(child)), el.children)

NamedValues(el, value) == [i \in DOMAIN el.property |-> [name |-> el.property[i], value |-> value]]

RECURSIVE MicrodataItem(_), RdfaItem(_)

MicrodataItem(el) ==
  LET ValueOf(prop) == IF IsItem(prop) THEN MicrodataItem(prop) ELSE MicrodataValue(prop)
      found == FlatMap(LAMBDA prop : IF ValueOf(prop) = None THEN <<>>
                                     ELSE NamedValues(prop, ValueOf(prop)), ItemProperties(el))
  IN  BuildEntity(ShortNamesOf(el.item), Collected(found), "microdata", el.id)

(* An item that is nothing gives its text; a blank text is left out.       *)
RdfaItem(el) ==
  LET ValueOf(prop) == IF IsItem(prop) /\ RdfaItem(prop) # None THEN RdfaItem(prop) ELSE RdfaValue(prop)
      found == FlatMap(LAMBDA prop : IF ValueOf(prop) = Blank THEN <<>>
                                     ELSE NamedValues(prop, ValueOf(prop)), ItemProperties(el))
  IN  BuildEntity(ShortNamesOf(el.item), Collected(found), "rdfa", el.id)

(* Microdata: every item that is no property, wherever it is.              *)
RECURSIVE LooseItems(_), OuterItems(_)
LooseItems(elements) ==
  FlatMap(LAMBDA el : (IF IsItem(el) /\ ~IsProperty(el) THEN <<el>> ELSE <<>>)
                        \o LooseItems(el.children), elements)

(* RDFa: only the items inside no other.                                   *)
OuterItems(elements) ==
  FlatMap(LAMBDA el : IF IsItem(el) THEN <<el>> ELSE OuterItems(el.children), elements)

ExtractEntities(doc) ==
  LET micro == LooseItems(doc.microdata)
      rdfa == OuterItems(doc.rdfa)
  IN  ExtractJsonLd(doc.scripts)
        \o Without([i \in DOMAIN micro |-> MicrodataItem(micro[i])], None)
        \o Without([i \in DOMAIN rdfa |-> RdfaItem(rdfa[i])], None)

-----------------------------------------------------------------------------
(* The entities inside an entity.                                          *)

RECURSIVE NestedEntities(_)
NestedEntities(value) ==
  CASE value.kind = "entity" -> {value}
    [] value.kind = "array" -> UNION {NestedEntities(value.items[i]) : i \in DOMAIN value.items}
    [] OTHER -> {}

(* An undefined property's own value is not looked into.                   *)
Children(entity) ==
  UNION {NestedEntities(entity.properties[p]) : p \in DOMAIN entity.properties \ Undefined(entity)}

RECURSIVE EntitiesInside(_)
EntitiesInside(entity) == Children(entity) \cup UNION {EntitiesInside(e) : e \in Children(entity)}

-----------------------------------------------------------------------------
(* What the diff compares of a value.                                      *)

(* Of an entity inside another only the type and the identity count.       *)
RECURSIVE Scalar(_)
Scalar(value) ==
  CASE value.kind = "array" ->
         [kind |-> "array", items |-> [i \in DOMAIN value.items |-> Scalar(value.items[i])]]
    [] value.kind = "entity" ->
         [kind |-> "entity", type |-> PrimaryType(value), identity |-> value.identity]
    [] OTHER -> value
=============================================================================
