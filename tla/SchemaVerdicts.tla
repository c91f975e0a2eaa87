---------------------------- MODULE SchemaVerdicts ----------------------------
(***************************************************************************)
(* What the schema engine says of an entity: whether its properties are    *)
(* those of its type and have the values the vocabulary expects, which     *)
(* rich results it is eligible for, and the summary of a page.  Entities   *)
(* inside an entity are found by a walk, EntitiesWithin; SchemaEngine has  *)
(* it, with the extraction.                                                *)
(*                                                                         *)
(* A value is a record with its kind.  A text says something and is in     *)
(* some of the formats "URL", "Date", "Number", "Integer" and "Boolean".   *)
(***************************************************************************)
EXTENDS Integers, Sequences, FiniteSets, FiniteSetsExt, SequencesExt, TLC

CONSTANTS
  None,              \* null, and an attribute that is absent
  ShortNames,        \* the schema.org names in use, to their short forms
  Vocab,             \* the vocabulary pack
  Profiles,          \* the profile pack
  EntitiesWithin(_)  \* the entities inside an entity that validation looks into

ShortName(name) == IF name \in DOMAIN ShortNames THEN ShortNames[name] ELSE name

NoProperties == [p \in {} |-> {}]

PrimaryType(entity) == IF entity.types = <<>> THEN "" ELSE Head(entity.types)

-----------------------------------------------------------------------------
(* The vocabulary.                                                         *)

GLOBAL_PROPS == {"additionalType", "identifier", "sameAs", "url", "name", "description", "image",
                 "alternateName", "mainEntityOfPage", "potentialAction", "subjectOf"}

ResolveKnownType(types) ==
  LET known == SelectSeq(types, LAMBDA t : t \in DOMAIN Vocab.types) IN
  IF known = <<>> THEN None ELSE Head(known)

(* A type's own properties first, then its parents' in their order.        *)
TypeProperties[type \in DOMAIN Vocab.types] ==
  LET Of(parent) == IF parent \in DOMAIN Vocab.types THEN TypeProperties[parent] ELSE NoProperties IN
  FoldLeft(LAMBDA found, parent : found @@ Of(parent), Vocab.types[type].properties, Vocab.types[type].parents)

CollectProperties(type) ==
  IF type \in DOMAIN Vocab.types THEN TypeProperties[type] ELSE NoProperties

Ancestors[type \in DOMAIN Vocab.types] ==
  LET parents == ToSet(Vocab.types[type].parents) IN
  parents \cup UNION {Ancestors[parent] : parent \in parents \cap DOMAIN Vocab.types}

IsSubtypeOf(type, ancestor) ==
  type = ancestor \/ (type \in DOMAIN Vocab.types /\ ancestor \in Ancestors[type])

EffectiveSpec(known, prop) ==
  LET defined == IF known = None THEN NoProperties ELSE CollectProperties(known)
      things == Vocab.types["Thing"].properties
  IN  CASE prop \in DOMAIN defined -> defined[prop]
        [] prop \notin DOMAIN defined /\ prop \in GLOBAL_PROPS \cap DOMAIN things -> things[prop]
        [] OTHER -> None

-----------------------------------------------------------------------------
(* Validation.                                                             *)

HasFormat(value, format) == value.kind \in {"text", "number", "boolean"} /\ format \in value.formats

MatchesScalar(value, expected) ==
  CASE expected = "Text" -> value.kind \in {"text", "number", "boolean"}
    [] expected \in {"Date", "DateTime", "Time"} -> value.kind = "text" /\ HasFormat(value, "Date")
    [] OTHER -> HasFormat(value, expected)

SCALAR == {"Text", "URL", "Date", "DateTime", "Time", "Number", "Integer", "Boolean"}

(* A text stands for an entity only when it is its URL.                    *)
MatchesOne(value, expected) ==
  CASE expected \in DOMAIN Vocab.enumerations ->
         value.kind = "text" /\ (value.says \in Vocab.enumerations[expected]
                                   \/ ShortName(value.says) \in Vocab.enumerations[expected])
    [] expected \in SCALAR -> MatchesScalar(value, expected)
    [] OTHER -> \/ value.kind = "entity" /\ \E t \in ToSet(value.types) : IsSubtypeOf(t, expected)
                \/ value.kind = "ref"
                \/ value.kind = "text" /\ HasFormat(value, "URL")

AsArray(value) == IF value.kind = "array" THEN value.items ELSE <<value>>

Matches(value, expected) ==
  \A i \in DOMAIN AsArray(value) : \E exp \in expected : MatchesOne(AsArray(value)[i], exp)

HasProperty(entity, prop) ==
  /\ prop \in DOMAIN entity.properties
  /\ LET v == entity.properties[prop] IN
     ~(v.kind = "text" /\ v.says = "") /\ ~(v.kind = "array" /\ v.items = <<>>)

Applies(profile, entity) == Profiles[profile].appliesTo \cap ToSet(entity.types) # {}

RequiredOf(entity) ==
  UNION {Profiles[f].required : f \in {g \in DOMAIN Profiles : Applies(g, entity)}}

(* Mutant: the profiles of the type that validation knows the entity by.   *)
RecommendedOfKnown(entity) ==
  (UNION {Profiles[f].recommended :
            f \in {g \in DOMAIN Profiles : ResolveKnownType(entity.types) \in Profiles[g].appliesTo}})
    \ RequiredOf(entity)

(* What some profile requires is not merely recommended by another.        *)
RecommendedOf(entity) ==
  (UNION {Profiles[f].recommended : f \in {g \in DOMAIN Profiles : Applies(g, entity)}})
    \ RequiredOf(entity)

Lacking(entity, props) == {p \in props : ~HasProperty(entity, p)}

Result(check, status, prop) == [check |-> check, status |-> status, property |-> prop]
Warnings(check, props) == {Result(check, "warning", p) : p \in props}
Failures(check, props) == {Result(check, "fail", p) : p \in props}

(* Of some names of properties those that an entity of these types has not. *)
UndefinedOf(types, names) ==
  LET known == ResolveKnownType(types) IN
  IF known = None THEN {} ELSE names \ (DOMAIN CollectProperties(known) \cup GLOBAL_PROPS)

Undefined(entity) == UndefinedOf(entity.types, DOMAIN entity.properties)

Mistyped(entity) ==
  {p \in DOMAIN entity.properties :
     LET spec == EffectiveSpec(ResolveKnownType(entity.types), p) IN
     spec # None /\ ~Matches(entity.properties[p], spec)}

TypeResults(entity) ==
  CASE entity.types = <<>> -> Warnings("untyped", {None})
    [] entity.types # <<>> /\ ResolveKnownType(entity.types) = None -> Warnings("unknown_type", {None})
    [] OTHER -> {}

(* Of the entity alone, or of one inside another.                          *)
OwnResults(entity) ==
  TypeResults(entity)
    \cup Warnings("deprecated", DOMAIN entity.properties \cap Vocab.deprecatedProperties)
    \cup Warnings("invalid_property", Undefined(entity))
    \cup Failures("type", Mistyped(entity))

ValidationResults(entity) ==
  (UNION {OwnResults(e) : e \in {entity} \cup EntitiesWithin(entity)})
    \cup Failures("required", Lacking(entity, RequiredOf(entity)))
    \cup Warnings("recommended", Lacking(entity, RecommendedOf(entity)))

(* In hundredths; no better than that of the worst entity inside.          *)
OwnConfidence(entity) ==
  100 - (IF TypeResults(entity) = {} THEN 0 ELSE 20) - (IF entity.format = "json-ld" THEN 0 ELSE 5)

Confidence(entity) == Min({OwnConfidence(e) : e \in {entity} \cup EntitiesWithin(entity)})

ValidateEntity(entity) ==
  LET results == ValidationResults(entity)
      Some(status) == \E r \in results : r.status = status
  IN  [status |-> CASE Some("fail") -> "errors"
                    [] ~Some("fail") /\ Some("warning") -> "warnings"
                    [] OTHER -> "valid",
       results |-> results, confidence |-> Confidence(entity)]

-----------------------------------------------------------------------------
(* Rich results.                                                           *)

Verdict(entity, profile) ==
  LET missing == Lacking(entity, Profiles[profile].required)
      weak == Lacking(entity, Profiles[profile].recommended)
  IN  [missing |-> missing, weak |-> weak,
       status |-> CASE missing # {} -> "ineligible"
                    [] missing = {} /\ weak # {} -> "eligible_with_warnings"
                    [] OTHER -> "eligible"]

EvaluateRichResults(entity) ==
  [f \in {g \in DOMAIN Profiles : Applies(g, entity)} |-> Verdict(entity, f)]

-----------------------------------------------------------------------------
(* The page.                                                               *)

(* A blank script counts for nothing, an invalid one as a parse error.     *)
InvalidJson(scripts) == Cardinality({i \in DOMAIN scripts : scripts[i].kind = "invalid"})

HasRichResult(entity) ==
  LET verdicts == EvaluateRichResults(entity) IN \E f \in DOMAIN verdicts : verdicts[f].missing = {}

Coverage(entities, invalidJson) ==
  LET all == DOMAIN entities
      Count(status) == Cardinality({i \in all : ValidateEntity(entities[i]).status = status})
  IN  [entityCount |-> Len(entities), invalidJson |-> invalidJson,
       types |-> {IF entities[i].types = <<>> THEN "Unknown" ELSE PrimaryType(entities[i]) : i \in all},
       errors |-> Count("errors"), warnings |-> Count("warnings"),
       richEligible |-> Cardinality({i \in all : HasRichResult(entities[i])})]
=============================================================================
