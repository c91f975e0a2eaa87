----------------------------- MODULE SchemaHistory -----------------------------
(***************************************************************************)
(* The structured data of a website's pages through successive crawls: the *)
(* entities each crawl records, what its report says changed since the     *)
(* last one, and its rollup.  Meanwhile the site changes.  A crawl covers  *)
(* the site or one page of it, may be abandoned, and may fail on a page;   *)
(* retries and the order of the jobs are in PagePipeline.                  *)
(***************************************************************************)
EXTENDS SchemaVerdicts

CONSTANTS
  Pages,
  Documents,     \* for each page, what the site may serve for it
  Extract(_),    \* the entities the engine finds in a document
  Scalarize(_),  \* what the diff compares of a value
  Large,         \* a text larger than maxPropertyBytes
  MaxCrawls,     \* bound: crawls
  MaxChanges     \* bound: changes of the site

Scopes == {"site"} \cup Pages

VARIABLES
  served,    \* what the site serves for each page
  phase,     \* of the crawl: "idle", "crawl", "done" when completed
  scope,     \* of the crawl
  report,    \* page_snapshots and schema_entities of the crawl, by page
  baseline,  \* scope and report of the completed crawl before it
  changes,   \* crawl_changes
  metrics,   \* the schema part of crawl_aggregates
  crawls, siteChanges

vars == <<served, phase, scope, report, baseline, changes, metrics, crawls, siteChanges>>

crawl == <<phase, scope, report, baseline, changes, metrics, crawls>>
site == <<served, siteChanges>>

Unvisited == [outcome |-> "none", document |-> None, entities |-> <<>>, summary |-> None]
NoReport == [p \in Pages |-> Unvisited]
NoMetrics == [entities |-> 0, with |-> 0, without |-> 0, eligible |-> 0]

(* toSchemaEntities                                                        *)
Row(entity) ==
  [format |-> entity.format,
   type |-> IF PrimaryType(entity) = "" THEN "Unknown" ELSE PrimaryType(entity),
   identity |-> entity.identity, hash |-> entity.hash, properties |-> entity.properties,
   status |-> ValidateEntity(entity).status, confidence |-> ValidateEntity(entity).confidence,
   rich |-> EvaluateRichResults(entity)]

AllDocuments == UNION {Documents[p] : p \in Pages}
EntitiesOf == [d \in AllDocuments |-> Extract(d)]
RowsOf == [d \in AllDocuments |-> [i \in DOMAIN EntitiesOf[d] |-> Row(EntitiesOf[d][i])]]

(* schemaSummary, kept with the snapshot.                                  *)
SummaryOf == [d \in AllDocuments |-> Coverage(EntitiesOf[d], InvalidJson(d.scripts))]

-----------------------------------------------------------------------------
(* What the proofs rest on of the sites, of the packs and of the engine.   *)

ASSUME PagesAssumption == IsFiniteSet(Pages) /\ None \notin Scopes

(* The profiles are of types of the vocabulary, and ask for properties of  *)
(* these types; none is of "Unknown", the type of the rows without one.    *)
ASSUME PacksAgree ==
  \A f \in DOMAIN Profiles :
    /\ "Unknown" \notin Profiles[f].appliesTo
    /\ \A t \in Profiles[f].appliesTo :
         Profiles[f].required \cup Profiles[f].recommended
           \subseteq DOMAIN CollectProperties(t) \cup GLOBAL_PROPS

AllEntities == UNION {ToSet(EntitiesOf[d]) : d \in AllDocuments}

(* No entity is of a type "Unknown" and of an empty one besides: a row of  *)
(* type "Unknown" does not tell which of them is the first.                *)
ASSUME EntitiesAssumption ==
  /\ \A d \in AllDocuments : EntitiesOf[d] \in Seq(AllEntities) /\ SummaryOf[d] # None
  /\ \A e \in AllEntities : e.types \in Seq(ToSet(e.types)) /\ ~({"", "Unknown"} \subseteq ToSet(e.types))

(* Of one hash are one set of types and the presence of the same properties. *)
ASSUME HashAssumption ==
  \A e, g \in AllEntities :
    e.hash = g.hash =>
      /\ ToSet(e.types) = ToSet(g.types)
      /\ \A p \in DOMAIN e.properties \cup DOMAIN g.properties : HasProperty(e, p) <=> HasProperty(g, p)

-----------------------------------------------------------------------------

Init ==
  /\ served \in [Pages -> AllDocuments]
  /\ \A p \in Pages : served[p] \in Documents[p]
  /\ phase = "idle" /\ scope = "site"
  /\ report = NoReport
  /\ baseline = [scope |-> None, report |-> NoReport]
  /\ changes = {} /\ metrics = NoMetrics
  /\ crawls = 0 /\ siteChanges = 0

Change(p) ==
  /\ siteChanges < MaxChanges
  /\ siteChanges' = siteChanges + 1
  /\ \E d \in Documents[p] \ {served[p]} : served' = [served EXCEPT ![p] = d]
  /\ UNCHANGED crawl

(* findPreviousCompleted: the scope does not matter, only the completion.  *)
PreviousCompleted ==
  IF phase = "done" THEN [scope |-> scope, report |-> report] ELSE baseline

StartCrawl(s) ==
  /\ phase \in {"idle", "done"} /\ crawls < MaxCrawls
  /\ crawls' = crawls + 1
  /\ phase' = "crawl" /\ scope' = s
  /\ baseline' = PreviousCompleted
  /\ report' = NoReport
  /\ changes' = {} /\ metrics' = NoMetrics
  /\ UNCHANGED site

ToVisit == {p \in Pages : scope \in {"site", p} /\ report[p] = Unvisited}

Record(p, page) ==
  /\ phase = "crawl" /\ p \in ToVisit
  /\ report' = [report EXCEPT ![p] = page]
  /\ UNCHANGED <<phase, scope, baseline, changes, metrics, crawls, site>>

ValidateAndPersist(p) ==
  Record(p, [outcome |-> "ok", document |-> served[p], entities |-> RowsOf[served[p]],
             summary |-> SummaryOf[served[p]]])

(* Mutant: a carried page keeps its snapshot and not its entities.         *)
CarryForwardBare(p) ==
  /\ baseline.report[p].outcome \in {"ok", "carried"}
  /\ served[p] = baseline.report[p].document
  /\ Record(p, [baseline.report[p] EXCEPT !.outcome = "carried", !.entities = <<>>])

(* The page is the one of the baseline: its snapshot and rows are copied.  *)
CarryForward(p) ==
  /\ baseline.report[p].outcome \in {"ok", "carried"}
  /\ served[p] = baseline.report[p].document
  /\ Record(p, [baseline.report[p] EXCEPT !.outcome = "carried"])

PersistFetchError(p) == Record(p, [Unvisited EXCEPT !.outcome = "failed"])

(* Cancelled or failed: no report, and never a baseline.                   *)
Abandon ==
  /\ phase = "crawl"
  /\ phase' = "idle"
  /\ UNCHANGED <<scope, report, baseline, changes, metrics, crawls, site>>

-----------------------------------------------------------------------------
(* diffPageSchema.                                                         *)

Oversized(row) ==
  \E p \in DOMAIN row.properties :
    row.properties[p].kind = "text" /\ row.properties[p].says = Large

(* What a row's properties take to load decides whether they are loaded.   *)
LoadSummary(row) == [row EXCEPT !.properties = IF Oversized(row) THEN NoProperties ELSE @]

(* Mutant: whatever has its type.                                          *)
KeyByType(row) == [type |-> row.type, identity |-> None, hash |-> None]

Key(row) ==
  IF row.identity \in {None, ""}
  THEN [type |-> row.type, identity |-> None, hash |-> row.hash]
  ELSE [type |-> row.type, identity |-> row.identity, hash |-> None]

KeysOf(rows) == {Key(rows[i]) : i \in DOMAIN rows}

(* The first row of each key stands, and no ORDER BY says which is first.  *)
Indexes(rows) ==
  {index \in [KeysOf(rows) -> ToSet(rows)] : \A k \in KeysOf(rows) : Key(index[k]) = k}

IsPresent(properties, p) ==
  /\ p \in DOMAIN properties
  /\ LET v == properties[p] IN
     ~(v.kind = "text" /\ v.says = "") /\ ~(v.kind = "array" /\ v.items = <<>>)

SchemaChange(type, severity, what) == [type |-> type, severity |-> severity, what |-> what]

PropertyDiff(old, new) ==
  LET Had(p) == IsPresent(old.properties, p)
      Has(p) == IsPresent(new.properties, p)
      names == DOMAIN old.properties \cup DOMAIN new.properties
      Same(p) == Scalarize(old.properties[p]) = Scalarize(new.properties[p])
  IN  {SchemaChange("property_removed", "high", p) : p \in {n \in names : Had(n) /\ ~Has(n)}}
        \cup {SchemaChange("property_added", "info", p) : p \in {n \in names : ~Had(n) /\ Has(n)}}
        \cup {SchemaChange("property_value_changed", "low", p) :
                p \in {n \in names : Had(n) /\ Has(n) /\ ~Same(n)}}

RichResultDiff(old, new) ==
  {SchemaChange("rich_result_changed",
            IF old.rich[f].status = "eligible" /\ new.rich[f].status = "ineligible"
            THEN "high" ELSE "low", f) :
     f \in {g \in DOMAIN old.rich \cap DOMAIN new.rich : old.rich[g].status # new.rich[g].status}}

(* Mutant: it is enough to say that the entity changed.                    *)
ModifiedOnly(old, new) ==
  IF old.hash = new.hash THEN {} ELSE {SchemaChange("schema_modified", "medium", old.type)}

ModifiedDiff(old, new) ==
  IF old.hash = new.hash THEN {}
  ELSE {SchemaChange("schema_modified", "medium", old.type)} \cup PropertyDiff(old, new)

(* before, after: the index of the page in the baseline and in the crawl.  *)
DiffPageSchema(before, after) ==
  {SchemaChange("schema_removed", "high", before[k].type) : k \in DOMAIN before \ DOMAIN after}
    \cup {SchemaChange("schema_added", "info", after[k].type) : k \in DOMAIN after \ DOMAIN before}
    \cup UNION {ModifiedDiff(before[k], after[k]) \cup RichResultDiff(before[k], after[k]) :
                  k \in DOMAIN before \cap DOMAIN after}

Loaded(rows) == [i \in DOMAIN rows |-> LoadSummary(rows[i])]

DiffsOf(p) ==
  {DiffPageSchema(before, after) :
     before \in Indexes(Loaded(baseline.report[p].entities)),
     after \in Indexes(Loaded(report[p].entities))}

-----------------------------------------------------------------------------
(* FinalizeProcessor.                                                      *)

AllRows == [p \in Pages |-> report[p].entities]

IsEligible(row) == \E f \in DOMAIN row.rich : row.rich[f].status # "ineligible"

(* A failed page is scored too, so it is a page without structured data.   *)
ComputeAggregates ==
  LET with == {p \in Pages : AllRows[p] # <<>>}
      scored == {p \in Pages : report[p].outcome # "none"}
      eligible == [p \in Pages |-> {i \in DOMAIN AllRows[p] : IsEligible(AllRows[p][i])}]
  IN  [entities |-> SumFunction([p \in Pages |-> Len(AllRows[p])]),
       with |-> Cardinality(with), without |-> Cardinality(scored) - Cardinality(with),
       eligible |-> SumFunction([p \in Pages |-> Cardinality(eligible[p])])]

(* The pages with entities in either crawl, whichever pages it covered.    *)
DetectSchemaChanges ==
  IF baseline.scope = None THEN changes' = {}
  ELSE \E diff \in [Pages -> UNION {DiffsOf(p) : p \in Pages}] :
         /\ \A p \in Pages : diff[p] \in DiffsOf(p)
         /\ changes' = UNION {{[page |-> p, change |-> c] : c \in diff[p]} : p \in Pages}

Finalize ==
  /\ phase = "crawl" /\ ToVisit = {}
  /\ phase' = "done"
  /\ DetectSchemaChanges
  /\ metrics' = ComputeAggregates
  /\ UNCHANGED <<scope, report, baseline, crawls, site>>

Next ==
  \/ \E p \in Pages : Change(p)
  \/ \E s \in Scopes : StartCrawl(s)
  \/ \E p \in Pages : ValidateAndPersist(p)
  \/ \E p \in Pages : CarryForward(p)
  \/ \E p \in Pages : PersistFetchError(p)
  \/ Abandon
  \/ Finalize

Spec == Init /\ [][Next]_vars

-----------------------------------------------------------------------------
(* Properties.                                                             *)

(* The two verdicts on an entity are made apart, by validation from the    *)
(* vocabulary and by the rich results from the profiles.  They agree: one  *)
(* who reads "valid" has every rich result, one who lacks a rich result    *)
(* for good reads "errors"; and no property that a rich result for its     *)
(* first known type asks for is one that is called undefined when present. *)
EligibilityAgrees ==
  \A p \in Pages : \A i \in DOMAIN report[p].entities :
    LET row == report[p].entities[i]
        entity == EntitiesOf[report[p].document][i]
        statuses == {row.rich[f].status : f \in DOMAIN row.rich}
    IN  /\ row.status = "valid" => statuses \subseteq {"eligible"}
        /\ "ineligible" \in statuses => row.status = "errors"
        /\ \A f \in {g \in DOMAIN row.rich :
                      ResolveKnownType(entity.types) \in Profiles[g].appliesTo} :
             UndefinedOf(entity.types, Profiles[f].required \cup Profiles[f].recommended) = {}

(* What a document says, told from the document.                           *)
Identity(e) == IF e.identity = "" THEN None ELSE e.identity
Says(document) == {<<PrimaryType(e), Identity(e), e.hash>> : e \in ToSet(EntitiesOf[document])}

(* No two rows are of one type with one identity, or with one content and  *)
(* no identity.                                                            *)
KeysDistinct(rows) ==
  \A i, j \in DOMAIN rows :
    /\ i < j /\ rows[i].type = rows[j].type /\ Identity(rows[i]) = Identity(rows[j])
    => Identity(rows[i]) = None /\ rows[i].hash # rows[j].hash

Compared(p) == /\ phase = "done"
               /\ {report[p].outcome, baseline.report[p].outcome} \subseteq {"ok", "carried"}

ChangesOf(p) == {c.change : c \in {d \in changes : d.page = p}}

(* A page fetched by both crawls has changes in the report exactly when    *)
(* what its documents say has changed, however its markup was rewritten    *)
(* and whether or not it was carried forward; unless two of its entities   *)
(* have one key, when the report may compare either of them.               *)
ChangesAreReal ==
  \A p \in Pages :
    LET before == baseline.report[p] after == report[p] IN
    Compared(p) /\ KeysDistinct(before.entities) /\ KeysDistinct(after.entities) =>
      (ChangesOf(p) = {} <=> Says(before.document) = Says(after.document))

(* A rich result that an entity of the baseline had for its first type and *)
(* that no entity of the page has any more is told with severity high,     *)
(* whatever became of the page; unless the entity was too large to load or *)
(* shared its key.                                                         *)
LossIsTold ==
  phase = "done" /\ baseline.scope # None =>
    \A p \in Pages : \A row \in ToSet(baseline.report[p].entities) : \A f \in DOMAIN row.rich :
      LET lost == /\ row.type \in Profiles[f].appliesTo
                  /\ row.rich[f].status # "ineligible"
                  /\ \A new \in ToSet(report[p].entities) :
                       f \in DOMAIN new.rich => new.rich[f].status = "ineligible"
      IN  lost /\ KeysDistinct(baseline.report[p].entities) /\ ~Oversized(row) =>
            \E c \in ChangesOf(p) : c.severity = "high"

(* The rollup, which SQL counts from the entity rows, agrees with the      *)
(* summaries that the engine made of the pages as it audited them, in this *)
(* crawl or in the one a page is carried from; and every page of the scope *)
(* is counted with structured data or without.                             *)
RollupMatchesPages ==
  phase = "done" =>
    LET seen == {p \in Pages : report[p].summary # None}
        Failed == {p \in Pages : report[p].outcome = "failed"}
    IN  /\ metrics.entities = SumFunction([p \in seen |-> report[p].summary.entityCount])
        /\ metrics.eligible = SumFunction([p \in seen |-> report[p].summary.richEligible])
        /\ metrics.with = Cardinality({p \in seen : report[p].summary.types # {}})
        /\ metrics.with + metrics.without = Cardinality(seen \cup Failed)

(* finalize.processor.ts: "vs the previous completed crawl of the SAME     *)
(* scope - baselining a category against a different category would diff   *)
(* two unrelated URL sets".                                                *)
BaselineOfSameScope ==
  phase = "done" => \A c \in changes : report[c.page] # Unvisited
=============================================================================
