------------------------- MODULE SchemaHistoryProofs -------------------------
(***************************************************************************)
(* Proofs about SchemaHistory, for any pages and documents, any number of  *)
(* crawls and of changes of the site, and any vocabulary, profiles and     *)
(* engine that satisfy the assumptions stated there.                       *)
(***************************************************************************)
EXTENDS SchemaHistory, FiniteSetTheorems, TLAPS

Sums == INSTANCE Folding WITH Op <- +

(* What a crawl may have of a page: nothing yet, a failure, or the rows    *)
(* and the summary of one document, which it fetched or carried forward.   *)
FailedPage == [Unvisited EXCEPT !.outcome = "failed"]
Fetched(o, d) == [outcome |-> o, document |-> d, entities |-> RowsOf[d], summary |-> SummaryOf[d]]
Recorded ==
  {Unvisited, FailedPage} \cup {Fetched(o, d) : o \in {"ok", "carried"}, d \in AllDocuments}

Stored ==
  /\ served \in [Pages -> AllDocuments]
  /\ phase \in {"idle", "crawl", "done"} /\ scope \in Scopes
  /\ report \in [Pages -> Recorded]
  /\ baseline = [scope |-> baseline.scope, report |-> baseline.report]
  /\ baseline.report \in [Pages -> Recorded]
  /\ baseline.scope = None => baseline.report = NoReport

(* A completed crawl has the rollup of its report, and of each page the    *)
(* changes of some pair of indexes.                                        *)
Told ==
  phase = "done" =>
    /\ metrics = ComputeAggregates
    /\ baseline.scope # None => \A p \in Pages : ChangesOf(p) \in DiffsOf(p)

HistoryInv == Stored /\ Told

-----------------------------------------------------------------------------
(* The invariant.                                                          *)

LEMMA RecordedCases ==
  ASSUME NEW page \in Recorded
  PROVE  \/ page = Unvisited
         \/ page = FailedPage
         \/ \E o \in {"ok", "carried"} : \E d \in AllDocuments : page = Fetched(o, d)
BY DEF Recorded

LEMMA InitStored == Init => HistoryInv
<1> HAVE Init
<1>1. served \in [Pages -> AllDocuments] /\ phase = "idle" /\ scope \in Scopes
  BY DEF Init, Scopes
<1>2. report = NoReport /\ baseline = [scope |-> None, report |-> NoReport]
  BY DEF Init
<1>3. NoReport \in [Pages -> Recorded]
  BY DEF NoReport, Recorded
<1>4. QED  BY <1>1, <1>2, <1>3 DEF HistoryInv, Stored, Told

(* A copy of a page's record is a record of the same document.             *)
LEMMA CarriedRecorded ==
  ASSUME NEW page \in Recorded, page.outcome \in {"ok", "carried"}
  PROVE  [page EXCEPT !.outcome = "carried"] \in Recorded
<1>1. page # Unvisited /\ page # FailedPage
  BY DEF Unvisited, FailedPage
<1>2. PICK o \in {"ok", "carried"}, d \in AllDocuments : page = Fetched(o, d)
  BY <1>1, RecordedCases
<1>3. [page EXCEPT !.outcome = "carried"] = Fetched("carried", d)
  BY <1>2 DEF Fetched
<1>4. QED  BY <1>3 DEF Recorded

(* Recording a page changes nothing else, and leaves the crawl unfinished. *)
LEMMA RecordStored ==
  ASSUME HistoryInv, NEW p \in Pages, NEW page \in Recorded, Record(p, page)
  PROVE  HistoryInv'
<1>1. /\ phase = "crawl" /\ phase' = phase /\ scope' = scope /\ baseline' = baseline
      /\ served' = served /\ report' = [report EXCEPT ![p] = page]
  BY DEF Record, site
<1>2. report' \in [Pages -> Recorded]
  BY <1>1 DEF HistoryInv, Stored
<1>3. Stored'
  BY <1>1, <1>2 DEF HistoryInv, Stored
<1>4. QED  BY <1>1, <1>3 DEF HistoryInv, Told

(* The site may change: what is told is told of the report.                *)
LEMMA ChangeStored ==
  ASSUME HistoryInv, served' \in [Pages -> AllDocuments], UNCHANGED crawl
  PROVE  HistoryInv'
<1>1. /\ phase' = phase /\ scope' = scope /\ report' = report /\ baseline' = baseline
      /\ changes' = changes /\ metrics' = metrics
  BY DEF crawl
<1>2. Stored'
  BY <1>1 DEF HistoryInv, Stored
<1>3. ComputeAggregates' = ComputeAggregates
  BY <1>1 DEF ComputeAggregates, AllRows
<1>4. \A p \in Pages : ChangesOf(p)' = ChangesOf(p) /\ DiffsOf(p)' = DiffsOf(p)
  BY <1>1 DEF ChangesOf, DiffsOf
<1>5. Told'
  BY <1>1, <1>3, <1>4 DEF HistoryInv, Told
<1>6. QED  BY <1>2, <1>5 DEF HistoryInv

(* The report of a completed crawl becomes the baseline, as it is.         *)
LEMMA StartStored ==
  ASSUME HistoryInv, NEW s \in Scopes, StartCrawl(s)
  PROVE  HistoryInv'
<1>1. /\ phase' = "crawl" /\ scope' = s /\ report' = NoReport /\ served' = served
      /\ baseline' = PreviousCompleted
  BY DEF StartCrawl, site
<1>2. NoReport \in [Pages -> Recorded]
  BY DEF NoReport, Recorded
<1>3. /\ baseline' = [scope |-> baseline'.scope, report |-> baseline'.report]
      /\ baseline'.report \in [Pages -> Recorded]
      /\ baseline'.scope = None => baseline'.report = NoReport
  <2>1. CASE phase = "done"
    BY <1>1, <2>1, PagesAssumption DEF PreviousCompleted, HistoryInv, Stored
  <2>2. CASE phase # "done"
    BY <1>1, <2>2 DEF PreviousCompleted, HistoryInv, Stored
  <2>3. QED  BY <2>1, <2>2
<1>4. Stored'
  BY <1>1, <1>2, <1>3 DEF HistoryInv, Stored
<1>5. QED  BY <1>1, <1>4 DEF HistoryInv, Told

(* Of each page the finalizer tells what one pair of indexes differs in.   *)
LEMMA FinalizeStored ==
  ASSUME HistoryInv, Finalize
  PROVE  HistoryInv'
<1>1. /\ phase' = "done" /\ scope' = scope /\ report' = report /\ baseline' = baseline
      /\ served' = served /\ metrics' = ComputeAggregates /\ DetectSchemaChanges
  BY DEF Finalize, site
<1>2. Stored'
  BY <1>1 DEF HistoryInv, Stored
<1>3. ComputeAggregates' = ComputeAggregates
  BY <1>1 DEF ComputeAggregates, AllRows
<1>4. ASSUME baseline.scope # None, NEW p \in Pages PROVE ChangesOf(p)' \in DiffsOf(p)'
  <2>1. PICK diff \in [Pages -> UNION {DiffsOf(q) : q \in Pages}] :
          /\ \A q \in Pages : diff[q] \in DiffsOf(q)
          /\ changes' = UNION {{[page |-> q, change |-> c] : c \in diff[q]} : q \in Pages}
    BY <1>1, <1>4 DEF DetectSchemaChanges
  <2>2. \A d : d \in changes' <=> \E q \in Pages : \E c \in diff[q] : d = [page |-> q, change |-> c]
    BY <2>1
  <2>3. ChangesOf(p)' = diff[p]
    <3>1. ASSUME NEW c PROVE c \in ChangesOf(p)' <=> \E d \in changes' : d.page = p /\ c = d.change
      BY DEF ChangesOf
    <3>2. ASSUME NEW c \in diff[p] PROVE c \in ChangesOf(p)'
      <4>1. [page |-> p, change |-> c] \in changes'
        BY <2>2
      <4>2. QED  BY <3>1, <4>1
    <3>3. ASSUME NEW c \in ChangesOf(p)' PROVE c \in diff[p]
      <4>1. PICK d \in changes' : d.page = p /\ c = d.change
        BY <3>1
      <4>2. PICK q \in Pages : \E x \in diff[q] : d = [page |-> q, change |-> x]
        BY <2>2
      <4>3. PICK x \in diff[q] : d = [page |-> q, change |-> x]
        BY <4>2
      <4>4. QED  BY <4>1, <4>3
    <3>4. QED  BY <3>2, <3>3
  <2>4. DiffsOf(p)' = DiffsOf(p)
    BY <1>1 DEF DiffsOf
  <2>5. QED  BY <2>1, <2>3, <2>4
<1>5. Told'
  BY <1>1, <1>3, <1>4 DEF Told
<1>6. QED  BY <1>2, <1>5 DEF HistoryInv

LEMMA HistoryStep == HistoryInv /\ [Next]_vars => HistoryInv'
<1> SUFFICES ASSUME HistoryInv, [Next]_vars PROVE HistoryInv'
  OBVIOUS
<1>1. ASSUME NEW p \in Pages, Change(p) PROVE HistoryInv'
  <2>1. PICK d \in Documents[p] : served' = [served EXCEPT ![p] = d]
    BY <1>1 DEF Change
  <2>2. d \in AllDocuments
    BY DEF AllDocuments
  <2>3. served' \in [Pages -> AllDocuments]
    BY <2>1, <2>2 DEF HistoryInv, Stored
  <2>4. QED  BY <1>1, <2>3, ChangeStored DEF Change
<1>2. ASSUME NEW s \in Scopes, StartCrawl(s) PROVE HistoryInv'
  BY <1>2, StartStored
<1>3. ASSUME NEW p \in Pages, ValidateAndPersist(p) PROVE HistoryInv'
  <2>1. served[p] \in AllDocuments
    BY DEF HistoryInv, Stored
  <2>2. Fetched("ok", served[p]) \in Recorded
    BY <2>1 DEF Recorded
  <2>3. Record(p, Fetched("ok", served[p]))
    BY <1>3 DEF ValidateAndPersist, Fetched
  <2>4. QED  BY <2>2, <2>3, RecordStored
<1>4. ASSUME NEW p \in Pages, CarryForward(p) PROVE HistoryInv'
  <2> DEFINE page == [baseline.report[p] EXCEPT !.outcome = "carried"]
  <2>1. baseline.report[p] \in Recorded /\ baseline.report[p].outcome \in {"ok", "carried"}
    BY <1>4 DEF CarryForward, HistoryInv, Stored
  <2>2. page \in Recorded /\ Record(p, page)
    BY <1>4, <2>1, CarriedRecorded DEF CarryForward
  <2> HIDE DEF page
  <2>3. QED  BY <2>2, RecordStored
<1>5. ASSUME NEW p \in Pages, PersistFetchError(p) PROVE HistoryInv'
  <2>1. FailedPage \in Recorded /\ Record(p, FailedPage)
    BY <1>5 DEF PersistFetchError, FailedPage, Recorded
  <2>2. QED  BY <2>1, RecordStored
<1>6. CASE Abandon
  <2>1. phase' = "idle" /\ scope' = scope /\ report' = report /\ baseline' = baseline /\ served' = served
    BY <1>6 DEF Abandon, site
  <2>2. QED  BY <2>1 DEF HistoryInv, Stored, Told
<1>7. CASE Finalize
  BY <1>7, FinalizeStored
<1>8. CASE UNCHANGED vars
  BY <1>8, ChangeStored DEF vars, crawl, HistoryInv, Stored
<1>9. QED  BY <1>1, <1>2, <1>3, <1>4, <1>5, <1>6, <1>7, <1>8 DEF Next

LEMMA Invariance == Spec => []HistoryInv
<1>1. Init => HistoryInv
  BY InitStored
<1>2. HistoryInv /\ [Next]_vars => HistoryInv'
  BY HistoryStep
<1>3. QED  BY <1>1, <1>2, PTL DEF Spec

-----------------------------------------------------------------------------
(* The verdicts on an entity.                                              *)

(* The rows of what was recorded are those of its document's entities.     *)
LEMMA RowsAre ==
  ASSUME NEW page \in Recorded, NEW i \in DOMAIN page.entities
  PROVE  /\ page.document \in AllDocuments /\ page.entities = RowsOf[page.document]
         /\ i \in DOMAIN EntitiesOf[page.document]
         /\ page.entities[i] = Row(EntitiesOf[page.document][i])
<1>1. page # Unvisited /\ page # FailedPage
  BY DEF Unvisited, FailedPage
<1>2. PICK o \in {"ok", "carried"}, d \in AllDocuments : page = Fetched(o, d)
  BY <1>1, RecordedCases
<1>3. page.document = d /\ page.entities = RowsOf[d]
  BY <1>2 DEF Fetched
<1>4. RowsOf[d] = [n \in DOMAIN EntitiesOf[d] |-> Row(EntitiesOf[d][n])]
  BY DEF RowsOf
<1>5. QED  BY <1>3, <1>4

(* A row has the verdict of each profile that applies to its entity.       *)
LEMMA Verdicts ==
  ASSUME NEW e
  PROVE  /\ DOMAIN Row(e).rich = {g \in DOMAIN Profiles : Applies(g, e)}
         /\ \A f \in DOMAIN Row(e).rich : Row(e).rich[f] = Verdict(e, f)
         /\ Row(e).status = ValidateEntity(e).status
<1>1. Row(e).rich = EvaluateRichResults(e) /\ Row(e).status = ValidateEntity(e).status
  BY DEF Row
<1>2. EvaluateRichResults(e) = [f \in {g \in DOMAIN Profiles : Applies(g, e)} |-> Verdict(e, f)]
  BY DEF EvaluateRichResults
<1>3. QED  BY <1>1, <1>2

(* A required property that is lacking is a failure, and a recommended one *)
(* a warning: of every profile that applies.                               *)
LEMMA LackingIsSaid ==
  ASSUME NEW e, NEW f \in DOMAIN Profiles, Applies(f, e)
  PROVE  /\ Lacking(e, Profiles[f].required) # {} =>
              \E r \in ValidationResults(e) : r.status = "fail"
         /\ Lacking(e, Profiles[f].required) = {} /\ Lacking(e, Profiles[f].recommended) # {} =>
              \E r \in ValidationResults(e) : r.status \in {"fail", "warning"}
<1>1. Profiles[f].required \subseteq RequiredOf(e)
  BY DEF RequiredOf
<1>2. Profiles[f].recommended \subseteq RecommendedOf(e) \cup RequiredOf(e)
  <2> DEFINE asked == UNION {Profiles[h].recommended : h \in {g \in DOMAIN Profiles : Applies(g, e)}}
  <2>1. RecommendedOf(e) = asked \ RequiredOf(e)
    BY DEF RecommendedOf
  <2>2. Profiles[f].recommended \subseteq asked
    OBVIOUS
  <2> HIDE DEF asked
  <2>3. QED  BY <2>1, <2>2
<1> DEFINE failed == Failures("required", Lacking(e, RequiredOf(e)))
           warned == Warnings("recommended", Lacking(e, RecommendedOf(e)))
           own == UNION {OwnResults(g) : g \in {e} \cup EntitiesWithin(e)}
<1>9. ValidationResults(e) = own \cup failed \cup warned
  BY DEF ValidationResults
<1>3. \A q \in Lacking(e, RequiredOf(e)) : Result("required", "fail", q) \in ValidationResults(e)
  <2>1. \A q \in Lacking(e, RequiredOf(e)) : Result("required", "fail", q) \in failed
    BY DEF Failures
  <2> HIDE DEF failed, warned, own
  <2>2. QED  BY <1>9, <2>1
<1>4. \A q \in Lacking(e, RecommendedOf(e)) :
        Result("recommended", "warning", q) \in ValidationResults(e)
  <2>1. \A q \in Lacking(e, RecommendedOf(e)) : Result("recommended", "warning", q) \in warned
    BY DEF Warnings
  <2> HIDE DEF failed, warned, own
  <2>2. QED  BY <1>9, <2>1
<1>5. \A check, status, q : Result(check, status, q).status = status
  BY DEF Result
<1>6. ASSUME NEW q \in Lacking(e, Profiles[f].required)
      PROVE  \E r \in ValidationResults(e) : r.status = "fail"
  <2>1. q \in Lacking(e, RequiredOf(e))
    BY <1>1 DEF Lacking
  <2>2. QED  BY <1>3, <1>5, <2>1
<1>7. ASSUME NEW q \in Lacking(e, Profiles[f].recommended)
      PROVE  \E r \in ValidationResults(e) : r.status \in {"fail", "warning"}
  <2>1. q \in Lacking(e, RecommendedOf(e)) \/ q \in Lacking(e, RequiredOf(e))
    BY <1>2 DEF Lacking
  <2>2. QED  BY <1>3, <1>4, <1>5, <2>1
<1>8. QED  BY <1>6, <1>7

(* One failure makes "errors"; "valid" means neither failure nor warning.   *)
LEMMA StatusOf ==
  ASSUME NEW e
  PROVE  /\ (\E r \in ValidationResults(e) : r.status = "fail") => ValidateEntity(e).status = "errors"
         /\ ValidateEntity(e).status = "valid" =>
              \A r \in ValidationResults(e) : r.status \notin {"fail", "warning"}
<1> DEFINE Some(status) == \E r \in ValidationResults(e) : r.status = status
<1>1. ValidateEntity(e).status =
        CASE Some("fail") -> "errors"
          [] ~Some("fail") /\ Some("warning") -> "warnings"
          [] OTHER -> "valid"
  BY DEF ValidateEntity
<1> HIDE DEF Some
<1>2. CASE Some("fail")
  <2>1. ValidateEntity(e).status = "errors"
    BY <1>1, <1>2
  <2>2. QED  BY <2>1
<1>3. CASE ~Some("fail") /\ Some("warning")
  <2>1. ValidateEntity(e).status = "warnings"
    BY <1>1, <1>3
  <2>2. QED  BY <1>3, <2>1 DEF Some
<1>4. CASE ~Some("fail") /\ ~Some("warning")
  BY <1>4 DEF Some
<1>5. QED  BY <1>2, <1>3, <1>4

(* So the two verdicts agree on one profile.                               *)
LEMMA VerdictsAgree ==
  ASSUME NEW e, NEW f \in DOMAIN Row(e).rich
  PROVE  /\ Row(e).status = "valid" => Row(e).rich[f].status = "eligible"
         /\ Row(e).rich[f].status = "ineligible" => Row(e).status = "errors"
<1>1. f \in DOMAIN Profiles /\ Applies(f, e) /\ Row(e).rich[f] = Verdict(e, f)
  BY Verdicts
<1>2. Row(e).status = ValidateEntity(e).status
  BY Verdicts
<1> DEFINE missing == Lacking(e, Profiles[f].required)
           weak == Lacking(e, Profiles[f].recommended)
<1>3. Verdict(e, f).status = CASE missing # {} -> "ineligible"
                               [] missing = {} /\ weak # {} -> "eligible_with_warnings"
                               [] OTHER -> "eligible"
  BY DEF Verdict
<1>4. /\ missing # {} => \E r \in ValidationResults(e) : r.status = "fail"
      /\ missing = {} /\ weak # {} => \E r \in ValidationResults(e) : r.status \in {"fail", "warning"}
  BY <1>1, LackingIsSaid
<1> HIDE DEF missing, weak
<1>5. CASE missing # {}
  BY <1>1, <1>2, <1>3, <1>4, <1>5, StatusOf
<1>6. CASE missing = {} /\ weak # {}
  <2>1. Verdict(e, f).status = "eligible_with_warnings"
    BY <1>3, <1>6
  <2>2. ValidateEntity(e).status # "valid"
    BY <1>4, <1>6, StatusOf
  <2>3. QED  BY <1>1, <1>2, <2>1, <2>2
<1>7. CASE missing = {} /\ weak = {}
  BY <1>1, <1>3, <1>7
<1>8. QED  BY <1>5, <1>6, <1>7

(* A profile asks for nothing that the vocabulary calls undefined.         *)
LEMMA AsksForDefined ==
  ASSUME NEW types, NEW f \in DOMAIN Profiles, ResolveKnownType(types) \in Profiles[f].appliesTo
  PROVE  UndefinedOf(types, Profiles[f].required \cup Profiles[f].recommended) = {}
BY PacksAgree DEF UndefinedOf

(* Whatever the packs that agree, validation and the rich results never    *)
(* contradict each other on a recorded row: "valid" has every rich result  *)
(* that applies, and one refused for a property that lacks makes "errors". *)
THEOREM EligibilityCorrect == Spec => []EligibilityAgrees
<1>1. HistoryInv => EligibilityAgrees
  <2> SUFFICES ASSUME HistoryInv, NEW p \in Pages, NEW i \in DOMAIN report[p].entities
               PROVE  LET row == report[p].entities[i]
                          entity == EntitiesOf[report[p].document][i]
                          statuses == {row.rich[f].status : f \in DOMAIN row.rich}
                      IN  /\ row.status = "valid" => statuses \subseteq {"eligible"}
                          /\ "ineligible" \in statuses => row.status = "errors"
                          /\ \A f \in {g \in DOMAIN row.rich :
                                        ResolveKnownType(entity.types) \in Profiles[g].appliesTo} :
                               UndefinedOf(entity.types,
                                 Profiles[f].required \cup Profiles[f].recommended) = {}
    BY DEF EligibilityAgrees
  <2> DEFINE row == report[p].entities[i]
             entity == EntitiesOf[report[p].document][i]
  <2>1. report[p] \in Recorded
    BY DEF HistoryInv, Stored
  <2>2. row = Row(entity)
    BY <2>1, RowsAre
  <2> HIDE DEF row, entity
  <2>3. \A f \in DOMAIN row.rich : /\ row.status = "valid" => row.rich[f].status = "eligible"
                                   /\ row.rich[f].status = "ineligible" => row.status = "errors"
                                   /\ f \in DOMAIN Profiles
    BY <2>2, VerdictsAgree, Verdicts
  <2>4. \A f \in DOMAIN row.rich :
          ResolveKnownType(entity.types) \in Profiles[f].appliesTo =>
            UndefinedOf(entity.types, Profiles[f].required \cup Profiles[f].recommended) = {}
    BY <2>3, AsksForDefined
  <2>5. QED  BY <2>3, <2>4 DEF row, entity
<1>2. QED  BY <1>1, Invariance, PTL

-----------------------------------------------------------------------------
(* The rollup.                                                             *)

(* The sums of the instance are the sums of the community module.          *)
LEMMA SumSame == \A w : SumFunction(w) = Sums!SumFunction(w)
BY Zenon DEF SumFunction, SumFunctionOnSet, FoldFunctionOnSet, MapThenFoldSet,
   Sums!SumFunction, Sums!SumFunctionOnSet, Sums!FoldFunctionOnSet, Sums!MapThenFoldSet

LEMMA FiniteSame == \A S : IsFiniteSet(S) <=> Sums!IsFiniteSet(S)
BY DEF IsFiniteSet, Sums!IsFiniteSet

(* Pages of which nothing is counted make no difference to a sum.          *)
LEMMA SumWithoutZeros ==
  ASSUME NEW w, NEW v, IsFiniteSet(DOMAIN v), \A c \in DOMAIN v : v[c] \in Int,
         DOMAIN w \subseteq DOMAIN v, \A c \in DOMAIN w : w[c] = v[c],
         \A c \in DOMAIN v \ DOMAIN w : v[c] = 0
  PROVE  SumFunction(w) = SumFunction(v)
BY SumSame, FiniteSame, Sums!SumWithoutZeros

(* SQL counts a row as eligible exactly when the engine does.              *)
LEMMA EligibleIs ==
  ASSUME NEW e
  PROVE  IsEligible(Row(e)) <=> HasRichResult(e)
<1>1. /\ DOMAIN Row(e).rich = {g \in DOMAIN Profiles : Applies(g, e)}
      /\ \A f \in DOMAIN Row(e).rich : Row(e).rich[f] = Verdict(e, f)
  BY Verdicts
<1>2. EvaluateRichResults(e) = [f \in {g \in DOMAIN Profiles : Applies(g, e)} |-> Verdict(e, f)]
  BY DEF EvaluateRichResults
<1>3. \A f : Verdict(e, f).status # "ineligible" <=> Verdict(e, f).missing = {}
  BY DEF Verdict
<1>4. IsEligible(Row(e)) <=>
        \E f \in {g \in DOMAIN Profiles : Applies(g, e)} : Verdict(e, f).status # "ineligible"
  BY <1>1 DEF IsEligible
<1>5. HasRichResult(e) <=>
        \E f \in {g \in DOMAIN Profiles : Applies(g, e)} : Verdict(e, f).missing = {}
  BY <1>2 DEF HasRichResult
<1>6. QED  BY <1>3, <1>4, <1>5

EligibleRows(rows) == {i \in DOMAIN rows : IsEligible(rows[i])}

(* The rows of a document add up to its summary.                           *)
LEMMA SummaryIsOfRows ==
  ASSUME NEW d \in AllDocuments
  PROVE  /\ SummaryOf[d] # None
         /\ Len(RowsOf[d]) \in Nat /\ Len(RowsOf[d]) = SummaryOf[d].entityCount
         /\ Cardinality(EligibleRows(RowsOf[d])) \in Nat
         /\ Cardinality(EligibleRows(RowsOf[d])) = SummaryOf[d].richEligible
         /\ RowsOf[d] # <<>> <=> SummaryOf[d].types # {}
<1> DEFINE es == EntitiesOf[d]
           rows == RowsOf[d]
           Type(i) == IF es[i].types = <<>> THEN "Unknown" ELSE PrimaryType(es[i])
<1>1. es \in Seq(AllEntities) /\ SummaryOf[d] # None
  BY EntitiesAssumption
<1>2. SummaryOf[d] = Coverage(es, InvalidJson(d.scripts))
  BY DEF SummaryOf
<1>3. /\ SummaryOf[d].entityCount = Len(es)
      /\ SummaryOf[d].types = {Type(i) : i \in DOMAIN es}
      /\ SummaryOf[d].richEligible = Cardinality({i \in DOMAIN es : HasRichResult(es[i])})
  BY <1>2 DEF Coverage
<1>4. rows = [i \in DOMAIN es |-> Row(es[i])]
  BY DEF RowsOf
<1> HIDE DEF es, rows, Type
<1>5. Len(es) \in Nat /\ DOMAIN es = 1 .. Len(es)
  BY <1>1
<1>6. DOMAIN rows = 1 .. Len(es) /\ \A i \in DOMAIN es : rows[i] = Row(es[i])
  BY <1>4, <1>5
<1>7. Len(rows) = Len(es)
  BY <1>4, <1>5
<1>8. EligibleRows(rows) = {i \in DOMAIN es : HasRichResult(es[i])}
  BY <1>5, <1>6, EligibleIs DEF EligibleRows
<1>9. Cardinality(EligibleRows(rows)) \in Nat
  <2>1. IsFiniteSet(1 .. Len(es)) /\ EligibleRows(rows) \subseteq 1 .. Len(es)
    BY <1>5, <1>6, FS_Interval DEF EligibleRows
  <2>2. QED  BY <2>1, FS_Subset, FS_CardinalityType
<1>10. rows # <<>> <=> DOMAIN es # {}
  BY <1>4, <1>5
<1>11. {Type(i) : i \in DOMAIN es} # {} <=> DOMAIN es # {}
  OBVIOUS
<1>12. QED  BY <1>1, <1>3, <1>5, <1>7, <1>8, <1>9, <1>10, <1>11 DEF es, rows

(* What is counted of a page: nothing of one that was not fetched, and     *)
(* otherwise what its summary says.                                        *)
LEMMA PageCounts ==
  ASSUME NEW page \in Recorded
  PROVE  /\ Len(page.entities) \in Nat /\ Cardinality(EligibleRows(page.entities)) \in Nat
         /\ page.summary = None =>
              /\ page.entities = <<>> /\ Len(page.entities) = 0
              /\ Cardinality(EligibleRows(page.entities)) = 0
         /\ page.summary # None =>
              /\ page.outcome # "none"
              /\ Len(page.entities) = page.summary.entityCount
              /\ Cardinality(EligibleRows(page.entities)) = page.summary.richEligible
              /\ page.entities # <<>> <=> page.summary.types # {}
         /\ page.outcome # "none" => page.summary # None \/ page.outcome = "failed"
<1>1. CASE page = Unvisited \/ page = FailedPage
  <2>1. page.entities = <<>> /\ page.summary = None /\ page.outcome \in {"none", "failed"}
    BY <1>1 DEF Unvisited, FailedPage
  <2>2. EligibleRows(page.entities) = {}
    BY <2>1 DEF EligibleRows
  <2>3. Cardinality(EligibleRows(page.entities)) = 0 /\ Len(page.entities) = 0
    BY <2>1, <2>2, FS_EmptySet
  <2>4. QED  BY <2>1, <2>3
<1>2. ASSUME NEW o \in {"ok", "carried"}, NEW d \in AllDocuments, page = Fetched(o, d)
      PROVE  /\ page.entities = RowsOf[d] /\ page.summary = SummaryOf[d] /\ page.outcome = o
  BY <1>2 DEF Fetched
<1>3. ASSUME NEW o \in {"ok", "carried"}, NEW d \in AllDocuments, page = Fetched(o, d)
      PROVE  /\ Len(page.entities) \in Nat /\ Cardinality(EligibleRows(page.entities)) \in Nat
             /\ page.summary # None /\ page.outcome # "none"
             /\ Len(page.entities) = page.summary.entityCount
             /\ Cardinality(EligibleRows(page.entities)) = page.summary.richEligible
             /\ page.entities # <<>> <=> page.summary.types # {}
  BY <1>2, <1>3, SummaryIsOfRows
<1>4. QED  BY <1>1, <1>3, RecordedCases

(* Whatever the pages and their documents, the rollup of a completed crawl *)
(* counts what the summaries of its pages say, those carried included, and *)
(* every page of its scope as one with structured data or without.         *)
THEOREM RollupCorrect == Spec => []RollupMatchesPages
<1>1. HistoryInv => RollupMatchesPages
  <2> SUFFICES ASSUME HistoryInv, phase = "done" PROVE RollupMatchesPages
    BY DEF RollupMatchesPages
  <2> DEFINE seen == {p \in Pages : report[p].summary # None}
             Failed == {p \in Pages : report[p].outcome = "failed"}
             with == {p \in Pages : AllRows[p] # <<>>}
             scored == {p \in Pages : report[p].outcome # "none"}
             entities == [p \in Pages |-> Len(AllRows[p])]
             eligible == [p \in Pages |-> Cardinality(EligibleRows(AllRows[p]))]
             entityCounts == [p \in seen |-> report[p].summary.entityCount]
             richCounts == [p \in seen |-> report[p].summary.richEligible]
  <2>1. /\ metrics.entities = SumFunction(entities)
        /\ metrics.with = Cardinality(with)
        /\ metrics.without = Cardinality(scored) - Cardinality(with)
    BY DEF HistoryInv, Told, ComputeAggregates
  <2>2. metrics.eligible = SumFunction(eligible)
    <3> DEFINE rows == [p \in Pages |-> {i \in DOMAIN AllRows[p] : IsEligible(AllRows[p][i])}]
    <3>1. metrics.eligible = SumFunction([p \in Pages |-> Cardinality(rows[p])])
      BY DEF HistoryInv, Told, ComputeAggregates
    <3>2. \A p \in Pages : rows[p] = EligibleRows(AllRows[p])
      BY DEF EligibleRows
    <3> HIDE DEF rows
    <3>3. [p \in Pages |-> Cardinality(rows[p])] = eligible
      BY <3>2
    <3>4. QED  BY <3>1, <3>3
  <2>3. \A p \in Pages : report[p] \in Recorded /\ AllRows[p] = report[p].entities
    BY DEF HistoryInv, Stored, AllRows
  <2>4. IsFiniteSet(Pages)
    BY PagesAssumption
  <2>5. SumFunction(entityCounts) = SumFunction(entities)
    <3>1. DOMAIN entityCounts = seen /\ DOMAIN entities = Pages /\ seen \subseteq Pages
      OBVIOUS
    <3>2. /\ \A p \in Pages : entities[p] \in Int
          /\ \A p \in seen : entityCounts[p] = entities[p]
          /\ \A p \in Pages \ seen : entities[p] = 0
      BY <2>3, PageCounts
    <3> HIDE DEF seen, entities, entityCounts
    <3>3. QED  BY <2>4, <3>1, <3>2, SumWithoutZeros
  <2>6. SumFunction(richCounts) = SumFunction(eligible)
    <3>1. DOMAIN richCounts = seen /\ DOMAIN eligible = Pages /\ seen \subseteq Pages
      OBVIOUS
    <3>2. /\ \A p \in Pages : eligible[p] \in Int
          /\ \A p \in seen : richCounts[p] = eligible[p]
          /\ \A p \in Pages \ seen : eligible[p] = 0
      BY <2>3, PageCounts
    <3> HIDE DEF seen, eligible, richCounts
    <3>3. QED  BY <2>4, <3>1, <3>2, SumWithoutZeros
  <2>7. with = {p \in seen : report[p].summary.types # {}}
    BY <2>3, PageCounts
  <2>8. scored = seen \cup Failed
    BY <2>3, PageCounts
  <2>9. metrics.with + metrics.without = Cardinality(scored)
    <3>1. IsFiniteSet(with) /\ IsFiniteSet(scored)
      BY <2>4, FS_Subset
    <3> HIDE DEF with, scored
    <3>2. Cardinality(with) \in Nat /\ Cardinality(scored) \in Nat
      BY <3>1, FS_CardinalityType
    <3>3. QED  BY <2>1, <3>2
  <2>10. QED  BY <2>1, <2>2, <2>5, <2>6, <2>7, <2>8, <2>9 DEF RollupMatchesPages
<1>2. QED  BY <1>1, Invariance, PTL

-----------------------------------------------------------------------------
(* The index of a page.                                                    *)

AreRows(rows) == DOMAIN rows \subseteq Int /\ \A i \in DOMAIN rows : \E e \in AllEntities : rows[i] = Row(e)

LEMMA RecordedRows ==
  ASSUME NEW page \in Recorded
  PROVE  AreRows(page.entities)
<1>1. CASE page = Unvisited \/ page = FailedPage
  <2>1. page.entities = <<>>
    BY <1>1 DEF Unvisited, FailedPage
  <2>2. QED  BY <2>1 DEF AreRows
<1>2. ASSUME NEW o \in {"ok", "carried"}, NEW d \in AllDocuments, page = Fetched(o, d)
      PROVE  AreRows(page.entities)
  <2> DEFINE es == EntitiesOf[d]
  <2>1. page.entities = RowsOf[d] /\ RowsOf[d] = [i \in DOMAIN es |-> Row(es[i])]
    BY <1>2 DEF Fetched, RowsOf
  <2>2. es \in Seq(AllEntities)
    BY EntitiesAssumption
  <2> HIDE DEF es
  <2>3. DOMAIN es \subseteq Int /\ \A i \in DOMAIN es : es[i] \in AllEntities
    BY <2>2
  <2>4. QED  BY <2>1, <2>3 DEF AreRows
<1>3. QED  BY <1>1, <1>2, RecordedCases

(* Loading drops no more than the properties.                              *)
LEMMA LoadedRow ==
  ASSUME NEW e
  PROVE  LET row == Row(e) loaded == LoadSummary(Row(e))
         IN  /\ loaded.type = row.type /\ loaded.hash = row.hash /\ loaded.rich = row.rich
             /\ Identity(loaded) = Identity(row) /\ Key(loaded) = Key(row)
             /\ loaded.properties = IF Oversized(row) THEN NoProperties ELSE row.properties
<1> DEFINE row == Row(e)
           loaded == LoadSummary(row)
           properties == IF Oversized(row) THEN NoProperties ELSE row.properties
<1>1. row = [format |-> row.format, type |-> row.type, identity |-> row.identity, hash |-> row.hash,
             properties |-> row.properties, status |-> row.status, confidence |-> row.confidence,
             rich |-> row.rich]
  BY DEF Row
<1>2. loaded = [row EXCEPT !.properties = properties]
  BY DEF LoadSummary
<1> HIDE DEF row, loaded, properties
<1>3. /\ loaded.type = row.type /\ loaded.hash = row.hash /\ loaded.rich = row.rich
      /\ loaded.identity = row.identity /\ loaded.properties = properties
  BY <1>1, <1>2
<1>4. Identity(loaded) = Identity(row) /\ Key(loaded) = Key(row)
  BY <1>3 DEF Identity, Key
<1>5. QED  BY <1>3, <1>4 DEF row, loaded, properties

(* One key is one type and one identity, or one content without identity.  *)
LEMMA KeyIs ==
  ASSUME NEW row, NEW other
  PROVE  Key(row) = Key(other) <=>
           /\ row.type = other.type /\ Identity(row) = Identity(other)
           /\ Identity(row) = None => row.hash = other.hash
BY DEF Key, Identity

(* Rows without common keys are told apart by their keys.                  *)
LEMMA KeysAreDistinct ==
  ASSUME NEW rows, AreRows(rows), KeysDistinct(rows),
         NEW i \in DOMAIN rows, NEW j \in DOMAIN rows, Key(rows[i]) = Key(rows[j])
  PROVE  i = j
<1>1. \A m, n \in DOMAIN rows : m < n => Key(rows[m]) # Key(rows[n])
  BY KeyIs DEF KeysDistinct
<1>2. i \in Int /\ j \in Int
  BY DEF AreRows
<1>3. QED  BY <1>1, <1>2

(* An index has a row of each key.                                         *)
LEMMA IndexIs ==
  ASSUME NEW rows, AreRows(rows), NEW index \in Indexes(Loaded(rows))
  PROVE  /\ \A i \in DOMAIN rows : Key(rows[i]) \in DOMAIN index
         /\ \A k \in DOMAIN index : \E i \in DOMAIN rows :
              Key(rows[i]) = k /\ index[k] = LoadSummary(rows[i])
<1> DEFINE loaded == Loaded(rows)
<1>1. DOMAIN loaded = DOMAIN rows /\ \A i \in DOMAIN rows : loaded[i] = LoadSummary(rows[i])
  BY DEF Loaded
<1>2. \A i \in DOMAIN rows : Key(loaded[i]) = Key(rows[i])
  BY <1>1, LoadedRow DEF AreRows
<1>3. /\ index \in [KeysOf(loaded) -> ToSet(loaded)]
      /\ \A k \in KeysOf(loaded) : Key(index[k]) = k
  BY DEF Indexes
<1> HIDE DEF loaded
<1>4. \A i \in DOMAIN rows : Key(rows[i]) \in DOMAIN index
  BY <1>1, <1>2, <1>3 DEF KeysOf
<1>5. ASSUME NEW k \in DOMAIN index
      PROVE  \E i \in DOMAIN rows : Key(rows[i]) = k /\ index[k] = LoadSummary(rows[i])
  <2>1. index[k] \in ToSet(loaded) /\ Key(index[k]) = k
    BY <1>3
  <2>2. PICK i \in DOMAIN rows : index[k] = loaded[i]
    BY <1>1, <2>1 DEF ToSet
  <2>3. QED  BY <1>1, <1>2, <2>1, <2>2
<1>6. QED  BY <1>4, <1>5

(* The only one when no two rows have one key.                             *)
LEMMA IndexedRow ==
  ASSUME NEW rows, AreRows(rows), KeysDistinct(rows), NEW index \in Indexes(Loaded(rows)),
         NEW i \in DOMAIN rows
  PROVE  index[Key(rows[i])] = LoadSummary(rows[i])
<1>1. PICK j \in DOMAIN rows : Key(rows[j]) = Key(rows[i]) /\ index[Key(rows[i])] = LoadSummary(rows[j])
  BY IndexIs
<1>2. j = i
  BY <1>1, KeysAreDistinct
<1>3. QED  BY <1>1, <1>2

-----------------------------------------------------------------------------
(* The changes of a page.                                                  *)

SaidBy(row) == <<row.type, Identity(row), row.hash>>
Said(rows) == {SaidBy(rows[i]) : i \in DOMAIN rows}

Content(e) == <<PrimaryType(e), Identity(e), e.hash>>

(* What the row of an entity says, told from the entity.                   *)
LEMMA RowSays ==
  ASSUME NEW e
  PROVE  SaidBy(Row(e)) = <<IF PrimaryType(e) = "" THEN "Unknown" ELSE PrimaryType(e),
                            Identity(e), e.hash>>
<1>1. /\ Row(e).type = IF PrimaryType(e) = "" THEN "Unknown" ELSE PrimaryType(e)
      /\ Row(e).identity = e.identity /\ Row(e).hash = e.hash
  BY DEF Row
<1>2. Identity(Row(e)) = Identity(e)
  BY <1>1 DEF Identity
<1>3. QED  BY <1>1, <1>2 DEF SaidBy

LEMMA MembersAreSome ==
  ASSUME NEW T, NEW s \in Seq(T), NEW x \in ToSet(s)
  PROVE  s # <<>>
<1>1. PICK i \in 1 .. Len(s) : x = s[i]
  BY DEF ToSet
<1>2. Len(s) # 0 /\ Len(<<>>) = 0
  BY <1>1
<1>3. QED  BY <1>2

(* The first of an entity's types is one of them.                          *)
LEMMA HeadIsOneOf ==
  ASSUME NEW e \in AllEntities, e.types # <<>>
  PROVE  PrimaryType(e) \in ToSet(e.types)
<1> DEFINE types == e.types
           T == ToSet(types)
<1>1. types \in Seq(T) /\ types # <<>>
  BY EntitiesAssumption
<1>2. PrimaryType(e) = Head(types)
  BY DEF PrimaryType
<1> HIDE DEF types, T
<1>3. Head(types) \in T
  BY <1>1
<1>4. QED  BY <1>2, <1>3 DEF types, T

(* A row without a type is no row of a type "Unknown": their hashes differ. *)
LEMMA UnknownIsApart ==
  ASSUME NEW e \in AllEntities, NEW g \in AllEntities, e.hash = g.hash, PrimaryType(e) = ""
  PROVE  PrimaryType(g) # "Unknown"
<1> SUFFICES ASSUME PrimaryType(g) = "Unknown" PROVE FALSE
  OBVIOUS
<1>1. ToSet(e.types) = ToSet(g.types)
  BY HashAssumption
<1>2. g.types # <<>>
  BY DEF PrimaryType
<1>3. "Unknown" \in ToSet(e.types)
  BY <1>1, <1>2, HeadIsOneOf
<1>4. e.types # <<>>
  BY <1>3, EntitiesAssumption, MembersAreSome
<1>5. "" \in ToSet(e.types)
  BY <1>4, HeadIsOneOf
<1>6. QED  BY <1>3, <1>5, EntitiesAssumption

(* Rows that say the same are of entities that say the same.               *)
LEMMA SaidApart ==
  ASSUME NEW e \in AllEntities, NEW g \in AllEntities, SaidBy(Row(e)) = SaidBy(Row(g))
  PROVE  Content(e) = Content(g)
<1> DEFINE Name(type) == IF type = "" THEN "Unknown" ELSE type
<1>1. /\ Name(PrimaryType(e)) = Name(PrimaryType(g))
      /\ Identity(e) = Identity(g) /\ e.hash = g.hash
  <2>1. <<Name(PrimaryType(e)), Identity(e), e.hash>> = <<Name(PrimaryType(g)), Identity(g), g.hash>>
    BY RowSays
  <2> HIDE DEF Name
  <2>2. QED  BY <2>1
<1>2. PrimaryType(e) = PrimaryType(g)
  BY <1>1, UnknownIsApart
<1> HIDE DEF Name
<1>3. QED  BY <1>1, <1>2 DEF Content

(* What two documents say is told apart by the rows made of them.          *)
LEMMA SaysIs ==
  ASSUME NEW d \in AllDocuments, NEW c \in AllDocuments
  PROVE  Says(d) = Says(c) <=> Said(RowsOf[d]) = Said(RowsOf[c])
<1>1. ASSUME NEW b \in AllDocuments
      PROVE  /\ Says(b) = {Content(e) : e \in ToSet(EntitiesOf[b])}
             /\ Said(RowsOf[b]) = {SaidBy(Row(e)) : e \in ToSet(EntitiesOf[b])}
             /\ ToSet(EntitiesOf[b]) \subseteq AllEntities
  <2> DEFINE es == EntitiesOf[b]
  <2>1. RowsOf[b] = [i \in DOMAIN es |-> Row(es[i])] /\ ToSet(es) = {es[i] : i \in DOMAIN es}
    BY DEF RowsOf, ToSet
  <2>2. Says(b) = {Content(e) : e \in ToSet(es)}
    BY DEF Says, Content
  <2>3. ToSet(es) \subseteq AllEntities
    BY DEF AllEntities
  <2> HIDE DEF es
  <2>4. Said(RowsOf[b]) = {SaidBy(Row(es[i])) : i \in DOMAIN es}
    BY <2>1 DEF Said
  <2>5. Said(RowsOf[b]) = {SaidBy(Row(e)) : e \in ToSet(es)}
    BY <2>1, <2>4
  <2>6. QED  BY <2>2, <2>3, <2>5 DEF es
<1>2. ASSUME NEW a \in AllDocuments, NEW b \in AllDocuments, Said(RowsOf[a]) = Said(RowsOf[b]),
             NEW t \in Says(a)
      PROVE  t \in Says(b)
  <2>1. PICK e \in ToSet(EntitiesOf[a]) : t = Content(e)
    BY <1>1
  <2>2. SaidBy(Row(e)) \in Said(RowsOf[b])
    BY <1>1, <1>2
  <2>3. PICK g \in ToSet(EntitiesOf[b]) : SaidBy(Row(e)) = SaidBy(Row(g))
    BY <1>1, <2>2
  <2>4. Content(e) = Content(g)
    BY <1>1, <2>3, SaidApart
  <2>5. QED  BY <1>1, <2>1, <2>4
<1>3. ASSUME NEW a \in AllDocuments, NEW b \in AllDocuments, Says(a) = Says(b),
             NEW t \in Said(RowsOf[a])
      PROVE  t \in Said(RowsOf[b])
  <2>1. PICK e \in ToSet(EntitiesOf[a]) : t = SaidBy(Row(e))
    BY <1>1
  <2>2. Content(e) \in Says(b)
    BY <1>1, <1>3
  <2>3. PICK g \in ToSet(EntitiesOf[b]) : Content(e) = Content(g)
    BY <1>1, <2>2
  <2>4. PrimaryType(e) = PrimaryType(g) /\ Identity(e) = Identity(g) /\ e.hash = g.hash
    BY <2>3 DEF Content
  <2>5. SaidBy(Row(e)) = SaidBy(Row(g))
    BY <2>4, RowSays, Zenon
  <2>6. QED  BY <1>1, <2>1, <2>5
<1>4. QED  BY <1>2, <1>3

(* Entities of one hash have the same verdicts.                            *)
LEMMA SameHashSameRich ==
  ASSUME NEW e \in AllEntities, NEW g \in AllEntities, e.hash = g.hash
  PROVE  RichResultDiff(LoadSummary(Row(e)), LoadSummary(Row(g))) = {}
<1>1. \A q : HasProperty(e, q) <=> HasProperty(g, q)
  BY HashAssumption DEF HasProperty
<1>2. \A props : Lacking(e, props) = Lacking(g, props)
  BY <1>1 DEF Lacking
<1>3. \A f : Verdict(e, f) = Verdict(g, f)
  BY <1>2, Zenon DEF Verdict
<1>4. /\ \A f \in DOMAIN Row(e).rich : Row(e).rich[f] = Verdict(e, f)
      /\ \A f \in DOMAIN Row(g).rich : Row(g).rich[f] = Verdict(g, f)
  BY Verdicts
<1>5. LoadSummary(Row(e)).rich = Row(e).rich /\ LoadSummary(Row(g)).rich = Row(g).rich
  BY LoadedRow
<1>6. \A f \in DOMAIN LoadSummary(Row(e)).rich \cap DOMAIN LoadSummary(Row(g)).rich :
        LoadSummary(Row(e)).rich[f] = LoadSummary(Row(g)).rich[f]
  BY <1>3, <1>4, <1>5
<1>7. QED  BY <1>6 DEF RichResultDiff

(* Pages with one index have no change.                                    *)
LEMMA DiffIsEmpty ==
  ASSUME NEW before, NEW after
  PROVE  DiffPageSchema(before, after) = {} <=>
           /\ DOMAIN before = DOMAIN after
           /\ \A k \in DOMAIN before : /\ before[k].hash = after[k].hash
                                       /\ RichResultDiff(before[k], after[k]) = {}
<1> DEFINE gone == {SchemaChange("schema_removed", "high", before[k].type) :
                      k \in DOMAIN before \ DOMAIN after}
           new == {SchemaChange("schema_added", "info", after[k].type) :
                     k \in DOMAIN after \ DOMAIN before}
           Of(k) == ModifiedDiff(before[k], after[k]) \cup RichResultDiff(before[k], after[k])
           kept == UNION {Of(k) : k \in DOMAIN before \cap DOMAIN after}
<1>1. DiffPageSchema(before, after) = gone \cup new \cup kept
  BY DEF DiffPageSchema
<1>2. gone = {} <=> DOMAIN before \subseteq DOMAIN after
  OBVIOUS
<1>3. new = {} <=> DOMAIN after \subseteq DOMAIN before
  OBVIOUS
<1>4. \A k : ModifiedDiff(before[k], after[k]) = {} <=> before[k].hash = after[k].hash
  BY DEF ModifiedDiff
<1> HIDE DEF gone, new
<1>5. kept = {} <=> \A k \in DOMAIN before \cap DOMAIN after :
                      /\ before[k].hash = after[k].hash
                      /\ RichResultDiff(before[k], after[k]) = {}
  BY <1>4
<1> HIDE DEF kept
<1>6. QED  BY <1>1, <1>2, <1>3, <1>5

(* An index says what its rows say.                                        *)
LEMMA IndexSays ==
  ASSUME NEW rows, AreRows(rows), KeysDistinct(rows), NEW index \in Indexes(Loaded(rows))
  PROVE  /\ Said(rows) = {SaidBy(index[k]) : k \in DOMAIN index}
         /\ \A k \in DOMAIN index : /\ Key(index[k]) = k
                                    /\ \E e \in AllEntities : index[k] = LoadSummary(Row(e))
<1>1. \A i \in DOMAIN rows : /\ SaidBy(LoadSummary(rows[i])) = SaidBy(rows[i])
                             /\ Key(LoadSummary(rows[i])) = Key(rows[i])
                             /\ \E e \in AllEntities : LoadSummary(rows[i]) = LoadSummary(Row(e))
  BY LoadedRow DEF AreRows, SaidBy
<1>2. ASSUME NEW i \in DOMAIN rows
      PROVE  Key(rows[i]) \in DOMAIN index /\ SaidBy(index[Key(rows[i])]) = SaidBy(rows[i])
  BY <1>1, IndexIs, IndexedRow
<1>3. ASSUME NEW k \in DOMAIN index
      PROVE  /\ Key(index[k]) = k /\ \E i \in DOMAIN rows : SaidBy(index[k]) = SaidBy(rows[i])
             /\ \E e \in AllEntities : index[k] = LoadSummary(Row(e))
  <2>1. PICK i \in DOMAIN rows : Key(rows[i]) = k /\ index[k] = LoadSummary(rows[i])
    BY IndexIs
  <2>2. QED  BY <1>1, <2>1
<1>4. Said(rows) = {SaidBy(index[k]) : k \in DOMAIN index}
  BY <1>2, <1>3 DEF Said
<1>5. QED  BY <1>3, <1>4

(* The diff of two pages is empty exactly when their rows say the same.    *)
LEMMA DiffIsSaid ==
  ASSUME NEW old, AreRows(old), KeysDistinct(old), NEW before \in Indexes(Loaded(old)),
         NEW new, AreRows(new), KeysDistinct(new), NEW after \in Indexes(Loaded(new))
  PROVE  DiffPageSchema(before, after) = {} <=> Said(old) = Said(new)
<1>1. /\ Said(old) = {SaidBy(before[k]) : k \in DOMAIN before}
      /\ \A k \in DOMAIN before : /\ Key(before[k]) = k
                                  /\ \E e \in AllEntities : before[k] = LoadSummary(Row(e))
  BY IndexSays
<1>2. /\ Said(new) = {SaidBy(after[k]) : k \in DOMAIN after}
      /\ \A k \in DOMAIN after : /\ Key(after[k]) = k
                                 /\ \E e \in AllEntities : after[k] = LoadSummary(Row(e))
  BY IndexSays
<1>3. \A row, other : SaidBy(row) = SaidBy(other) => Key(row) = Key(other) /\ row.hash = other.hash
  BY KeyIs DEF SaidBy
<1>4. \A row, other : Key(row) = Key(other) /\ row.hash = other.hash => SaidBy(row) = SaidBy(other)
  BY KeyIs DEF SaidBy
<1>5. ASSUME NEW k \in DOMAIN before \cap DOMAIN after, before[k].hash = after[k].hash
      PROVE  RichResultDiff(before[k], after[k]) = {}
  <2>1. PICK e \in AllEntities : before[k] = LoadSummary(Row(e))
    BY <1>1
  <2>2. PICK g \in AllEntities : after[k] = LoadSummary(Row(g))
    BY <1>2
  <2>3. \A x : LoadSummary(Row(x)).hash = x.hash
    BY LoadedRow DEF Row
  <2>4. e.hash = g.hash
    BY <1>5, <2>1, <2>2, <2>3
  <2>5. QED  BY <2>1, <2>2, <2>4, SameHashSameRich
<1>6. ASSUME DiffPageSchema(before, after) = {} PROVE Said(old) = Said(new)
  <2>1. DOMAIN before = DOMAIN after /\ \A k \in DOMAIN before : before[k].hash = after[k].hash
    BY <1>6, DiffIsEmpty
  <2>2. \A k \in DOMAIN before : SaidBy(before[k]) = SaidBy(after[k])
    BY <1>1, <1>2, <1>4, <2>1
  <2>3. QED  BY <1>1, <1>2, <2>1, <2>2
<1>7. ASSUME Said(old) = Said(new) PROVE DiffPageSchema(before, after) = {}
  <2>1. ASSUME NEW k \in DOMAIN before PROVE k \in DOMAIN after /\ before[k].hash = after[k].hash
    <3>1. PICK n \in DOMAIN after : SaidBy(after[n]) = SaidBy(before[k])
      <4>1. SaidBy(before[k]) \in Said(new)
        BY <1>1, <1>7
      <4>2. QED  BY <1>2, <4>1
    <3>2. n = k
      BY <1>1, <1>2, <1>3, <3>1
    <3>3. QED  BY <1>3, <3>1, <3>2
  <2>2. ASSUME NEW k \in DOMAIN after PROVE k \in DOMAIN before
    <3>1. PICK n \in DOMAIN before : SaidBy(before[n]) = SaidBy(after[k])
      <4>1. SaidBy(after[k]) \in Said(old)
        BY <1>2, <1>7
      <4>2. QED  BY <1>1, <4>1
    <3>2. n = k
      BY <1>1, <1>2, <1>3, <3>1
    <3>3. QED  BY <3>2
  <2>3. QED  BY <1>5, <2>1, <2>2, DiffIsEmpty
<1>8. QED  BY <1>6, <1>7

(* A page fetched in both crawls: its rows are those of its documents, and *)
(* its changes those of some pair of indexes.                              *)
LEMMA ComparedPage ==
  ASSUME HistoryInv, NEW p \in Pages, Compared(p)
  PROVE  /\ \E before \in Indexes(Loaded(baseline.report[p].entities)),
               after \in Indexes(Loaded(report[p].entities)) :
              ChangesOf(p) = DiffPageSchema(before, after)
         /\ baseline.report[p].document \in AllDocuments /\ report[p].document \in AllDocuments
         /\ baseline.report[p].entities = RowsOf[baseline.report[p].document]
         /\ report[p].entities = RowsOf[report[p].document]
<1>1. /\ phase = "done" /\ report[p] \in Recorded /\ baseline.report[p] \in Recorded
      /\ report[p].outcome \in {"ok", "carried"} /\ baseline.report[p].outcome \in {"ok", "carried"}
  BY DEF Compared, HistoryInv, Stored
<1>2. ASSUME NEW page \in Recorded, page.outcome \in {"ok", "carried"}
      PROVE  page.document \in AllDocuments /\ page.entities = RowsOf[page.document]
  <2>1. page # Unvisited /\ page # FailedPage
    BY <1>2 DEF Unvisited, FailedPage
  <2>2. PICK o \in {"ok", "carried"}, d \in AllDocuments : page = Fetched(o, d)
    BY <2>1, RecordedCases
  <2>3. QED  BY <2>2 DEF Fetched
<1>3. baseline.scope # None
  <2>1. NoReport[p].outcome = "none"
    BY DEF NoReport, Unvisited
  <2>2. QED  BY <1>1, <2>1 DEF HistoryInv, Stored
<1>4. ChangesOf(p) \in DiffsOf(p)
  BY <1>1, <1>3 DEF HistoryInv, Told
<1>5. QED  BY <1>1, <1>2, <1>4 DEF DiffsOf

(* Of however many pages, documents, crawls and changes of the site: the   *)
(* report tells changes of a page exactly when its documents say different *)
(* things.                                                                 *)
THEOREM ChangesCorrect == Spec => []ChangesAreReal
<1>1. HistoryInv => ChangesAreReal
  <2> SUFFICES ASSUME HistoryInv, NEW p \in Pages, Compared(p),
                      KeysDistinct(baseline.report[p].entities), KeysDistinct(report[p].entities)
               PROVE  ChangesOf(p) = {} <=>
                        Says(baseline.report[p].document) = Says(report[p].document)
    BY DEF ChangesAreReal
  <2> DEFINE old == baseline.report[p].entities
             new == report[p].entities
  <2>1. PICK before \in Indexes(Loaded(old)), after \in Indexes(Loaded(new)) :
          ChangesOf(p) = DiffPageSchema(before, after)
    BY ComparedPage
  <2>2. AreRows(old) /\ AreRows(new)
    BY RecordedRows DEF HistoryInv, Stored
  <2>3. ChangesOf(p) = {} <=> Said(old) = Said(new)
    BY <2>1, <2>2, DiffIsSaid
  <2>4. QED  BY <2>3, ComparedPage, SaysIs
<1>2. QED  BY <1>1, Invariance, PTL

-----------------------------------------------------------------------------
(* Lost rich results.                                                      *)

(* What makes an entity ineligible is a property that it lacks.            *)
LEMMA WhatIsMissing ==
  ASSUME NEW e, NEW f \in DOMAIN Row(e).rich
  PROVE  Row(e).rich[f].status = "ineligible" <=> \E q \in Profiles[f].required : ~HasProperty(e, q)
<1>1. Row(e).rich[f] = Verdict(e, f)
  BY Verdicts
<1>2. Verdict(e, f).status = "ineligible" <=> Lacking(e, Profiles[f].required) # {}
  BY DEF Verdict
<1>3. QED  BY <1>1, <1>2 DEF Lacking

(* An entity with a type that a profile is for is judged by that profile.  *)
LEMMA TypeIsJudged ==
  ASSUME NEW e \in AllEntities, NEW f \in DOMAIN Profiles, Row(e).type \in Profiles[f].appliesTo
  PROVE  f \in DOMAIN Row(e).rich
<1>1. Row(e).type # "Unknown"
  BY PacksAgree
<1>2. Row(e).type = PrimaryType(e) /\ PrimaryType(e) # ""
  BY <1>1 DEF Row
<1>3. e.types # <<>>
  BY <1>2 DEF PrimaryType
<1>4. PrimaryType(e) \in ToSet(e.types)
  BY <1>3, HeadIsOneOf
<1>5. Applies(f, e)
  BY <1>2, <1>4 DEF Applies
<1>6. QED  BY <1>5, Verdicts

(* A property that was loaded and that the entity of the same key has not, *)
(* loaded or not, is told to be removed.                                   *)
LEMMA RemovalIsTold ==
  ASSUME NEW e \in AllEntities, NEW g \in AllEntities, ~Oversized(Row(e)),
         NEW q, HasProperty(e, q), ~HasProperty(g, q)
  PROVE  SchemaChange("property_removed", "high", q)
           \in ModifiedDiff(LoadSummary(Row(e)), LoadSummary(Row(g)))
<1> DEFINE old == LoadSummary(Row(e))
           new == LoadSummary(Row(g))
           names == DOMAIN old.properties \cup DOMAIN new.properties
           removed == {SchemaChange("property_removed", "high", n) :
                         n \in {m \in names : IsPresent(old.properties, m) /\ ~IsPresent(new.properties, m)}}
<1>1. q \in DOMAIN e.properties
  BY DEF HasProperty
<1>2. e.hash # g.hash
  BY <1>1, HashAssumption
<1>3. old.hash = e.hash /\ new.hash = g.hash /\ old.properties = e.properties
  BY LoadedRow DEF Row
<1>4. new.properties = NoProperties \/ new.properties = g.properties
  BY LoadedRow DEF Row
<1>5. IsPresent(old.properties, q)
  BY <1>3 DEF IsPresent, HasProperty
<1>6. ~IsPresent(new.properties, q)
  <2>1. CASE new.properties = NoProperties
    BY <2>1 DEF IsPresent, NoProperties
  <2>2. CASE new.properties = g.properties
    BY <2>2 DEF IsPresent, HasProperty
  <2>3. QED  BY <1>4, <2>1, <2>2
<1>7. removed \subseteq PropertyDiff(old, new)
  BY DEF PropertyDiff
<1>8. q \in names
  BY <1>1, <1>3
<1>9. SchemaChange("property_removed", "high", q) \in removed
  <2> HIDE DEF old, new, names
  <2>1. QED  BY <1>5, <1>6, <1>8
<1> HIDE DEF old, new, removed
<1>10. SchemaChange("property_removed", "high", q) \in ModifiedDiff(old, new)
  BY <1>2, <1>3, <1>7, <1>9 DEF ModifiedDiff
<1>11. QED  BY <1>10 DEF old, new

(* Of however many pages and crawls: a page that loses a rich result has a *)
(* change of severity high.                                                *)
THEOREM LossCorrect == Spec => []LossIsTold
<1>1. HistoryInv => LossIsTold
  <2> SUFFICES ASSUME HistoryInv, phase = "done", baseline.scope # None, NEW p \in Pages,
                      NEW row \in ToSet(baseline.report[p].entities), NEW f \in DOMAIN row.rich,
                      row.type \in Profiles[f].appliesTo, row.rich[f].status # "ineligible",
                      \A other \in ToSet(report[p].entities) :
                        f \in DOMAIN other.rich => other.rich[f].status = "ineligible",
                      KeysDistinct(baseline.report[p].entities), ~Oversized(row)
               PROVE  \E c \in ChangesOf(p) : c.severity = "high"
    BY DEF LossIsTold
  <2> DEFINE old == baseline.report[p].entities
             new == report[p].entities
             k == Key(row)
  <2>1. PICK before \in Indexes(Loaded(old)), after \in Indexes(Loaded(new)) :
          ChangesOf(p) = DiffPageSchema(before, after)
    BY DEF HistoryInv, Told, DiffsOf
  <2>2. AreRows(old) /\ AreRows(new)
    BY RecordedRows DEF HistoryInv, Stored
  <2>3. PICK i \in DOMAIN old : row = old[i]
    BY DEF ToSet
  <2>4. PICK e \in AllEntities : row = Row(e)
    BY <2>2, <2>3 DEF AreRows
  <2>5. k \in DOMAIN before /\ before[k] = LoadSummary(row)
    BY <2>2, <2>3, IndexIs, IndexedRow
  <2>6. f \in DOMAIN Profiles
    BY <2>4, Verdicts
  <2>7. \A type, severity, what : SchemaChange(type, severity, what).severity = severity
    BY DEF SchemaChange
  <2>8. CASE k \notin DOMAIN after
    <3>1. SchemaChange("schema_removed", "high", before[k].type) \in DiffPageSchema(before, after)
      BY <2>5, <2>8 DEF DiffPageSchema
    <3>2. QED  BY <2>1, <2>7, <3>1
  <2>9. CASE k \in DOMAIN after
    <3>1. PICK j \in DOMAIN new : Key(new[j]) = k /\ after[k] = LoadSummary(new[j])
      BY <2>2, <2>9, IndexIs
    <3>2. PICK g \in AllEntities : new[j] = Row(g)
      BY <2>2 DEF AreRows
    <3>3. Row(g).type = row.type
      BY <3>1, <3>2, KeyIs
    <3>4. f \in DOMAIN Row(g).rich /\ Row(g) \in ToSet(new)
      BY <2>6, <3>2, <3>3, TypeIsJudged DEF ToSet
    <3>5. Row(g).rich[f].status = "ineligible"
      BY <3>4
    <3>6. PICK q \in Profiles[f].required : ~HasProperty(g, q)
      BY <3>4, <3>5, WhatIsMissing
    <3>7. HasProperty(e, q)
      BY <2>4, <3>6, WhatIsMissing
    <3>8. SchemaChange("property_removed", "high", q) \in ModifiedDiff(before[k], after[k])
      BY <2>4, <2>5, <3>1, <3>2, <3>6, <3>7, RemovalIsTold
    <3>9. ModifiedDiff(before[k], after[k]) \subseteq DiffPageSchema(before, after)
      BY <2>5, <2>9 DEF DiffPageSchema
    <3>10. QED  BY <2>1, <2>7, <3>8, <3>9
  <2>10. QED  BY <2>8, <2>9
<1>2. QED  BY <1>1, Invariance, PTL
=============================================================================
