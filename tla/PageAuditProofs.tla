---------------------------- MODULE PageAuditProofs ----------------------------
(***************************************************************************)
(* Proofs about PageAudit, for every page and every change of it, all link *)
(* targets and any number of crawls.                                       *)
(*                                                                         *)
(* The first part is about the catalog and the score: the catalogs do not  *)
(* overlap, the two programs that score group the issues alike, and a sum  *)
(* grows with what it is over.  The second is about the engine: an audit   *)
(* finds only what the runner knows of a page by itself, and finitely much.*)
(* The third is the invariant of the crawls, explained there.              *)
(***************************************************************************)
EXTENDS PageAudit, TLAPS, FiniteSetTheorems

Urls == INSTANCE Folding WITH Op <- KeepUrl
Anchors == INSTANCE Folding WITH Op <- KeepLink
Sums == INSTANCE Folding WITH Op <- +

Audited == {"ok", "redirected"}
Hints == {"ok", "redirected", "carried"}

(* An issue the catalog knows, with the severity it has there.             *)
Cataloged(i) ==
  i.check \in DOMAIN CATALOG_CHECKS /\ i.severity = CATALOG_CHECKS[i.check].severity

(* A row of page_snapshots with its issues.                                *)
Row(r) ==
  /\ r = [fetch |-> r.fetch, body |-> r.body, artifacts |-> r.artifacts, issues |-> r.issues,
          score |-> r.score, counts |-> r.counts]
  /\ r.fetch \in {"none", "ok", "redirected", "error", "carried"}
  /\ r.score \in 0 .. FULL
  /\ IsFiniteSet(r.issues) /\ \A i \in r.issues : Cataloged(i)
  /\ \A s \in DOMAIN r.counts : r.counts[s] \in Nat \ {0}

Stored ==
  /\ served \in Versions /\ fetched \in Versions \cup {None}
  /\ broken \subseteq LinkUrls /\ brokenThen \subseteq LinkUrls
  /\ phase \in {"over", "fetch", "verify", "finalize"}
  /\ Row(previous) /\ Row(report)
  /\ phase \in {"verify", "finalize"} => report.fetch # "none"
  /\ crawls \in 0 .. MaxCrawls /\ siteChanges \in 0 .. MaxChanges

(* The report the next decision to carry forward is made on.               *)
InForce == IF phase = "fetch" THEN previous ELSE report

(* It has the body it was made from, and of its own what an audit of that  *)
(* body finds, with the response that was audited last.                    *)
Sound(r) ==
  r.fetch \in Hints =>
    /\ \E version \in Versions : version.doc = r.body
    /\ r.artifacts = ExtractArtifacts(r.body, audited)
    /\ OwnIssues(r) = RunChecks(r.artifacts)

(* An audited page has nothing else yet, and the score of that.            *)
Scored ==
  phase \in {"verify", "finalize"} /\ report.fetch \in Audited =>
    /\ report.issues = RunChecks(report.artifacts)
    /\ report.score = ComputePageScore(report.issues)
    /\ report.counts = CountBySeverity(report.issues)

Carried ==
  phase \in {"verify", "finalize"} /\ report.fetch = "carried" => report.body = fetched.doc

(* What an audited page links to has been verified.                        *)
Verified ==
  phase = "finalize" =>
    /\ LinkTargets(report) \subseteq DOMAIN checked
    /\ \A u \in DOMAIN checked : checked[u].ok <=> u \notin brokenThen \cup {Inline}

AuditInv ==
  Stored /\ Sound(InForce) /\ Scored /\ Carried /\ Verified /\ BrokenLinksReported

-----------------------------------------------------------------------------
(* Sums.                                                                   *)

LEMMA SumSame == \A w : SumFunction(w) = Sums!SumFunction(w)
BY Zenon DEF SumFunction, SumFunctionOnSet, FoldFunctionOnSet, MapThenFoldSet,
   Sums!SumFunction, Sums!SumFunctionOnSet, Sums!FoldFunctionOnSet, Sums!MapThenFoldSet

LEMMA FiniteSame == \A S : IsFiniteSet(S) <=> Sums!IsFiniteSet(S)
BY DEF IsFiniteSet, Sums!IsFiniteSet

LEMMA SumType ==
  ASSUME NEW w, IsFiniteSet(DOMAIN w), \A c \in DOMAIN w : w[c] \in Int
  PROVE  SumFunction(w) \in Int
BY SumSame, FiniteSame, Sums!SumType

(* A sum of nothing negative does not fall when there is more to add.      *)
LEMMA SumGrows ==
  ASSUME NEW w, NEW v, IsFiniteSet(DOMAIN v), \A c \in DOMAIN v : v[c] \in Nat,
         DOMAIN w \subseteq DOMAIN v, \A c \in DOMAIN w : w[c] = v[c]
  PROVE  SumFunction(w) <= SumFunction(v)
BY SumSame, FiniteSame, Sums!SumGrows

-----------------------------------------------------------------------------
(* The catalogs.                                                           *)

(* No entry is lost where catalogs are put together, none is negative.     *)
LEMMA Catalogs ==
  /\ DOMAIN CHECKS = DOMAIN MetaCatalog \cup DOMAIN PageCatalog \cup DOMAIN LinkCatalog
  /\ DOMAIN CATALOG_CHECKS
       = DOMAIN CHECKS \cup DOMAIN CROSS_PAGE_CHECKS \cup DOMAIN RUNTIME_CHECKS
  /\ \A c \in DOMAIN CHECKS : CATALOG_CHECKS[c] = CHECKS[c]
  /\ \A c \in DOMAIN CATALOG_CHECKS :
       /\ CATALOG_CHECKS[c].weight \in Nat
       /\ CATALOG_CHECKS[c].severity \in {"critical", "high", "medium", "low", "info"}
<1> DEFINE Priced(catalog) ==
      \A c \in DOMAIN catalog :
        /\ catalog[c].weight \in Nat
        /\ catalog[c].severity \in {"critical", "high", "medium", "low", "info"}
<1>1. Priced(MetaCatalog)
  BY DEF MetaCatalog, Entry, CRITICAL, HIGH, MEDIUM, LOW, INFO
<1>2. Priced(PageCatalog)
  BY DEF PageCatalog, Entry, CRITICAL, HIGH, MEDIUM, LOW, INFO
<1>3. Priced(LinkCatalog)
  BY DEF LinkCatalog, Entry, CRITICAL, HIGH, MEDIUM, LOW, INFO
<1>4. Priced(RUNTIME_CHECKS) /\ Priced(CROSS_PAGE_CHECKS)
  BY DEF RUNTIME_CHECKS, CROSS_PAGE_CHECKS, Entry, CRITICAL, HIGH, MEDIUM, LOW, INFO
<1>5. Priced(CHECKS)
  BY <1>1, <1>2, <1>3 DEF CHECKS, Joined
<1>6. Priced(CATALOG_CHECKS)
  <2> HIDE DEF CHECKS
  <2>1. QED  BY <1>4, <1>5 DEF CATALOG_CHECKS, Joined
<1>7. DOMAIN CHECKS = DOMAIN MetaCatalog \cup DOMAIN PageCatalog \cup DOMAIN LinkCatalog
  BY DEF CHECKS, Joined
<1>8. /\ DOMAIN CATALOG_CHECKS
           = DOMAIN CHECKS \cup DOMAIN CROSS_PAGE_CHECKS \cup DOMAIN RUNTIME_CHECKS
      /\ \A c \in DOMAIN CHECKS : CATALOG_CHECKS[c] = CHECKS[c]
  BY DEF CATALOG_CHECKS, Joined
<1>9. QED  BY <1>6, <1>7, <1>8

-----------------------------------------------------------------------------
(* The score.                                                              *)

LEMMA FullIs == FULL \in Nat /\ FULL > 0
BY SMT DEF FULL

LEMMA ClampedIs ==
  ASSUME NEW s \in Int
  PROVE  Clamped(s) = IF s < 0 THEN 0 ELSE IF s > FULL THEN FULL ELSE s
<1> DEFINE low == IF s > FULL THEN FULL ELSE s
<1>1. Min({FULL, s}) = low
  <2>1. low \in {FULL, s} /\ \A y \in {FULL, s} : low <= y
    BY FullIs
  <2>2. \A x \in {FULL, s} : (\A y \in {FULL, s} : x <= y) => x = low
    BY FullIs
  <2> HIDE DEF low
  <2>3. QED  BY <2>1, <2>2 DEF Min
<1> DEFINE high == IF low < 0 THEN 0 ELSE low
<1>2. low \in Int
  BY FullIs
<1>3. Max({0, low}) = high
  <2> HIDE DEF low
  <2>1. high \in {0, low} /\ \A y \in {0, low} : high >= y
    BY <1>2
  <2>2. \A x \in {0, low} : (\A y \in {0, low} : x >= y) => x = high
    BY <1>2
  <2> HIDE DEF high
  <2>3. QED  BY <2>1, <2>2 DEF Max
<1>4. Clamped(s) = high
  BY <1>1, <1>3 DEF Clamped
<1>5. QED  BY <1>4, FullIs

(* What each octave and quarter adds is a number, and not negative.        *)
LEMMA SurchargeType == \A n \in Nat : Surcharge(n) \in Nat
<1> SUFFICES ASSUME NEW n \in Nat PROVE Surcharge(n) \in Nat
  OBVIOUS
<1> DEFINE powers == {k \in 1 .. n : 2 ^ k <= n}
           quarters == (4 * n) \div (2 ^ Cardinality(powers)) - 4
           rest == CASE quarters = 1 -> 32 [] quarters = 2 -> 58 [] quarters = 3 -> 81 [] OTHER -> 0
<1>1. IsFiniteSet(powers)
  <2>1. IsFiniteSet(1 .. n)
    BY FS_Interval
  <2>2. powers \subseteq 1 .. n
    OBVIOUS
  <2> HIDE DEF powers
  <2>3. QED  BY <2>1, <2>2, FS_Subset
<1>2. Surcharge(n) = 100 * Cardinality(powers) + rest
  BY Zenon DEF Surcharge
<1> HIDE DEF powers, quarters
<1>3. rest \in Nat
  OBVIOUS
<1>4. Cardinality(powers) \in Nat
  BY <1>1, FS_CardinalityType
<1> HIDE DEF rest
<1>5. QED  BY <1>2, <1>3, <1>4

(* Finitely many issues fail finitely many checks.                         *)
LEMMA InstancesType ==
  ASSUME NEW results, IsFiniteSet(results)
  PROVE  /\ IsFiniteSet(FailedChecks(results))
         /\ \A c : Instances(results, c) \in Nat
<1>1. IsFiniteSet(FailedChecks(results))
  <2> DEFINE f == [r \in results |-> r.check]
  <2>1. f \in Surjection(results, FailedChecks(results))
    BY DEF FailedChecks, Surjection
  <2>2. QED  BY <2>1, FS_Surjection
<1>2. ASSUME NEW c PROVE Instances(results, c) \in Nat
  <2> DEFINE of == {r \in results : r.check = c}
  <2>1. IsFiniteSet(of)
    <3>1. of \subseteq results
      OBVIOUS
    <3> HIDE DEF of
    <3>2. QED  BY <3>1, FS_Subset
  <2>2. Instances(results, c) = Cardinality(of)
    BY DEF Instances
  <2> HIDE DEF of
  <2>3. QED  BY <2>1, <2>2, FS_CardinalityType
<1>3. QED  BY <1>1, <1>2

(* Issues of the catalog's severities are grouped the same by severity.    *)
GroupOf(c) == [check |-> c, severity |-> CATALOG_CHECKS[c].severity]

(* What a check costs that fails n times.                                  *)
Cost(weight, n, severity) == weight * (1000 + Surcharge(n)) * severity

LEMMA CostType == \A weight, n, severity \in Nat : Cost(weight, n, severity) \in Nat
<1> SUFFICES ASSUME NEW weight \in Nat, NEW n \in Nat, NEW severity \in Nat
             PROVE  Cost(weight, n, severity) \in Nat
  OBVIOUS
<1> DEFINE surcharged == 1000 + Surcharge(n)
<1>1. surcharged \in Nat
  BY SurchargeType
<1>2. Cost(weight, n, severity) = weight * surcharged * severity
  BY DEF Cost
<1> HIDE DEF surcharged
<1>3. \A x, y \in Nat : x * y \in Nat
  OBVIOUS
<1>4. weight * surcharged \in Nat
  BY <1>1, <1>3
<1>5. weight * surcharged * severity \in Nat
  BY <1>3, <1>4
<1>6. QED  BY <1>2, <1>5

(* computePageScore's groups, and what each costs.                         *)
LEMMA DeductionsType ==
  ASSUME NEW results, IsFiniteSet(results), \A r \in results : Cataloged(r),
         NEW costs, costs = Deductions(results)
  PROVE  /\ DOMAIN costs = {GroupOf(c) : c \in FailedChecks(results)}
         /\ IsFiniteSet(DOMAIN costs)
         /\ \A c \in FailedChecks(results) :
              costs[GroupOf(c)] = Cost(Weight(c), Instances(results, c),
                                       SEVERITY_MULTIPLIER[CATALOG_CHECKS[c].severity])
         /\ \A g \in DOMAIN costs : costs[g] \in Nat
<1>1. ASSUME NEW c \in FailedChecks(results) PROVE Group(results, c) = GroupOf(c)
  <2> DEFINE first == CHOOSE r \in results : r.check = c
  <2>1. first \in results /\ first.check = c
    BY DEF FailedChecks
  <2>2. Group(results, c) = [check |-> c, severity |-> first.severity]
    BY DEF Group
  <2> HIDE DEF first
  <2>3. QED  BY <2>1, <2>2 DEF Cataloged, GroupOf
<1>2. DOMAIN costs = {GroupOf(c) : c \in FailedChecks(results)}
  BY <1>1 DEF Deductions
<1>3. IsFiniteSet(DOMAIN costs)
  <2> DEFINE f == [c \in FailedChecks(results) |-> GroupOf(c)]
  <2>1. f \in Surjection(FailedChecks(results), DOMAIN costs)
    BY <1>2 DEF Surjection
  <2>2. QED  BY <2>1, InstancesType, FS_Surjection
<1>4. ASSUME NEW c \in FailedChecks(results)
      PROVE  /\ costs[GroupOf(c)] = Cost(Weight(c), Instances(results, c),
                                         SEVERITY_MULTIPLIER[CATALOG_CHECKS[c].severity])
             /\ costs[GroupOf(c)] \in Nat
  <2> DEFINE g == GroupOf(c)
             times == SEVERITY_MULTIPLIER[CATALOG_CHECKS[c].severity]
  <2>1. g \in {Group(results, d) : d \in FailedChecks(results)}
    BY <1>1
  <2>2. costs[g] = Weight(g.check) * (1000 + Surcharge(Instances(results, g.check)))
                     * SEVERITY_MULTIPLIER[g.severity]
    <3> HIDE DEF g
    <3>1. QED  BY <2>1 DEF Deductions
  <2>3. g.check = c /\ g.severity = CATALOG_CHECKS[c].severity
    BY DEF GroupOf
  <2>4. costs[g] = Cost(Weight(c), Instances(results, c), times)
    BY <2>2, <2>3 DEF Cost
  <2>5. c \in DOMAIN CATALOG_CHECKS
    BY DEF FailedChecks, Cataloged
  <2>6. times \in Nat
    <3>1. CATALOG_CHECKS[c].severity \in {"critical", "high", "medium", "low", "info"}
      BY <2>5, Catalogs
    <3>2. QED  BY <3>1 DEF SEVERITY_MULTIPLIER
  <2>7. Weight(c) \in Nat
    BY <2>5, Catalogs DEF Weight
  <2>8. Instances(results, c) \in Nat
    BY InstancesType
  <2> HIDE DEF g, times
  <2>9. costs[g] \in Nat
    BY <2>4, <2>6, <2>7, <2>8, CostType
  <2>10. QED  BY <2>4, <2>9 DEF g, times
<1>5. QED  BY <1>2, <1>3, <1>4

(* The SQL's groups are the same; it weighs them by its own catalog.       *)
LEMMA SqlDeductionsType ==
  ASSUME NEW issues, IsFiniteSet(issues), \A i \in issues : Cataloged(i),
         NEW costs, costs = SqlDeductions(issues)
  PROVE  /\ DOMAIN costs = {GroupOf(c) : c \in FailedChecks(issues)}
         /\ IsFiniteSet(DOMAIN costs)
         /\ \A c \in FailedChecks(issues) :
              costs[GroupOf(c)] = Cost(CATALOG_CHECKS[c].weight, Instances(issues, c),
                                       SEVERITY_MULTIPLIER[CATALOG_CHECKS[c].severity])
         /\ \A g \in DOMAIN costs : costs[g] \in Nat
<1> DEFINE perCheck == PerCheck(issues)
<1>1. ASSUME NEW i \in issues PROVE [check |-> i.check, severity |-> i.severity] = GroupOf(i.check)
  BY DEF Cataloged, GroupOf
<1>2. DOMAIN perCheck = {GroupOf(c) : c \in FailedChecks(issues)}
  <2>1. DOMAIN perCheck = {[check |-> i.check, severity |-> i.severity] : i \in issues}
    BY DEF PerCheck
  <2>2. \A c : c \in FailedChecks(issues) <=> \E i \in issues : i.check = c
    BY DEF FailedChecks
  <2> DEFINE failed == {GroupOf(c) : c \in FailedChecks(issues)}
  <2> HIDE DEF perCheck
  <2>3. ASSUME NEW g \in DOMAIN perCheck PROVE g \in failed
    <3>1. PICK i \in issues : g = [check |-> i.check, severity |-> i.severity]
      BY <2>1
    <3>2. g = GroupOf(i.check) /\ i.check \in FailedChecks(issues)
      BY <1>1, <2>2, <3>1
    <3>3. QED  BY <3>2
  <2>4. ASSUME NEW c \in FailedChecks(issues) PROVE GroupOf(c) \in DOMAIN perCheck
    <3>1. PICK i \in issues : i.check = c
      BY <2>2
    <3>2. GroupOf(c) = [check |-> i.check, severity |-> i.severity]
      BY <1>1, <3>1
    <3>3. QED  BY <2>1, <3>2
  <2>5. failed \subseteq DOMAIN perCheck
    BY <2>4
  <2> HIDE DEF failed
  <2>6. DOMAIN perCheck = failed
    BY <2>3, <2>5
  <2>7. QED  BY <2>6 DEF failed
<1>3. \A c \in FailedChecks(issues) :
        /\ c \in DOMAIN CATALOG_CHECKS
        /\ CATALOG_CHECKS[c].severity \in {"critical", "high", "medium", "low", "info"}
        /\ CATALOG_CHECKS[c].weight \in Nat
  BY Catalogs DEF FailedChecks, Cataloged
<1>4. \A g \in DOMAIN perCheck : g.severity \in DOMAIN Multipliers
  <2>1. DOMAIN Multipliers = {"critical", "high", "medium", "low", "info"}
    BY DEF Multipliers
  <2>2. \A c : GroupOf(c).severity = CATALOG_CHECKS[c].severity
    BY DEF GroupOf
  <2> HIDE DEF perCheck
  <2>3. QED  BY <1>2, <1>3, <2>1, <2>2
<1>5. ASSUME NEW c \in FailedChecks(issues) PROVE perCheck[GroupOf(c)] = Instances(issues, c)
  <2> DEFINE g == GroupOf(c)
  <2>1. g.check = c /\ g.severity = CATALOG_CHECKS[c].severity
    BY DEF GroupOf
  <2>2. g \in {[check |-> i.check, severity |-> i.severity] : i \in issues}
    BY <1>1 DEF FailedChecks
  <2> HIDE DEF g
  <2>3. perCheck[g] = Cardinality({i \in issues : i.check = g.check /\ i.severity = g.severity})
    BY <2>2 DEF PerCheck
  <2>4. {i \in issues : i.check = g.check /\ i.severity = g.severity} = {i \in issues : i.check = c}
    BY <2>1 DEF Cataloged
  <2>5. perCheck[g] = Instances(issues, c)
    BY <2>3, <2>4 DEF Instances
  <2>6. QED  BY <2>5 DEF g
<1>6. costs = [g \in DOMAIN perCheck |->
                 DefaultWeight(g.check) * (1000 + Surcharge(perCheck[g])) * Multipliers[g.severity]]
  <2>1. {h \in DOMAIN perCheck : h.severity \in DOMAIN Multipliers} = DOMAIN perCheck
    BY <1>4
  <2>2. costs = [g \in {h \in DOMAIN perCheck : h.severity \in DOMAIN Multipliers} |->
                   DefaultWeight(g.check) * (1000 + Surcharge(perCheck[g])) * Multipliers[g.severity]]
    BY Zenon DEF SqlDeductions
  <2> HIDE DEF perCheck
  <2>3. QED  BY <2>1, <2>2
<1> HIDE DEF perCheck
<1>7. DOMAIN costs = {GroupOf(c) : c \in FailedChecks(issues)}
  BY <1>2, <1>6
<1>8. IsFiniteSet(DOMAIN costs)
  <2> DEFINE f == [c \in FailedChecks(issues) |-> GroupOf(c)]
  <2>1. f \in Surjection(FailedChecks(issues), DOMAIN costs)
    BY <1>7 DEF Surjection
  <2>2. QED  BY <2>1, InstancesType, FS_Surjection
<1>9. ASSUME NEW c \in FailedChecks(issues)
      PROVE  /\ costs[GroupOf(c)] = Cost(CATALOG_CHECKS[c].weight, Instances(issues, c),
                                         SEVERITY_MULTIPLIER[CATALOG_CHECKS[c].severity])
             /\ costs[GroupOf(c)] \in Nat
  <2> DEFINE g == GroupOf(c)
             times == SEVERITY_MULTIPLIER[CATALOG_CHECKS[c].severity]
  <2>1. g.check = c /\ g.severity = CATALOG_CHECKS[c].severity
    BY DEF GroupOf
  <2>2. g \in DOMAIN perCheck /\ perCheck[g] = Instances(issues, c)
    BY <1>2, <1>5
  <2> HIDE DEF g
  <2>3. costs[g] = DefaultWeight(c) * (1000 + Surcharge(Instances(issues, c)))
                     * Multipliers[CATALOG_CHECKS[c].severity]
    BY <1>6, <2>1, <2>2
  <2>4. DefaultWeight(c) = CATALOG_CHECKS[c].weight
    BY <1>3 DEF DefaultWeight
  <2>5. Multipliers[CATALOG_CHECKS[c].severity] = times /\ times \in Nat
    BY <1>3 DEF Multipliers, SEVERITY_MULTIPLIER
  <2>6. Instances(issues, c) \in Nat
    BY InstancesType
  <2> HIDE DEF times
  <2>7. costs[g] = Cost(CATALOG_CHECKS[c].weight, Instances(issues, c), times)
    BY <2>3, <2>4, <2>5 DEF Cost
  <2>8. costs[g] \in Nat
    <3>1. CATALOG_CHECKS[c].weight \in Nat
      BY <1>3
    <3>2. QED  BY <2>5, <2>6, <2>7, <3>1, CostType
  <2>9. QED  BY <2>7, <2>8 DEF g, times
<1>10. QED  BY <1>7, <1>8, <1>9

(* What is left of the full score, clamped.                                *)
Left(costs) == Clamped(FULL - SumFunction(costs))

LEMMA LeftType ==
  ASSUME NEW costs, IsFiniteSet(DOMAIN costs), \A g \in DOMAIN costs : costs[g] \in Nat
  PROVE  Left(costs) \in 0 .. FULL
<1>1. \A g \in DOMAIN costs : costs[g] \in Int
  OBVIOUS
<1>2. FULL - SumFunction(costs) \in Int
  BY <1>1, SumType, FullIs
<1>3. QED  BY <1>2, ClampedIs, FullIs DEF Left

LEMMA ScoresAre ==
  ASSUME NEW results
  PROVE  /\ ComputePageScore(results) = Left(Deductions(results))
         /\ SqlScore(results) = Left(SqlDeductions(results))
BY Zenon DEF ComputePageScore, SqlScore, Left, Clamped

(* A score is one, in either program.                                      *)
LEMMA ScoreType ==
  ASSUME NEW results, IsFiniteSet(results), \A r \in results : Cataloged(r)
  PROVE  ComputePageScore(results) \in 0 .. FULL /\ SqlScore(results) \in 0 .. FULL
<1>1. Left(Deductions(results)) \in 0 .. FULL
  BY DeductionsType, LeftType
<1>2. Left(SqlDeductions(results)) \in 0 .. FULL
  BY SqlDeductionsType, LeftType
<1>3. QED  BY <1>1, <1>2, ScoresAre

(* Where the runner knows every check, the two programs agree: no group is *)
(* split by its severity, and the catalogs weigh it the same.              *)
LEMMA ScoresAgree ==
  ASSUME NEW results, IsFiniteSet(results), \A r \in results : Cataloged(r),
         FailedChecks(results) \subseteq DOMAIN CHECKS
  PROVE  SqlScore(results) = ComputePageScore(results)
<1> DEFINE v == Deductions(results)
           w == SqlDeductions(results)
           failed == FailedChecks(results)
<1>1. /\ DOMAIN v = {GroupOf(c) : c \in failed}
      /\ \A c \in failed : v[GroupOf(c)] = Cost(Weight(c), Instances(results, c),
                                               SEVERITY_MULTIPLIER[CATALOG_CHECKS[c].severity])
  BY DeductionsType
<1>2. /\ DOMAIN w = {GroupOf(c) : c \in failed}
      /\ \A c \in failed : w[GroupOf(c)] = Cost(CATALOG_CHECKS[c].weight, Instances(results, c),
                                               SEVERITY_MULTIPLIER[CATALOG_CHECKS[c].severity])
  BY SqlDeductionsType
<1>3. \A c \in failed : Weight(c) = CATALOG_CHECKS[c].weight
  BY Catalogs DEF Weight
<1>4. v = [g \in DOMAIN v |-> v[g]] /\ w = [g \in DOMAIN w |-> w[g]]
  BY DEF Deductions, SqlDeductions
<1> HIDE DEF v, w, failed
<1>5. \A g \in DOMAIN v : v[g] = w[g]
  BY <1>1, <1>2, <1>3
<1>6. v = w
  BY <1>1, <1>2, <1>4, <1>5
<1>7. QED  BY <1>6, ScoresAre DEF v, w

(* Issues of further checks do not raise it.                               *)
LEMMA ScoreFalls ==
  ASSUME NEW results, NEW more, IsFiniteSet(results \cup more),
         \A r \in results \cup more : Cataloged(r),
         FailedChecks(results) \cap FailedChecks(more) = {}
  PROVE  SqlScore(results \cup more) <= SqlScore(results)
<1> DEFINE w == SqlDeductions(results)
           v == SqlDeductions(results \cup more)
<1>1. IsFiniteSet(results)
  BY FS_Subset
<1>2. /\ DOMAIN w = {GroupOf(c) : c \in FailedChecks(results)}
      /\ IsFiniteSet(DOMAIN w) /\ \A g \in DOMAIN w : w[g] \in Nat
      /\ \A c \in FailedChecks(results) :
           w[GroupOf(c)] = Cost(CATALOG_CHECKS[c].weight, Instances(results, c),
                                SEVERITY_MULTIPLIER[CATALOG_CHECKS[c].severity])
  BY <1>1, SqlDeductionsType
<1>3. /\ DOMAIN v = {GroupOf(c) : c \in FailedChecks(results \cup more)}
      /\ IsFiniteSet(DOMAIN v) /\ \A g \in DOMAIN v : v[g] \in Nat
      /\ \A c \in FailedChecks(results \cup more) :
           v[GroupOf(c)] = Cost(CATALOG_CHECKS[c].weight, Instances(results \cup more, c),
                                SEVERITY_MULTIPLIER[CATALOG_CHECKS[c].severity])
  BY SqlDeductionsType
<1>4. FailedChecks(results) \subseteq FailedChecks(results \cup more)
  BY DEF FailedChecks
<1> HIDE DEF w, v
<1>5. DOMAIN w \subseteq DOMAIN v
  BY <1>2, <1>3, <1>4
<1>6. ASSUME NEW c \in FailedChecks(results)
      PROVE  Instances(results, c) = Instances(results \cup more, c)
  <2>1. {r \in results : r.check = c} = {r \in results \cup more : r.check = c}
    BY DEF FailedChecks
  <2>2. QED  BY <2>1 DEF Instances
<1>7. \A g \in DOMAIN w : w[g] = v[g]
  BY <1>2, <1>3, <1>4, <1>6
<1>8. SumFunction(w) <= SumFunction(v)
  BY <1>3, <1>5, <1>7, SumGrows
<1>9. SumFunction(w) \in Int /\ SumFunction(v) \in Int
  <2>1. \A g \in DOMAIN w : w[g] \in Int
    <3>1. \A g \in DOMAIN w : w[g] \in Nat
      BY <1>2
    <3>2. QED  BY <3>1
  <2>2. \A g \in DOMAIN v : v[g] \in Int
    <3>1. \A g \in DOMAIN v : v[g] \in Nat
      BY <1>3
    <3>2. QED  BY <3>1
  <2>3. SumFunction(w) \in Int
    BY <1>2, <2>1, SumType
  <2>4. SumFunction(v) \in Int
    BY <1>3, <2>2, SumType
  <2>5. QED  BY <2>3, <2>4
<1>10. Left(v) <= Left(w)
  <2> DEFINE a == FULL - SumFunction(v)
             b == FULL - SumFunction(w)
  <2>1. a \in Int /\ b \in Int /\ a <= b
    BY <1>8, <1>9, FullIs
  <2> HIDE DEF a, b
  <2>2. Clamped(a) <= Clamped(b)
    BY <2>1, ClampedIs, FullIs
  <2>3. QED  BY <2>2 DEF a, b, Left
<1>11. QED  BY <1>10, ScoresAre DEF v, w

-----------------------------------------------------------------------------
(* The engine.                                                             *)

(* What the runner can find on a page by itself.                           *)
OwnChecks == DOMAIN MetaCatalog \cup DOMAIN PageCatalog

LEMMA OwnChecksApart ==
  /\ OwnChecks \subseteq DOMAIN CHECKS
  /\ OwnChecks \cap DOMAIN LinkCatalog = {}
<1>1. OwnChecks \cap DOMAIN LinkCatalog = {}
  BY DEF OwnChecks, MetaCatalog, PageCatalog, LinkCatalog
<1>2. QED  BY <1>1, Catalogs DEF OwnChecks

(* An audit finds nothing else.                                            *)
LEMMA ChecksKnown ==
  ASSUME NEW a
  PROVE  \A r \in RunChecks(a) : r.check \in OwnChecks
<1> DEFINE Known(results) == \A r \in results : r.check \in OwnChecks
<1> USE DEF Fail, FailEach, Result
<1>1. Known(TitleResults(a))
  BY DEF TitleResults, OwnChecks, MetaCatalog, PageCatalog
<1>2. Known(DescriptionResults(a))
  BY DEF DescriptionResults, OwnChecks, MetaCatalog, PageCatalog
<1>3. Known(CanonicalResults(a))
  BY DEF CanonicalResults, OwnChecks, MetaCatalog, PageCatalog
<1>4. Known(RobotsResults(a))
  BY DEF RobotsResults, OwnChecks, MetaCatalog, PageCatalog
<1>5. Known(DeclarationResults(a))
  BY DEF DeclarationResults, OwnChecks, MetaCatalog, PageCatalog
<1>6. Known(HeadingResults(a))
  <2>1. \A r \in HeadingResults(a) : r.check \in {"h1_missing", "h1_multiple", "h1_duplicate_of_title", "skipped_level", "heading_empty"}
    BY DEF HeadingResults
  <2>2. {"h1_missing", "h1_multiple", "h1_duplicate_of_title", "skipped_level", "heading_empty"} \subseteq OwnChecks
    BY DEF OwnChecks, MetaCatalog, PageCatalog
  <2>3. QED  BY <2>1, <2>2
<1>7. Known(ImageResults(a))
  <2>1. \A r \in ImageResults(a) : r.check \in {"alt_missing", "alt_empty", "missing_width", "missing_height"}
    BY DEF ImageResults
  <2>2. {"alt_missing", "alt_empty", "missing_width", "missing_height"} \subseteq OwnChecks
    BY DEF OwnChecks, MetaCatalog, PageCatalog
  <2>3. QED  BY <2>1, <2>2
<1>8. Known(LinkResults(a))
  <2>1. \A r \in LinkResults(a) : r.check \in {"noopener_missing", "anchor_generic"}
    BY DEF LinkResults
  <2>2. {"noopener_missing", "anchor_generic"} \subseteq OwnChecks
    BY DEF OwnChecks, MetaCatalog, PageCatalog
  <2>3. QED  BY <2>1, <2>2
<1>9. Known(TechnicalResults(a))
  BY DEF TechnicalResults, OwnChecks, MetaCatalog, PageCatalog
<1>10. Known(SocialResults(a))
  BY DEF SocialResults, OwnChecks, MetaCatalog, PageCatalog
<1> HIDE DEF Fail, FailEach, Result
<1>11. QED
  BY <1>1, <1>2, <1>3, <1>4, <1>5, <1>6, <1>7, <1>8, <1>9, <1>10 DEF RunChecks

(* createCheck gives every result the severity of its check.               *)
LEMMA SeveritiesKnown ==
  ASSUME NEW a
  PROVE  \A r \in RunChecks(a) : r.severity = CATALOG_CHECKS[r.check].severity
<1> DEFINE Known(results) == \A r \in results : r.severity = CATALOG_CHECKS[r.check].severity
<1> USE DEF Fail, FailEach, Result
<1>1. Known(TitleResults(a)) /\ Known(DescriptionResults(a))
  BY DEF TitleResults, DescriptionResults
<1>2. Known(CanonicalResults(a)) /\ Known(RobotsResults(a))
  BY DEF CanonicalResults, RobotsResults
<1>3. Known(DeclarationResults(a)) /\ Known(HeadingResults(a))
  BY DEF DeclarationResults, HeadingResults
<1>4. Known(ImageResults(a)) /\ Known(LinkResults(a))
  BY DEF ImageResults, LinkResults
<1>5. Known(TechnicalResults(a)) /\ Known(SocialResults(a))
  BY DEF TechnicalResults, SocialResults
<1> HIDE DEF Fail, FailEach, Result
<1>6. QED  BY <1>1, <1>2, <1>3, <1>4, <1>5 DEF RunChecks

LEMMA AuditCataloged ==
  ASSUME NEW a
  PROVE  \A r \in RunChecks(a) : Cataloged(r)
BY ChecksKnown, SeveritiesKnown, OwnChecksApart, Catalogs DEF Cataloged

(* What is computed from finitely many things is finite.                   *)
LEMMA Images ==
  ASSUME NEW f, IsFiniteSet(DOMAIN f)
  PROVE  IsFiniteSet({f[x] : x \in DOMAIN f})
<1> DEFINE T == {f[x] : x \in DOMAIN f}
           g == [x \in DOMAIN f |-> f[x]]
<1>1. g \in Surjection(DOMAIN f, T)
  BY DEF Surjection
<1>2. QED  BY <1>1, FS_Surjection

(* Results at different places of one list.                                *)
LEMMA Listed ==
  ASSUME NEW R, NEW places, IsFiniteSet(places), \A r \in R : r.at \in places,
         \A r, q \in R : r.at = q.at => r = q
  PROVE  IsFiniteSet(R)
<1> DEFINE f == [r \in R |-> r.at]
<1>1. f \in Injection(R, places)
  BY DEF Injection, IsInjective
<1>2. QED  BY <1>1, FS_Injection

(* The lists that leave something out are lists.                           *)
LEMMA ResolvedIsList ==
  ASSUME NEW s, s \in Seq(Range(s)), NEW all, all = Resolved(s)
  PROVE  \E m \in Nat : DOMAIN all = 1 .. m
<1> DEFINE n == Len(s)
           E == {ResolveUrl(s[i]) : i \in 1 .. n}
<1>1. n \in Nat /\ DOMAIN s = 1 .. n
  OBVIOUS
<1> HIDE DEF n
<1>2. all = Urls!Folded(<<>>, s)
  BY Zenon DEF Resolved, Urls!Folded, FoldLeft, Urls!FoldLeft, MapThenFoldSet, Urls!MapThenFoldSet, Max, Urls!Max
<1>3. PICK f : Urls!Trace(f, <<>>, s, n) /\ all = f[n]
  BY <1>1, <1>2, Urls!Unfold
<1> DEFINE T == {k \in 0 .. n : f[k] \in Seq(E)}
<1>4. 0 \in T
  <2>1. f[0] = <<>>
    BY <1>3 DEF Urls!Trace
  <2>2. <<>> \in Seq(E) /\ 0 \in 0 .. n
    BY <1>1
  <2> HIDE DEF E
  <2>3. QED  BY <2>1, <2>2
<1>5. ASSUME NEW k \in 0 .. n - 1, k \in T PROVE k + 1 \in T
  <2>1. k + 1 \in 1 .. n /\ (k + 1) - 1 = k
    BY <1>1
  <2>2. f[k + 1] = KeepUrl(f[k], s[k + 1])
    BY <1>3, <2>1 DEF Urls!Trace
  <2>3. ResolveUrl(s[k + 1]) \in E /\ f[k] \in Seq(E)
    BY <1>5, <2>1
  <2> HIDE DEF E
  <2>4. f[k + 1] \in Seq(E)
    BY <2>2, <2>3 DEF KeepUrl
  <2>5. QED  BY <1>1, <2>1, <2>4
<1>6. f[n] \in Seq(E)
  <2> HIDE DEF T
  <2>1. n \in T
    BY <1>1, <1>4, <1>5, Urls!Upto
  <2>2. QED  BY <2>1 DEF T
<1> HIDE DEF E
<1>7. QED  BY <1>3, <1>6

(* Likewise the links: the anchors that lead somewhere.                    *)
LEMMA LinksAreList ==
  ASSUME NEW s, s \in Seq(Range(s)), NEW all, all = FoldLeft(KeepLink, <<>>, s)
  PROVE  \E m \in Nat : DOMAIN all = 1 .. m
<1> DEFINE n == Len(s)
           E == Range(s)
<1>1. n \in Nat /\ DOMAIN s = 1 .. n
  OBVIOUS
<1> HIDE DEF n
<1>2. all = Anchors!Folded(<<>>, s)
  BY Zenon DEF Anchors!Folded, FoldLeft, Anchors!FoldLeft, MapThenFoldSet, Anchors!MapThenFoldSet, Max, Anchors!Max
<1>3. PICK f : Anchors!Trace(f, <<>>, s, n) /\ all = f[n]
  BY <1>1, <1>2, Anchors!Unfold
<1> DEFINE T == {k \in 0 .. n : f[k] \in Seq(E)}
<1>4. 0 \in T
  <2>1. f[0] = <<>>
    BY <1>3 DEF Anchors!Trace
  <2>2. <<>> \in Seq(E) /\ 0 \in 0 .. n
    BY <1>1
  <2> HIDE DEF E
  <2>3. QED  BY <2>1, <2>2
<1>5. ASSUME NEW k \in 0 .. n - 1, k \in T PROVE k + 1 \in T
  <2>1. k + 1 \in 1 .. n /\ (k + 1) - 1 = k
    BY <1>1
  <2>2. f[k + 1] = KeepLink(f[k], s[k + 1])
    BY <1>3, <2>1 DEF Anchors!Trace
  <2>3. s[k + 1] \in E /\ f[k] \in Seq(E)
    BY <1>1, <1>5, <2>1 DEF Range
  <2> HIDE DEF E
  <2> DEFINE l == s[k + 1]
             anchors == f[k]
  <2> HIDE DEF l, anchors
  <2>4. KeepLink(anchors, l) = anchors \/ KeepLink(anchors, l) = Append(anchors, l)
    BY DEF KeepLink
  <2>5. anchors \in Seq(E) /\ l \in E
    BY <2>3 DEF anchors, l
  <2>6. Append(anchors, l) \in Seq(E)
    BY <2>5
  <2>7. KeepLink(anchors, l) \in Seq(E)
    BY <2>4, <2>5, <2>6
  <2>8. f[k + 1] \in Seq(E)
    BY <2>2, <2>7 DEF anchors, l
  <2>9. QED  BY <1>1, <2>1, <2>8
<1>6. f[n] \in Seq(E)
  <2> HIDE DEF T
  <2>1. n \in T
    BY <1>1, <1>4, <1>5, Urls!Upto
  <2>2. QED  BY <2>1 DEF T
<1> HIDE DEF E
<1>7. QED  BY <1>3, <1>6

(* The positions in a sequence, and in a part of it, are finitely many.    *)
LEMMA Positions ==
  ASSUME NEW m \in Int
  PROVE  IsFiniteSet(1 .. m)
<1>1. 1 \in Int
  OBVIOUS
<1>2. QED  BY <1>1, FS_Interval

(* A check of the whole page fails once or not at all.                     *)
LEMMA FailFinite ==
  ASSUME NEW check, NEW holds
  PROVE  IsFiniteSet(Fail(check, holds))
<1>1. IsFiniteSet({Result(check, 0, None)})
  BY FS_Singleton
<1>2. IsFiniteSet({})
  BY FS_EmptySet
<1>3. QED  BY <1>1, <1>2 DEF Fail

(* What an audit finds in the lists of a page is finite, list by list.     *)
LEMMA CanonicalsFinite ==
  ASSUME NEW a, IsFiniteSet(DOMAIN a.canonicals)
  PROVE  IsFiniteSet(CanonicalResults(a))
<1> DEFINE P == FailEach("canonical_non_https", a.canonicals, Insecure, Self)
           Q == FailEach("canonical_cross_domain", a.canonicals,
                         LAMBDA c : c.domain # a.finalUrl.domain, Self)
<1>1. IsFiniteSet(P)
  <2>1. \A r \in P : r.at \in DOMAIN a.canonicals
    BY DEF FailEach, Result
  <2>2. \A r, q \in P : r.at = q.at => r = q
    BY DEF FailEach, Result
  <2> HIDE DEF P
  <2>3. QED  BY <2>1, <2>2, Listed
<1>2. IsFiniteSet(Q)
  <2>1. \A r \in Q : r.at \in DOMAIN a.canonicals
    BY DEF FailEach, Result
  <2>2. \A r, q \in Q : r.at = q.at => r = q
    BY DEF FailEach, Result
  <2> HIDE DEF Q
  <2>3. QED  BY <2>1, <2>2, Listed
<1> DEFINE A == Fail("canonical_missing", a.canonicals = <<>>)
           B == Fail("canonical_multiple", Len(a.canonicals) > 1)
<1>3. CanonicalResults(a) = A \cup B \cup P \cup Q
  BY DEF CanonicalResults
<1>4. IsFiniteSet(A) /\ IsFiniteSet(B)
  BY FailFinite
<1> HIDE DEF A, B, P, Q
<1>5. QED  BY <1>1, <1>2, <1>3, <1>4, FS_Union

LEMMA HeadingsFinite ==
  ASSUME NEW a, IsFiniteSet(DOMAIN a.headings), IsFiniteSet(DOMAIN Jumps(a.headings))
  PROVE  IsFiniteSet(HeadingResults(a))
<1> DEFINE P == FailEach("skipped_level", Jumps(a.headings), Skips, Nowhere)
           Q == FailEach("heading_empty", a.headings, Untitled, Nowhere)
<1>1. IsFiniteSet(P)
  <2>1. \A r \in P : r.at \in DOMAIN Jumps(a.headings)
    BY DEF FailEach, Result
  <2>2. \A r, q \in P : r.at = q.at => r = q
    BY DEF FailEach, Result
  <2> HIDE DEF P
  <2>3. QED  BY <2>1, <2>2, Listed
<1>2. IsFiniteSet(Q)
  <2>1. \A r \in Q : r.at \in DOMAIN a.headings
    BY DEF FailEach, Result
  <2>2. \A r, q \in Q : r.at = q.at => r = q
    BY DEF FailEach, Result
  <2> HIDE DEF Q
  <2>3. QED  BY <2>1, <2>2, Listed
<1> DEFINE A == Fail("h1_missing", H1Count(a.headings) = 0)
           B == Fail("h1_multiple", H1Count(a.headings) > 1)
           C == Fail("h1_duplicate_of_title",
                     /\ a.h1Text # None /\ Length(a.title) > 0
                     /\ a.h1Text.says = a.title.says)
<1>3. HeadingResults(a) = A \cup B \cup C \cup P \cup Q
  BY DEF HeadingResults
<1>4. IsFiniteSet(A) /\ IsFiniteSet(B) /\ IsFiniteSet(C)
  BY FailFinite
<1> HIDE DEF A, B, C, P, Q
<1>5. QED  BY <1>1, <1>2, <1>3, <1>4, FS_Union

LEMMA ImagesFinite ==
  ASSUME NEW a, IsFiniteSet(DOMAIN a.images)
  PROVE  IsFiniteSet(ImageResults(a))
<1> DEFINE A == FailEach("alt_missing", a.images, NoAlt, Src)
           B == FailEach("alt_empty", a.images, EmptyAlt, Src)
           C == FailEach("missing_width", a.images, NoWidth, Src)
           D == FailEach("missing_height", a.images, NoHeight, Src)
<1>1. ASSUME NEW R \in {A, B, C, D} PROVE IsFiniteSet(R)
  <2>1. \A r \in R : r.at \in DOMAIN a.images
    BY DEF FailEach, Result
  <2>2. \A r, q \in R : r.at = q.at => r = q
    BY DEF FailEach, Result
  <2>3. QED  BY <2>1, <2>2, Listed
<1>2. ImageResults(a) = A \cup B \cup C \cup D
  BY DEF ImageResults
<1> HIDE DEF A, B, C, D
<1>3. IsFiniteSet(A) /\ IsFiniteSet(B) /\ IsFiniteSet(C) /\ IsFiniteSet(D)
  BY <1>1
<1>4. QED  BY <1>2, <1>3, FS_Union

LEMMA LinksFinite ==
  ASSUME NEW a, IsFiniteSet(DOMAIN a.links)
  PROVE  IsFiniteSet(LinkResults(a))
<1> DEFINE A == FailEach("noopener_missing", a.links, Unguarded, Href)
           B == FailEach("anchor_generic", a.links, Generic, Href)
<1>1. ASSUME NEW R \in {A, B} PROVE IsFiniteSet(R)
  <2>1. \A r \in R : r.at \in DOMAIN a.links
    BY DEF FailEach, Result
  <2>2. \A r, q \in R : r.at = q.at => r = q
    BY DEF FailEach, Result
  <2>3. QED  BY <2>1, <2>2, Listed
<1>2. LinkResults(a) = A \cup B
  BY DEF LinkResults
<1> HIDE DEF A, B
<1>3. IsFiniteSet(A) /\ IsFiniteSet(B)
  BY <1>1
<1>4. QED  BY <1>2, <1>3, FS_Union

LEMMA TechnicalFinite ==
  ASSUME NEW a, IsFiniteSet(a.mixed)
  PROVE  IsFiniteSet(TechnicalResults(a))
<1> DEFINE M == {Result("mixed_content", 0, u) : u \in a.mixed}
           A == Fail("not_secure", ~a.finalUrl.secure)
           B == Fail("status_4xx", a.status \in 400 .. 499)
           C == Fail("status_5xx", a.status \in 500 .. 599)
           D == Fail("indexability_conflict",
                  /\ a.noindex \/ a.headerNoindex
                  /\ \E i \in DOMAIN a.canonicals : a.canonicals[i] # ResolveUrl(a.finalUrl))
           E == Fail("redirect_present", a.hops > 0 \/ a.url # a.finalUrl)
<1>1. IsFiniteSet(M)
  <2> DEFINE f == [r \in M |-> r.element]
  <2>1. f \in Injection(M, a.mixed)
    BY DEF Result, Injection, IsInjective
  <2> HIDE DEF M, f
  <2>2. QED  BY <2>1, FS_Injection
<1>2. TechnicalResults(a) = A \cup M \cup B \cup C \cup D \cup E
  BY DEF TechnicalResults
<1>3. IsFiniteSet(A) /\ IsFiniteSet(B) /\ IsFiniteSet(C) /\ IsFiniteSet(D) /\ IsFiniteSet(E)
  <2>1. IsFiniteSet(A) /\ IsFiniteSet(B) /\ IsFiniteSet(C)
    BY FailFinite
  <2>2. IsFiniteSet(D)
    BY FailFinite, Zenon
  <2>3. IsFiniteSet(E)
    BY FailFinite
  <2>4. QED  BY <2>1, <2>2, <2>3
<1> HIDE DEF A, B, C, D, E, M
<1>4. QED  BY <1>1, <1>2, <1>3, FS_Union

(* What is extracted from a document the site may serve is finite, and so  *)
(* is what an audit finds there, its link targets and its image sources.   *)
LEMMA AuditFinite ==
  ASSUME NEW version \in Versions, NEW response,
         NEW a, a = ExtractArtifacts(version.doc, response)
  PROVE  /\ IsFiniteSet(RunChecks(a))
         /\ IsFiniteSet(Hrefs(a))
         /\ IsFiniteSet(Sources(a))
<1> DEFINE doc == version.doc
<1>1. /\ doc.canonicals \in Seq(Range(doc.canonicals))
      /\ doc.headings \in Seq(Range(doc.headings))
      /\ doc.images \in Seq(Range(doc.images))
      /\ doc.anchors \in Seq(Range(doc.anchors))
      /\ IsFiniteSet(doc.resources)
  BY VersionsAssumption
<1>2. /\ a.canonicals = Resolved(doc.canonicals)
      /\ a.headings = doc.headings
      /\ a.images = ExtractImages(doc)
      /\ a.links = ExtractLinks(doc, response.finalUrl)
      /\ a.mixed = MixedContent(doc, response.finalUrl)
  BY DEF ExtractArtifacts
<1> HIDE DEF doc
<1> DEFINE canonicals == Resolved(doc.canonicals)
           anchors == FoldLeft(KeepLink, <<>>, doc.anchors)
<1>3. IsFiniteSet(DOMAIN a.canonicals)
  <2>1. PICK m \in Nat : DOMAIN canonicals = 1 .. m
    BY <1>1, ResolvedIsList
  <2>2. m \in Int
    OBVIOUS
  <2> HIDE DEF canonicals
  <2>3. IsFiniteSet(DOMAIN canonicals)
    BY <2>1, <2>2, Positions
  <2>4. QED  BY <1>2, <2>3 DEF canonicals
<1>4. IsFiniteSet(DOMAIN a.headings) /\ IsFiniteSet(DOMAIN Jumps(a.headings))
  <2> DEFINE m == Len(doc.headings)
  <2>1. m \in Int /\ m - 1 \in Int /\ DOMAIN doc.headings = 1 .. m
    BY <1>1
  <2>2. DOMAIN Jumps(a.headings) = 1 .. m - 1
    BY <1>2 DEF Jumps
  <2> HIDE DEF m
  <2>3. IsFiniteSet(1 .. m) /\ IsFiniteSet(1 .. m - 1)
    BY <2>1, Positions
  <2>4. QED  BY <1>2, <2>1, <2>2, <2>3
<1>5. IsFiniteSet(DOMAIN a.images) /\ IsFiniteSet(DOMAIN doc.images)
  <2> DEFINE m == Len(doc.images)
  <2>1. m \in Int /\ DOMAIN doc.images = 1 .. m
    BY <1>1
  <2>2. DOMAIN a.images = DOMAIN doc.images
    BY <1>2 DEF ExtractImages
  <2> HIDE DEF m
  <2>3. IsFiniteSet(1 .. m)
    BY <2>1, Positions
  <2>4. QED  BY <2>1, <2>2, <2>3
<1>6. IsFiniteSet(DOMAIN a.links)
  <2>1. PICK m \in Nat : DOMAIN anchors = 1 .. m
    BY <1>1, LinksAreList
  <2>2. DOMAIN a.links = DOMAIN anchors
    BY <1>2 DEF ExtractLinks
  <2>3. m \in Int
    OBVIOUS
  <2> HIDE DEF anchors
  <2>4. IsFiniteSet(1 .. m)
    BY <2>3, Positions
  <2>5. QED  BY <2>1, <2>2, <2>4
<1>7. IsFiniteSet(a.mixed)
  <2> DEFINE loaded == {v \in doc.resources : Insecure(v)}
             sources == {doc.images[i].src : i \in DOMAIN doc.images}
             shown == {v \in sources : Insecure(v)}
             resolved == [v \in loaded \cup shown |-> ResolveUrl(v)]
  <2>1. IsFiniteSet(loaded)
    <3>1. loaded \subseteq doc.resources
      OBVIOUS
    <3>2. QED  BY <1>1, <3>1, FS_Subset
  <2>2. IsFiniteSet(shown)
    <3> DEFINE src == [i \in DOMAIN doc.images |-> doc.images[i].src]
    <3>1. IsFiniteSet({src[i] : i \in DOMAIN src})
      <4>1. DOMAIN src = DOMAIN doc.images
        OBVIOUS
      <4> HIDE DEF src
      <4>2. QED  BY <1>5, <4>1, Images
    <3>2. {src[i] : i \in DOMAIN src} = sources
      OBVIOUS
    <3>3. shown \subseteq sources
      OBVIOUS
    <3> HIDE DEF src, sources, shown
    <3>4. QED  BY <3>1, <3>2, <3>3, FS_Subset
  <2>3. IsFiniteSet(loaded \cup shown)
    <3> HIDE DEF loaded, shown
    <3>1. QED  BY <2>1, <2>2, FS_Union
  <2>4. IsFiniteSet({resolved[v] : v \in DOMAIN resolved})
    <3>1. DOMAIN resolved = loaded \cup shown
      OBVIOUS
    <3> HIDE DEF resolved, loaded, shown
    <3>2. QED  BY <2>3, <3>1, Images
  <2>5. a.mixed \subseteq {resolved[v] : v \in DOMAIN resolved}
    BY <1>2 DEF MixedContent
  <2> HIDE DEF resolved, loaded, shown
  <2>6. QED  BY <2>4, <2>5, FS_Subset
<1>8. IsFiniteSet(RunChecks(a))
  <2>1. \A A, B : IsFiniteSet(A) /\ IsFiniteSet(B) => IsFiniteSet(A \cup B)
    BY FS_Union
  <2>2. /\ IsFiniteSet(TitleResults(a)) /\ IsFiniteSet(DescriptionResults(a))
        /\ IsFiniteSet(RobotsResults(a)) /\ IsFiniteSet(DeclarationResults(a))
        /\ IsFiniteSet(SocialResults(a))
    <3>1. IsFiniteSet(TitleResults(a))
      BY <2>1, FailFinite, Zenon DEF TitleResults
    <3>2. IsFiniteSet(DescriptionResults(a))
      BY <2>1, FailFinite, Zenon DEF DescriptionResults
    <3>3. IsFiniteSet(RobotsResults(a))
      BY <2>1, FailFinite, Zenon DEF RobotsResults
    <3>4. IsFiniteSet(DeclarationResults(a))
      BY <2>1, FailFinite, Zenon DEF DeclarationResults
    <3>5. IsFiniteSet(SocialResults(a))
      BY <2>1, FailFinite, Zenon DEF SocialResults
    <3>6. QED  BY <3>1, <3>2, <3>3, <3>4, <3>5
  <2>3. /\ IsFiniteSet(CanonicalResults(a)) /\ IsFiniteSet(HeadingResults(a))
        /\ IsFiniteSet(ImageResults(a)) /\ IsFiniteSet(LinkResults(a))
        /\ IsFiniteSet(TechnicalResults(a))
    BY <1>3, <1>4, <1>5, <1>6, <1>7, CanonicalsFinite, HeadingsFinite, ImagesFinite,
       LinksFinite, TechnicalFinite
  <2> DEFINE F == (TitleResults(a) \cup DescriptionResults(a)) \cup RobotsResults(a)
             G == (DeclarationResults(a) \cup SocialResults(a)) \cup CanonicalResults(a)
             H == (HeadingResults(a) \cup ImageResults(a))
                    \cup (LinkResults(a) \cup TechnicalResults(a))
  <2>4. IsFiniteSet(F) /\ IsFiniteSet(G) /\ IsFiniteSet(H)
    BY <2>1, <2>2, <2>3
  <2>5. RunChecks(a) = F \cup G \cup H
    BY DEF RunChecks
  <2> HIDE DEF F, G, H
  <2>6. QED  BY <2>1, <2>4, <2>5
<1>9. IsFiniteSet(Hrefs(a))
  <2> DEFINE href == [i \in DOMAIN a.links |-> a.links[i].href]
  <2>1. DOMAIN href = DOMAIN a.links /\ {href[i] : i \in DOMAIN href} = Hrefs(a)
    BY DEF Hrefs
  <2> HIDE DEF href
  <2>2. IsFiniteSet({href[i] : i \in DOMAIN href})
    BY <1>6, <2>1, Images
  <2>3. QED  BY <2>1, <2>2
<1>10. IsFiniteSet(Sources(a))
  <2> DEFINE src == [i \in DOMAIN a.images |-> a.images[i].src]
  <2>1. DOMAIN src = DOMAIN a.images /\ Sources(a) \subseteq {src[i] : i \in DOMAIN src}
    BY DEF Sources
  <2> HIDE DEF src
  <2>2. IsFiniteSet({src[i] : i \in DOMAIN src})
    BY <1>5, <2>1, Images
  <2>3. QED  BY <2>1, <2>2, FS_Subset
<1>11. QED  BY <1>8, <1>9, <1>10

-----------------------------------------------------------------------------
(* The invariant.                                                          *)
(*                                                                         *)
(* A report that is carried forward was made crawls ago, so what is true   *)
(* of it must be kept from the audit on, through finalizers that add link  *)
(* issues and take them away again: Sound is that.  Scored and Verified    *)
(* are what the steps of one crawl leave for the finalizer.                *)

(* A severity that is counted occurs.                                      *)
LEMMA CountsType ==
  ASSUME NEW results, IsFiniteSet(results), NEW counts, counts = CountBySeverity(results)
  PROVE  \A s \in DOMAIN counts : counts[s] \in Nat \ {0}
<1>1. SUFFICES ASSUME NEW s \in DOMAIN counts PROVE counts[s] \in Nat \ {0}
  OBVIOUS
<1> DEFINE of == {r \in results : r.severity = s}
<1>2. counts[s] = Cardinality(of) /\ of # {}
  BY DEF CountBySeverity
<1>3. IsFiniteSet(of)
  BY FS_Subset
<1> HIDE DEF of
<1>4. Cardinality(of) \in Nat /\ Cardinality(of) # 0
  BY <1>2, <1>3, FS_CardinalityType, FS_EmptySet
<1>5. QED  BY <1>2, <1>4

(* Nothing has been found on a page that was not processed.                *)
LEMMA NoReportRow == Row(NoReport)
<1>1. IsFiniteSet({})
  BY FS_EmptySet
<1>2. DOMAIN <<>> = {}
  OBVIOUS
<1>3. QED  BY <1>1, <1>2, FullIs DEF Row, NoReport

(* A page found nowhere has one issue, which the database knows.           *)
LEMMA FailedRow ==
  ASSUME NEW check \in DOMAIN RUNTIME_CHECKS, NEW r,
         r = [NoReport EXCEPT !.fetch = "error", !.issues = Fail(check, TRUE),
                              !.counts = CountBySeverity(Fail(check, TRUE))]
  PROVE  Row(r) /\ r.fetch = "error"
<1> DEFINE issues == Fail(check, TRUE)
           counts == CountBySeverity(issues)
<1>1. IsFiniteSet(issues)
  BY FailFinite
<1>2. \A i \in issues : Cataloged(i)
  <2>1. \A i \in issues : i.check = check /\ i.severity = CATALOG_CHECKS[check].severity
    BY DEF Fail, Result
  <2> HIDE DEF issues
  <2>2. QED  BY <2>1, Catalogs DEF Cataloged
<1>3. \A s \in DOMAIN counts : counts[s] \in Nat \ {0}
  <2> HIDE DEF issues
  <2>1. QED  BY <1>1, CountsType
<1>4. /\ r.issues = issues /\ r.counts = counts /\ r.score = 0 /\ r.fetch = "error"
      /\ r = [fetch |-> r.fetch, body |-> r.body, artifacts |-> r.artifacts,
              issues |-> r.issues, score |-> r.score, counts |-> r.counts]
  BY DEF NoReport
<1> HIDE DEF issues, counts
<1>5. r.score \in 0 .. FULL
  BY <1>4, FullIs
<1>6. r.fetch \in {"none", "ok", "redirected", "error", "carried"}
  BY <1>4
<1>7. QED  BY <1>1, <1>2, <1>3, <1>4, <1>5, <1>6, Zenon DEF Row

(* What an audit finds is a report's own.                                  *)
LEMMA OwnOfAudit ==
  ASSUME NEW a, NEW r, r.issues = RunChecks(a)
  PROVE  OwnIssues(r) = RunChecks(a)
<1>1. \A i \in RunChecks(a) : i.check \notin DOMAIN LinkCatalog
  BY ChecksKnown, OwnChecksApart
<1>2. QED  BY <1>1 DEF OwnIssues

(* The report of an audit is one, and has the score of its issues.         *)
LEMMA AuditedRow ==
  ASSUME NEW version \in Versions, NEW response, NEW fetch \in Audited,
         NEW a, a = ExtractArtifacts(version.doc, response), NEW r,
         r = [fetch |-> fetch, body |-> version.doc, artifacts |-> a, issues |-> RunChecks(a),
              score |-> ComputePageScore(RunChecks(a)),
              counts |-> CountBySeverity(RunChecks(a))]
  PROVE  Row(r) /\ OwnIssues(r) = RunChecks(a)
<1> DEFINE results == RunChecks(a)
           counts == CountBySeverity(results)
<1>1. IsFiniteSet(results)
  BY AuditFinite
<1>2. \A i \in results : Cataloged(i)
  BY AuditCataloged
<1>3. OwnIssues(r) = RunChecks(a)
  BY OwnOfAudit
<1> HIDE DEF results
<1>4. \A s \in DOMAIN counts : counts[s] \in Nat \ {0}
  BY <1>1, CountsType
<1>5. ComputePageScore(results) \in 0 .. FULL
  BY <1>1, <1>2, ScoreType
<1>6. r = [fetch |-> fetch, body |-> version.doc, artifacts |-> a, issues |-> results,
           score |-> ComputePageScore(results), counts |-> counts]
  BY DEF results
<1> HIDE DEF counts
<1>7. QED  BY <1>1, <1>2, <1>3, <1>4, <1>5, <1>6 DEF Row, Audited

(* Nothing has been crawled at the start.                                  *)
LEMMA InitHolds == Init => AuditInv
<1> SUFFICES ASSUME Init PROVE AuditInv
  OBVIOUS
<1>1. Stored
  <2>1. broken \subseteq LinkUrls /\ 0 \in 0 .. MaxCrawls /\ 0 \in 0 .. MaxChanges
    BY BoundsAssumption DEF Init
  <2>2. QED  BY <2>1, NoReportRow DEF Init, Stored
<1>2. report.fetch = "none" /\ phase = "over"
  BY DEF Init, NoReport
<1>3. QED
  BY <1>1, <1>2
     DEF AuditInv, InForce, Sound, Hints, Scored, Carried, Verified, BrokenLinksReported

(* What the site does leaves every report as it is.                        *)
LEMMA ChangeStep == AuditInv /\ Change => AuditInv'
<1> SUFFICES ASSUME AuditInv, Change PROVE AuditInv'
  OBVIOUS
<1>1. UNCHANGED <<phase, previous, report, checked, fetched, audited, brokenThen, crawls>>
  BY DEF Change
<1>2. served' \in Versions
  BY DEF AuditInv, Stored, Change
<1>3. broken' \subseteq LinkUrls
  BY DEF AuditInv, Stored, Change
<1>4. siteChanges' \in 0 .. MaxChanges
  BY BoundsAssumption DEF AuditInv, Stored, Change
<1>5. Stored'
  BY <1>1, <1>2, <1>3, <1>4 DEF AuditInv, Stored, Row
<1>6. Sound(InForce)'
  BY <1>1 DEF AuditInv, InForce, Sound, OwnIssues
<1>7. Scored' /\ Carried' /\ Verified' /\ BrokenLinksReported'
  BY <1>1 DEF AuditInv, Scored, Carried, Verified, LinkTargets, BrokenLinksReported
<1>8. QED  BY <1>5, <1>6, <1>7 DEF AuditInv

(* The report of the last crawl is the one to carry forward.               *)
LEMMA StartStep == AuditInv /\ StartCrawl => AuditInv'
<1> SUFFICES ASSUME AuditInv, StartCrawl PROVE AuditInv'
  OBVIOUS
<1>1. /\ phase = "over" /\ phase' = "fetch" /\ previous' = report /\ report' = NoReport
      /\ fetched' = None /\ brokenThen' = {} /\ audited' = audited
      /\ served' = served /\ broken' = broken /\ siteChanges' = siteChanges
  BY DEF StartCrawl, site
<1>2. crawls' \in 0 .. MaxCrawls
  BY BoundsAssumption DEF AuditInv, Stored, StartCrawl
<1>3. Row(previous') /\ Row(report')
  BY <1>1, NoReportRow DEF AuditInv, Stored
<1>4. Stored'
  BY <1>1, <1>2, <1>3 DEF AuditInv, Stored, Row
<1>5. Sound(InForce)'
  BY <1>1 DEF AuditInv, InForce, Sound, OwnIssues
<1>6. Scored' /\ Carried' /\ Verified' /\ BrokenLinksReported'
  BY <1>1 DEF Scored, Carried, Verified, BrokenLinksReported
<1>7. QED  BY <1>4, <1>5, <1>6 DEF AuditInv

(* A report is copied, audited or given up.                                *)
LEMMA ProcessStep == AuditInv /\ ProcessFetch => AuditInv'
<1> SUFFICES ASSUME AuditInv, ProcessFetch PROVE AuditInv'
  OBVIOUS
<1>1. /\ phase = "fetch" /\ phase' = "verify" /\ fetched' = served /\ previous' = previous
      /\ brokenThen' = brokenThen /\ crawls' = crawls
      /\ served' = served /\ broken' = broken /\ siteChanges' = siteChanges
  BY DEF ProcessFetch, site
<1>2. Sound(previous) /\ Row(previous) /\ served \in Versions
  BY <1>1 DEF AuditInv, InForce, Stored
<1> DEFINE Answered ==
      /\ Row(report') /\ report'.fetch # "none"
      /\ Sound(report)'
      /\ report'.fetch \in Audited =>
           /\ report'.issues = RunChecks(report'.artifacts)
           /\ report'.score = ComputePageScore(report'.issues)
           /\ report'.counts = CountBySeverity(report'.issues)
      /\ report'.fetch = "carried" => report'.body = served.doc
<1>3. ASSUME CarryForward PROVE Answered
  <2>1. previous.fetch \in Hints /\ served.doc = previous.body /\ audited' = audited
    BY <1>3 DEF CarryForward, Hinted, Hints
  <2>2. /\ report'.fetch = "carried" /\ report'.body = previous.body
        /\ report'.artifacts = previous.artifacts /\ report'.issues = previous.issues
        /\ report'.score = previous.score /\ report'.counts = previous.counts
        /\ report' = [fetch |-> report'.fetch, body |-> report'.body,
                      artifacts |-> report'.artifacts, issues |-> report'.issues,
                      score |-> report'.score, counts |-> report'.counts]
    <3>1. report' = [fetch |-> "carried", body |-> previous.body,
                     artifacts |-> previous.artifacts, issues |-> previous.issues,
                     score |-> previous.score, counts |-> previous.counts]
      BY <1>2, <1>3 DEF CarryForward, Row
    <3>2. QED  BY <3>1
  <2>3. Row(report')
    BY <1>2, <2>2 DEF Row
  <2>4. Sound(report)'
    BY <1>2, <2>1, <2>2 DEF Sound, OwnIssues
  <2>5. QED  BY <2>1, <2>2, <2>3, <2>4 DEF Audited
<1>4. ASSUME ValidateAndPersist PROVE Answered
  <2> DEFINE a == ExtractArtifacts(served.doc, served.response)
             fetch == IF served.response.hops > 0 THEN "redirected" ELSE "ok"
  <2>1. /\ report' = [fetch |-> fetch, body |-> served.doc, artifacts |-> a,
                      issues |-> RunChecks(a), score |-> ComputePageScore(RunChecks(a)),
                      counts |-> CountBySeverity(RunChecks(a))]
        /\ audited' = served.response
    BY <1>4 DEF ValidateAndPersist
  <2>2. fetch \in Audited
    BY DEF Audited
  <2>3. a = ExtractArtifacts(served.doc, audited')
    BY <2>1
  <2> HIDE DEF a, fetch
  <2>4. Row(report') /\ OwnIssues(report') = RunChecks(a)
    <3>1. a = ExtractArtifacts(served.doc, served.response)
      BY DEF a
    <3>2. QED  BY <1>2, <2>1, <2>2, <3>1, AuditedRow
  <2>5. /\ report'.fetch = fetch /\ report'.body = served.doc /\ report'.artifacts = a
        /\ report'.issues = RunChecks(a) /\ report'.score = ComputePageScore(RunChecks(a))
        /\ report'.counts = CountBySeverity(RunChecks(a))
    BY <2>1
  <2>6. Sound(report)'
    BY <1>2, <2>3, <2>4, <2>5 DEF Sound, OwnIssues
  <2>7. QED  BY <2>2, <2>4, <2>5, <2>6 DEF Audited
<1>5. ASSUME PersistFetchError PROVE Answered
  <2> DEFINE check == IF served.response.status >= 400 THEN "status_error" ELSE "fetch_failed"
  <2>1. report' = [NoReport EXCEPT !.fetch = "error", !.issues = Fail(check, TRUE),
                                   !.counts = CountBySeverity(Fail(check, TRUE))]
    BY <1>5 DEF PersistFetchError
  <2>2. check \in DOMAIN RUNTIME_CHECKS
    BY DEF RUNTIME_CHECKS
  <2> HIDE DEF check
  <2>3. Row(report') /\ report'.fetch = "error"
    BY <2>1, <2>2, FailedRow
  <2>4. QED  BY <2>3 DEF Sound, Hints, Audited
<1>6. Answered
  BY <1>3, <1>4, <1>5 DEF ProcessFetch
<1>7. Stored'
  BY <1>1, <1>2, <1>6 DEF AuditInv, Stored, Row
<1>8. Sound(InForce)'
  BY <1>1, <1>6 DEF InForce, Sound, OwnIssues
<1>9. Scored' /\ Carried'
  BY <1>1, <1>6 DEF Scored, Carried
<1>10. Verified' /\ BrokenLinksReported'
  BY <1>1 DEF Verified, BrokenLinksReported
<1>11. QED  BY <1>7, <1>8, <1>9, <1>10 DEF AuditInv

(* Whatever the page links to is verified, against what is broken now.     *)
LEMMA CheckStep == AuditInv /\ CheckLinks => AuditInv'
<1> SUFFICES ASSUME AuditInv, CheckLinks PROVE AuditInv'
  OBVIOUS
<1>1. /\ phase = "verify" /\ phase' = "finalize" /\ brokenThen' = broken
      /\ UNCHANGED <<previous, report, fetched, audited, crawls, served, broken, siteChanges>>
  BY DEF CheckLinks, site
<1>2. Stored'
  BY <1>1 DEF AuditInv, Stored, Row
<1>3. Sound(InForce)'
  BY <1>1 DEF AuditInv, InForce, Sound, OwnIssues
<1>4. Scored' /\ Carried' /\ BrokenLinksReported'
  BY <1>1 DEF AuditInv, Scored, Carried, BrokenLinksReported
<1>5. Verified'
  <2>1. PICK others \in {{}, LinkUrls} :
          checked' = [u \in LinkTargets(report) \cup others |->
                        [ok |-> u \notin broken \cup {Inline},
                         hops |-> IF u \in LinkUrls THEN LinkHops[u] ELSE 0]]
    BY DEF CheckLinks
  <2>2. \A u \in DOMAIN checked' : checked'[u].ok = (u \notin broken \cup {Inline})
    BY <2>1
  <2>3. LinkTargets(report) \subseteq DOMAIN checked' /\ LinkTargets(report)' = LinkTargets(report)
    BY <1>1, <2>1 DEF LinkTargets
  <2>4. QED  BY <1>1, <2>2, <2>3 DEF Verified
<1>6. QED  BY <1>2, <1>3, <1>4, <1>5 DEF AuditInv

-----------------------------------------------------------------------------
(* The finalizer.                                                          *)

(* What it adds to the report.                                             *)
Added ==
  IF report.fetch = "error" THEN {}
  ELSE BrokenLinkIssues(report) \cup BrokenImageIssues(report) \cup RedirectChainIssues(report)

(* An issue for each of finitely many targets.                             *)
LEMMA DerivedFinite ==
  ASSUME NEW check, NEW urls, IsFiniteSet(urls)
  PROVE  IsFiniteSet(Derived(check, urls))
<1> DEFINE f == [i \in Derived(check, urls) |-> i.element]
<1>1. f \in Injection(Derived(check, urls), urls)
  BY DEF Derived, Result, Injection, IsInjective
<1>2. QED  BY <1>1, FS_Injection

(* It adds finitely many issues, all of them about links.                  *)
LEMMA AddedType ==
  ASSUME AuditInv, phase = "finalize"
  PROVE  /\ IsFiniteSet(Added)
         /\ \A i \in Added : i.check \in DOMAIN LinkCatalog /\ Cataloged(i)
<1>1. \A i \in Added : i.check \in DOMAIN LinkCatalog /\ Cataloged(i)
  <2>1. {"internal_broken", "external_broken", "image_broken", "chain_too_long"}
          \subseteq DOMAIN LinkCatalog
    BY DEF LinkCatalog
  <2>2. \A i \in Added :
          i.check \in {"internal_broken", "external_broken", "image_broken", "chain_too_long"}
    BY DEF Added, BrokenLinkIssues, BrokenImageIssues, RedirectChainIssues, Derived, Result
  <2>3. \A i \in Added : i.severity = CATALOG_CHECKS[i.check].severity
    BY DEF Added, BrokenLinkIssues, BrokenImageIssues, RedirectChainIssues, Derived, Result
  <2>4. QED  BY <2>1, <2>2, <2>3, Catalogs DEF Cataloged
<1>2. CASE report.fetch = "error"
  <2>1. Added = {}
    BY <1>2 DEF Added
  <2>2. QED  BY <1>1, <2>1, FS_EmptySet
<1>3. CASE report.fetch # "error"
  <2>1. report.fetch \in Hints
    BY <1>3 DEF AuditInv, Stored, Row, Hints
  <2>2. PICK version \in Versions :
          report.artifacts = ExtractArtifacts(version.doc, audited)
    BY <2>1 DEF AuditInv, InForce, Sound
  <2>3. IsFiniteSet(Hrefs(report.artifacts)) /\ IsFiniteSet(Sources(report.artifacts))
    BY <2>2, AuditFinite
  <2> DEFINE bad == {u \in Hrefs(report.artifacts) \cap DOMAIN checked : ~checked[u].ok}
             A == {u \in bad : u.domain = Origin}
             B == {u \in bad : u.domain # Origin}
             C == {u \in Sources(report.artifacts) \cap DOMAIN checked : ~checked[u].ok}
             D == {u \in Hrefs(report.artifacts) \cap DOMAIN checked :
                     checked[u].hops > MAX_REDIRECT_HOPS}
  <2>4. IsFiniteSet(A) /\ IsFiniteSet(B) /\ IsFiniteSet(C) /\ IsFiniteSet(D)
    <3>1. /\ A \subseteq Hrefs(report.artifacts) /\ B \subseteq Hrefs(report.artifacts)
          /\ C \subseteq Sources(report.artifacts) /\ D \subseteq Hrefs(report.artifacts)
      OBVIOUS
    <3> HIDE DEF A, B, C, D
    <3>2. QED  BY <2>3, <3>1, FS_Subset
  <2>5. Added = (Derived("internal_broken", A) \cup Derived("external_broken", B))
                  \cup (Derived("image_broken", C) \cup Derived("chain_too_long", D))
    BY <1>3 DEF Added, BrokenLinkIssues, BrokenImageIssues, RedirectChainIssues
  <2> HIDE DEF A, B, C, D
  <2>6. /\ IsFiniteSet(Derived("internal_broken", A)) /\ IsFiniteSet(Derived("external_broken", B))
        /\ IsFiniteSet(Derived("image_broken", C)) /\ IsFiniteSet(Derived("chain_too_long", D))
    BY <2>4, DerivedFinite
  <2>7. IsFiniteSet(Added)
    BY <2>5, <2>6, FS_Union
  <2>8. QED  BY <1>1, <2>7
<1>4. QED  BY <1>2, <1>3

(* The report afterwards: its own issues and those, and what they cost,    *)
(* if there are any.                                                       *)
LEMMA FinalReport ==
  ASSUME AuditInv, Finalize
  PROVE  /\ phase = "finalize" /\ phase' = "over"
         /\ report'.fetch = report.fetch /\ report'.body = report.body
         /\ report'.artifacts = report.artifacts
         /\ report'.issues = OwnIssues(report) \cup Added
         /\ report'.issues = {} => report'.score = report.score /\ report'.counts = report.counts
         /\ report'.issues # {} => /\ report'.score = SqlScore(report'.issues)
                                   /\ report'.counts = CountBySeverity(report'.issues)
         /\ Row(report')
<1> DEFINE issues == OwnIssues(report) \cup Added
<1>1. /\ phase = "finalize" /\ phase' = "over"
      /\ report' = RecomputeSnapshotScores(report, issues)
  BY DEF Finalize, Added
<1>2. Row(report)
  BY DEF AuditInv, Stored
<1>3. IsFiniteSet(issues)
  <2>1. IsFiniteSet(OwnIssues(report))
    <3>1. OwnIssues(report) \subseteq report.issues
      BY DEF OwnIssues
    <3>2. QED  BY <1>2, <3>1, FS_Subset DEF Row
  <2>2. QED  BY <1>1, <2>1, AddedType, FS_Union
<1>4. \A i \in issues : Cataloged(i)
  <2>1. \A i \in OwnIssues(report) : Cataloged(i)
    BY <1>2 DEF OwnIssues, Row
  <2>2. \A i \in Added : Cataloged(i)
    BY <1>1, AddedType
  <2>3. QED  BY <2>1, <2>2
<1> HIDE DEF issues
<1> DEFINE Fields ==
      report' = [fetch |-> report.fetch, body |-> report.body, artifacts |-> report.artifacts,
                 issues |-> issues, score |-> report'.score, counts |-> report'.counts]
<1>5. CASE issues = {}
  <2>1. report' = [fetch |-> report.fetch, body |-> report.body, artifacts |-> report.artifacts,
                   issues |-> issues, score |-> report.score, counts |-> report.counts]
    BY <1>1, <1>2, <1>5 DEF RecomputeSnapshotScores, Row
  <2>2. Fields /\ report'.score = report.score /\ report'.counts = report.counts
    BY <2>1
  <2>3. Row(report')
    BY <1>2, <1>3, <1>4, <2>1 DEF Row
  <2>4. QED  BY <1>1, <1>5, <2>1, <2>2, <2>3 DEF issues
<1>6. CASE issues # {}
  <2> DEFINE score == SqlScore(issues)
             counts == CountBySeverity(issues)
  <2>1. report' = [fetch |-> report.fetch, body |-> report.body, artifacts |-> report.artifacts,
                   issues |-> issues, score |-> score, counts |-> counts]
    BY <1>1, <1>2, <1>6 DEF RecomputeSnapshotScores, Row
  <2>2. score \in 0 .. FULL
    BY <1>3, <1>4, ScoreType
  <2>3. \A s \in DOMAIN counts : counts[s] \in Nat \ {0}
    BY <1>3, CountsType
  <2>4. report'.issues = issues /\ report'.score = score /\ report'.counts = counts
    BY <2>1
  <2>5. /\ report'.score = SqlScore(report'.issues)
        /\ report'.counts = CountBySeverity(report'.issues)
    BY <2>4
  <2> HIDE DEF score, counts
  <2>6. Row(report')
    BY <1>2, <1>3, <1>4, <2>1, <2>2, <2>3 DEF Row
  <2>7. /\ report'.fetch = report.fetch /\ report'.body = report.body
        /\ report'.artifacts = report.artifacts
    BY <2>1
  <2>8. QED  BY <1>1, <1>6, <2>4, <2>5, <2>6, <2>7 DEF issues
<1>7. QED  BY <1>5, <1>6

(* For a page audited in this crawl: what was verified as broken.          *)
LEMMA AddedElements ==
  ASSUME AuditInv, phase = "finalize", report.fetch \in Audited
  PROVE  {i.element : i \in {j \in Added :
            j.check \in {"internal_broken", "external_broken", "image_broken"}}} \ {Inline}
           = brokenThen \cap (Hrefs(report.artifacts) \cup Sources(report.artifacts))
<1> DEFINE hrefs == Hrefs(report.artifacts)
           sources == Sources(report.artifacts)
           bad == {u \in hrefs \cap DOMAIN checked : ~checked[u].ok}
           shown == {u \in sources \cap DOMAIN checked : ~checked[u].ok}
           kinds == {"internal_broken", "external_broken", "image_broken"}
           named == {i.element : i \in {j \in Added : j.check \in kinds}}
<1>1. /\ hrefs \cup sources \subseteq DOMAIN checked
      /\ \A u \in DOMAIN checked : checked[u].ok <=> u \notin brokenThen \cup {Inline}
      /\ brokenThen \subseteq LinkUrls
  BY DEF AuditInv, Verified, LinkTargets, Audited, Stored
<1>2. Added = BrokenLinkIssues(report) \cup BrokenImageIssues(report) \cup RedirectChainIssues(report)
  BY DEF Added, Audited
<1>3. ASSUME NEW i \in Added, i.check \in kinds PROVE i.element \in bad \cup shown
  BY <1>2, <1>3 DEF BrokenLinkIssues, BrokenImageIssues, RedirectChainIssues, Derived, Result
<1>4. ASSUME NEW u \in bad PROVE u \in named
  <2> DEFINE i == Result(IF u.domain = Origin THEN "internal_broken" ELSE "external_broken", 0, u)
  <2>1. i \in BrokenLinkIssues(report)
    BY DEF BrokenLinkIssues, Derived
  <2>2. i.check \in kinds /\ i.element = u
    BY DEF Result
  <2> HIDE DEF i
  <2>3. QED  BY <1>2, <2>1, <2>2
<1>5. ASSUME NEW u \in shown PROVE u \in named
  <2> DEFINE i == Result("image_broken", 0, u)
  <2>1. i \in BrokenImageIssues(report)
    BY DEF BrokenImageIssues, Derived
  <2>2. i.check \in kinds /\ i.element = u
    BY DEF Result
  <2> HIDE DEF i
  <2>3. QED  BY <1>2, <2>1, <2>2
<1>6. bad \cup shown = (hrefs \cup sources) \cap (brokenThen \cup {Inline})
  BY <1>1
<1>7. named = bad \cup shown
  <2> HIDE DEF bad, shown
  <2>1. named \subseteq bad \cup shown
    BY <1>3
  <2> HIDE DEF named
  <2>2. QED  BY <1>4, <1>5, <2>1
<1>8. Inline \notin brokenThen
  BY <1>1, InlineAssumption
<1> HIDE DEF bad, shown, named, hrefs, sources
<1>9. named \ {Inline} = brokenThen \cap (hrefs \cup sources)
  BY <1>6, <1>7, <1>8
<1>10. QED  BY <1>9 DEF named, hrefs, sources

(* A report keeps what is its own, and is told what is broken.             *)
LEMMA FinalizeStep == AuditInv /\ Finalize => AuditInv'
<1> SUFFICES ASSUME AuditInv, Finalize PROVE AuditInv'
  OBVIOUS
<1>1. /\ phase = "finalize" /\ phase' = "over" /\ Row(report')
      /\ report'.fetch = report.fetch /\ report'.body = report.body
      /\ report'.artifacts = report.artifacts
      /\ report'.issues = OwnIssues(report) \cup Added
  BY FinalReport
<1>2. UNCHANGED <<previous, checked, fetched, audited, brokenThen, crawls, served, broken,
                  siteChanges>>
  BY DEF Finalize, site
<1>3. Stored'
  BY <1>1, <1>2 DEF AuditInv, Stored, Row
<1>4. \A i \in Added : i.check \in DOMAIN LinkCatalog
  BY <1>1, AddedType
<1>5. OwnIssues(report') = OwnIssues(report)
  BY <1>1, <1>4 DEF OwnIssues
<1>6. Sound(InForce)'
  <2>1. Sound(report)
    BY <1>1 DEF AuditInv, InForce
  <2>2. Sound(report)'
    BY <1>1, <1>2, <1>5, <2>1 DEF Sound, OwnIssues
  <2>3. QED  BY <1>1, <2>2 DEF InForce, Sound, OwnIssues
<1>7. Scored' /\ Carried' /\ Verified'
  BY <1>1 DEF Scored, Carried, Verified
<1>8. BrokenLinksReported'
  <2>1. SUFFICES ASSUME report.fetch \in Audited
        PROVE  {i.element : i \in {j \in report'.issues :
                  j.check \in {"internal_broken", "external_broken", "image_broken"}}} \ {Inline}
                 = brokenThen' \cap (Hrefs(report'.artifacts) \cup Sources(report'.artifacts))
    BY <1>1 DEF BrokenLinksReported, Audited
  <2>2. \A i \in OwnIssues(report) :
          i.check \notin {"internal_broken", "external_broken", "image_broken"}
    <3>1. {"internal_broken", "external_broken", "image_broken"} \subseteq DOMAIN LinkCatalog
      BY DEF LinkCatalog
    <3>2. QED  BY <3>1 DEF OwnIssues
  <2>3. {j \in report'.issues :
           j.check \in {"internal_broken", "external_broken", "image_broken"}}
          = {j \in Added : j.check \in {"internal_broken", "external_broken", "image_broken"}}
    BY <1>1, <2>2
  <2>4. QED  BY <1>1, <1>2, <2>1, <2>3, AddedElements
<1>9. QED  BY <1>3, <1>6, <1>7, <1>8 DEF AuditInv

(* Every step keeps the invariant.                                         *)
LEMMA Inductive == AuditInv /\ [Next]_vars => AuditInv'
<1>1. ASSUME AuditInv, UNCHANGED vars PROVE AuditInv'
  <2>1. UNCHANGED <<served, broken, phase, previous, report, checked, fetched, audited,
                    brokenThen, crawls, siteChanges>>
    BY <1>1 DEF vars
  <2>2. Stored'
    BY <1>1, <2>1 DEF AuditInv, Stored, Row
  <2>3. Sound(InForce)'
    BY <1>1, <2>1 DEF AuditInv, InForce, Sound, OwnIssues
  <2>4. Scored' /\ Carried' /\ Verified' /\ BrokenLinksReported'
    BY <1>1, <2>1 DEF AuditInv, Scored, Carried, Verified, LinkTargets, BrokenLinksReported
  <2>5. QED  BY <2>2, <2>3, <2>4 DEF AuditInv
<1>2. QED
  BY <1>1, ChangeStep, StartStep, ProcessStep, CheckStep, FinalizeStep DEF Next

(* The invariant holds.                                                    *)
THEOREM AuditCorrect == Spec => []AuditInv
BY InitHolds, Inductive, PTL DEF Spec

(* page_snapshots, page_issues and link_checks hold what they may hold: a  *)
(* score is between 0 and 100 whatever checks fail and however often, no   *)
(* issue is unknown to the catalog, and no severity is counted that no     *)
(* issue has.                                                              *)
THEOREM TypeCorrect == Spec => []TypeOK
<1>1. AuditInv => TypeOK
  BY DEF AuditInv, Stored, Row, Cataloged, TypeOK
<1>2. QED  BY <1>1, AuditCorrect, PTL

(* CarryForward copies a report that an audit of the page as it is fetched *)
(* now would make again, over however many crawls it has been copied and   *)
(* whatever finalizers have added to it, if the response is the same.      *)
THEOREM CarriedCorrect == Spec => []CarriedIsCurrent
<1>1. AuditInv => CarriedIsCurrent
  <2> SUFFICES ASSUME AuditInv, phase \in {"verify", "finalize"}, report.fetch = "carried",
                      fetched.response = audited
               PROVE  OwnIssues(report) = RunChecks(ExtractArtifacts(fetched.doc, fetched.response))
    BY DEF CarriedIsCurrent
  <2>1. /\ report.artifacts = ExtractArtifacts(report.body, audited)
        /\ OwnIssues(report) = RunChecks(report.artifacts)
    BY DEF AuditInv, InForce, Sound, Hints
  <2>2. report.body = fetched.doc
    BY DEF AuditInv, Carried
  <2>3. QED  BY <2>1, <2>2
<1>2. QED  BY <1>1, AuditCorrect, PTL

(* The finalizer's three derivations together name exactly the anchors and *)
(* images of an audited page that were broken when they were verified.     *)
THEOREM BrokenLinksCorrect == Spec => []BrokenLinksReported
<1>1. AuditInv => BrokenLinksReported
  BY DEF AuditInv
<1>2. QED  BY <1>1, AuditCorrect, PTL

(* The finalizer's SQL and scoring.ts agree on the issues of every page    *)
(* that was fetched, though they group and weigh them each for itself: an  *)
(* issue's severity is its check's, so no group is split, and what the     *)
(* runner can find and the finalizer adds weighs the same in both catalogs.*)
THEOREM RescoringCorrect == Spec => RescoringAgrees
<1> DEFINE Audits == report.fetch \in {"ok", "redirected"}
           Kept == report'.score = report.score /\ report'.counts = report.counts
           Agrees ==
             phase = "finalize" /\ phase' = "over" /\ report.fetch # "error"
               => /\ report'.issues # {} => report'.score = ComputePageScore(report'.issues)
                  /\ Audits => /\ report'.score <= report.score
                               /\ report'.issues = report.issues => Kept
<1>1. AuditInv /\ Finalize => Agrees
  <2> SUFFICES ASSUME AuditInv, Finalize, report.fetch # "error" PROVE Agrees
    OBVIOUS
  <2> DEFINE own == OwnIssues(report)
             all == own \cup Added
  <2>1. /\ phase = "finalize"
        /\ report'.issues = all
        /\ report'.issues = {} => Kept
        /\ report'.issues # {} => /\ report'.score = SqlScore(report'.issues)
                                  /\ report'.counts = CountBySeverity(report'.issues)
        /\ Row(report')
    BY FinalReport
  <2>2. own = RunChecks(report.artifacts)
    <3>1. report.fetch \in Hints
      BY <2>1 DEF AuditInv, Stored, Row, Hints
    <3>2. QED  BY <2>1, <3>1 DEF AuditInv, InForce, Sound
  <2>3. FailedChecks(own) \subseteq OwnChecks
    BY <2>2, ChecksKnown DEF FailedChecks
  <2>4. FailedChecks(Added) \subseteq DOMAIN LinkCatalog
    BY <2>1, AddedType DEF FailedChecks
  <2>5. FailedChecks(all) = FailedChecks(own) \cup FailedChecks(Added)
    BY DEF FailedChecks
  <2>6. IsFiniteSet(all) /\ \A i \in all : Cataloged(i)
    BY <2>1 DEF Row
  <2>7. own \subseteq all /\ all = own \cup Added
    OBVIOUS
  <2> HIDE DEF own, all
  <2>8. IsFiniteSet(own)
    BY <2>6, <2>7, FS_Subset
  <2>9. /\ FailedChecks(own) \subseteq DOMAIN CHECKS
        /\ FailedChecks(all) \subseteq DOMAIN CHECKS
        /\ FailedChecks(own) \cap FailedChecks(Added) = {}
    BY <2>3, <2>4, <2>5, OwnChecksApart, Catalogs
  <2>10. SqlScore(all) = ComputePageScore(all)
    BY <2>6, <2>9, ScoresAgree
  <2>11. SqlScore(own) = ComputePageScore(own)
    BY <2>6, <2>7, <2>8, <2>9, ScoresAgree
  <2>12. SqlScore(all) <= SqlScore(own)
    BY <2>6, <2>7, <2>9, ScoreFalls
  <2>13. ASSUME Audits PROVE report'.score <= report.score /\ (report'.issues = report.issues => Kept)
    <3>1. /\ report.issues = own
          /\ report.score = ComputePageScore(own)
          /\ report.counts = CountBySeverity(own)
      BY <2>1, <2>2, <2>13 DEF AuditInv, Scored, Audited
    <3>2. report.score \in Int
      <4>1. report.score \in 0 .. FULL
        BY DEF AuditInv, Stored, Row
      <4>2. QED  BY <4>1, FullIs
    <3>3. CASE report'.issues = {}
      BY <2>1, <3>2, <3>3
    <3>4. CASE report'.issues # {}
      BY <2>1, <2>11, <2>12, <3>1, <3>4
    <3>5. QED  BY <3>3, <3>4
  <2>14. QED  BY <2>1, <2>10, <2>13
<1>2. AuditInv /\ [Next]_vars => [Agrees]_vars
  <2>1. ~Finalize /\ Next => ~(phase = "finalize" /\ phase' = "over")
    BY DEF Next, Change, StartCrawl, ProcessFetch, CheckLinks
  <2>2. QED  BY <1>1, <2>1
<1>3. QED  BY <1>2, AuditCorrect, PTL DEF Spec, RescoringAgrees
=============================================================================
