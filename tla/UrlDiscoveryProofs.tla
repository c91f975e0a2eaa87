--------------------------- MODULE UrlDiscoveryProofs ---------------------------
(***************************************************************************)
(* Proofs about discovery (module UrlDiscovery) for every site, sitemap    *)
(* tree, table of sources, edit of it and bound.                           *)
(*                                                                         *)
(* The loops of the code are folds; what one of them has done after k      *)
(* elements is the trace that Folding proves it to have.                   *)
(***************************************************************************)
EXTENDS UrlDiscovery, FiniteSetTheorems, TLAPS

USE DEF resolution, frontier, configured

Collapsing == INSTANCE Folding WITH Op <- Collapse
Keeping == INSTANCE Folding WITH Op <- Keep
Entering == INSTANCE Folding WITH Op <- Enter
Seeding == INSTANCE Folding WITH Op <- AddSeed
Listing == INSTANCE Folding WITH Op <- AddEntry

-----------------------------------------------------------------------------
(* The invariant.                                                          *)

GoodRows == {row \in UrlSources : WellFormed(row)}

OwnFiles(rows) ==
  \A i, j \in DOMAIN rows :
    rows[i].kind = "csv" /\ rows[j].kind = "csv" /\ rows[i].where = rows[j].where => i = j

(* The file of a row that is about to be written is stored and nobody      *)
(* else's; that of a row that was removed is nobody's.                     *)
Filed ==
  /\ table \in Seq(GoodRows) /\ OwnFiles(table)
  /\ files \subseteq Keys /\ CsvKeys(table) \subseteq files
  /\ edits \in 0 .. MaxEdits
  /\ request # None =>
       /\ request.step \in {"insert", "unlink"}
       /\ request.source \in GoodRows /\ request.source.kind = "csv"
       /\ request.source.where \notin CsvKeys(table)
       /\ request.step = "insert" => request.source.where \in files

(* What may be crawled.                                                    *)
Locs == Raws \ {None}
Addresses == {NormalizeUrl(raw) : raw \in Locs}

Seeds == {seed \in [url : Addresses \ {None}, allowDiscovery : BOOLEAN] :
            seed.allowDiscovery => seed.url.host = Origin.host}

Distinct(known) == \A i, j \in DOMAIN known : known[i].url = known[j].url => i = j

Sitemaps == DOMAIN Documents

Walks == [root : Sitemaps, agenda : Seq(Sitemaps), visited : SUBSET Sitemaps, failed : SUBSET Sitemaps,
          entries : Seq(Locs), truncated : BOOLEAN, maxUrls : Nat]

Known(w) == {w.root} \cup Listed(w, "index")

(* What a walk has visited and emitted was listed, and what is listed it   *)
(* has visited or emitted, has on its agenda, or has met a bound.          *)
Walked(w) ==
  /\ w \in Walks
  /\ IsFiniteSet(w.visited) /\ Cardinality(w.visited) <= MaxSitemaps /\ w.failed \subseteq w.visited
  /\ Len(w.entries) <= w.maxUrls /\ IsInjective(w.entries)
  /\ w.visited \cup Range(w.agenda) \subseteq Known(w)
  /\ Range(w.entries) \subseteq Listed(w, "urlset")
  /\ IF w.truncated THEN Known(w) # w.visited \/ Listed(w, "urlset") # Range(w.entries)
     ELSE /\ Known(w) = w.visited \cup Range(w.agenda)
          /\ Listed(w, "urlset") = Range(w.entries)

Resolving ==
  /\ phase \in {"idle", "resolving", "orchestrating", "running", "completed", "failed"}
  /\ IF phase = "idle" THEN crawl = None ELSE crawl \in Crawls /\ MayStart(crawl)
  /\ sources \in Seq(GoodRows) /\ \A i \in DOMAIN sources : sources[i].active
  /\ walk # None => Walked(walk) /\ phase = "resolving" /\ sources # <<>>
  /\ walked # None => Walked(walked) /\ walked.agenda = <<>>
  /\ seeds \in Seq(Seeds)
  /\ phase = "idle" \/ crawl.scope # "group" => Distinct(seeds)
  /\ phase \notin {"idle", "resolving"} /\ crawl.scope = "page"
       => \A i \in DOMAIN seeds : SameOrigin(seeds[i].url)

Job == [url : Addresses, depth : Nat, discover : BOOLEAN]

Reached(j) ==
  /\ j.depth = 0 => j.url \in SeedUrls
  /\ j.depth # 0 => j.discover /\ j.depth <= MaxDepth
  /\ j.discover => /\ \E i \in DOMAIN seeds : seeds[i].allowDiscovery
                   /\ RegistrableDomain(j.url.host) = RegistrableDomain(Origin.host)

(* One job for each URL that was seen, and a total that counts them and    *)
(* what the seeds repeat.                                                  *)
Queued ==
  /\ jobs \subseteq Job /\ IsFiniteSet(jobs) /\ processed \subseteq jobs
  /\ \A j \in jobs : Reached(j)
  /\ \A j, k \in jobs : j.url = k.url => j = k
  /\ seen = JobUrls /\ pages = seen
  /\ IF phase = "running" THEN total = Cardinality(jobs) + Len(seeds) - Cardinality(SeedUrls)
     ELSE jobs = {} /\ total = 0

DiscoveryInv == Filed /\ Resolving /\ Queued

-----------------------------------------------------------------------------
(* The loops.                                                              *)

(* What is left of s, a sequence of n elements of S or None.               *)
Left(kept, s, n, S) ==
  /\ kept \in Seq(S \ {None}) /\ Len(kept) <= n
  /\ \A i \in DOMAIN kept : \E m \in 1 .. n : kept[i] = s[m]
  /\ \A m \in 1 .. n : s[m] # None => \E i \in DOMAIN kept : kept[i] = s[m]

(* Present: what there is, in a sequence no longer than the one it is of.  *)
LEMMA PresentElements ==
  ASSUME NEW n \in Nat, NEW s, DOMAIN s = 1 .. n, NEW S, \A i \in 1 .. n : s[i] \in S \cup {None}
  PROVE  Left(Present(s), s, n, S)
<1>1. Present(s) = Keeping!Folded(<<>>, s)
  BY Zenon DEF Present, Keeping!Folded, FoldLeft, Keeping!FoldLeft, MapThenFoldSet,
               Keeping!MapThenFoldSet, Max, Keeping!Max
<1>2. PICK f : Keeping!Trace(f, <<>>, s, n) /\ Present(s) = f[n]
  BY <1>1, Keeping!Unfold
<1> DEFINE Good(k) ==
             /\ f[k] \in Seq(S \ {None}) /\ Len(f[k]) <= k
             /\ \A i \in DOMAIN f[k] : \E m \in 1 .. k : f[k][i] = s[m]
             /\ \A m \in 1 .. k : s[m] # None => \E i \in DOMAIN f[k] : f[k][i] = s[m]
           T == {k \in 0 .. n : Good(k)}
<1>3. 0 \in T
  <2>1. f[0] = <<>>
    BY <1>2 DEF Keeping!Trace
  <2>2. Good(0)
    BY <2>1
  <2>3. QED  BY <2>2
<1>4. ASSUME NEW k \in 0 .. n - 1, k \in T PROVE k + 1 \in T
  <2>1. f[k + 1] = Keep(f[k], s[k + 1]) /\ k + 1 \in 1 .. n /\ Good(k)
    BY <1>2, <1>4 DEF Keeping!Trace
  <2> DEFINE m1 == k + 1  before == f[k]  after == f[k + 1]  e == s[k + 1]
  <2>2. CASE e = None
    <3>1. after = before
      BY <2>1, <2>2 DEF Keep
    <3>2. Good(m1)
      BY <2>1, <2>2, <3>1
    <3>3. QED  BY <2>1, <3>2
  <2>3. CASE e # None
    <3>1. after = Append(before, e) /\ e \in S \ {None} /\ before \in Seq(S \ {None})
      BY <2>1, <2>3 DEF Keep
    <3>2. /\ after \in Seq(S \ {None}) /\ Len(after) = Len(before) + 1 /\ Len(before) \in Nat
          /\ DOMAIN after = 1 .. Len(before) + 1 /\ DOMAIN before = 1 .. Len(before)
          /\ \A i \in 1 .. Len(before) : after[i] = before[i]
          /\ after[Len(before) + 1] = e
      BY <3>1
    <3>3. Len(before) <= k
      BY <2>1
    <3>4. /\ \A i \in DOMAIN before : \E m \in 1 .. k : before[i] = s[m]
          /\ \A m \in 1 .. k : s[m] # None => \E i \in DOMAIN before : before[i] = s[m]
      BY <2>1
    <3> HIDE DEF before, after
    <3>5. ASSUME NEW i \in DOMAIN after PROVE \E m \in 1 .. m1 : after[i] = s[m]
      <4>1. CASE i \in DOMAIN before
        <5>1. PICK m \in 1 .. k : before[i] = s[m]
          BY <3>4, <4>1
        <5>2. QED  BY <3>2, <4>1, <5>1
      <4>2. CASE i = Len(before) + 1
        <5>1. m1 \in 1 .. m1 /\ after[i] = s[m1]
          BY <3>2, <4>2
        <5>2. QED  BY <5>1
      <4>3. QED  BY <3>2, <4>1, <4>2
    <3>6. ASSUME NEW m \in 1 .. m1, s[m] # None PROVE \E i \in DOMAIN after : after[i] = s[m]
      BY <3>2, <3>4, <3>6
    <3>7. after \in Seq(S \ {None}) /\ Len(after) <= m1
      BY <3>2, <3>3
    <3>8. Good(m1)
      BY <3>5, <3>6, <3>7 DEF after
    <3>9. QED  BY <2>1, <3>8
  <2>4. QED  BY <2>2, <2>3
<1>5. Good(n)
  <2>1. \A k \in 0 .. n - 1 : k \in T => k + 1 \in T
    BY <1>4
  <2> HIDE DEF T
  <2>2. n \in 0 .. n /\ \A k \in 0 .. n : k \in T
    BY <1>3, <2>1, Keeping!Upto
  <2>3. QED  BY <2>2 DEF T
<1>6. QED  BY <1>2, <1>5 DEF Left

(* Entered: a list of the entries there were.                              *)
LEMMA EnteredType ==
  ASSUME NEW S, NEW entries \in Seq(S) PROVE Entered(entries) \in Seq(S)
<1>1. PICK n \in Nat : DOMAIN entries = 1 .. n /\ \A i \in 1 .. n : entries[i] \in S
  <2>1. /\ Len(entries) \in Nat /\ DOMAIN entries = 1 .. Len(entries)
        /\ \A i \in 1 .. Len(entries) : entries[i] \in S
    OBVIOUS
  <2>2. QED  BY <2>1, Zenon
<1>2. Entered(entries) = Entering!Folded(<<>>, entries)
  BY Zenon DEF Entered, Entering!Folded, FoldLeft, Entering!FoldLeft, MapThenFoldSet,
               Entering!MapThenFoldSet, Max, Entering!Max
<1>3. PICK f : Entering!Trace(f, <<>>, entries, n) /\ Entered(entries) = f[n]
  BY <1>1, <1>2, Entering!Unfold
<1> DEFINE Good(k) == f[k] \in Seq(S)
           T == {k \in 0 .. n : Good(k)}
<1>4. 0 \in T
  <2>1. f[0] = <<>>
    BY <1>3 DEF Entering!Trace
  <2>2. Good(0)
    BY <2>1
  <2>3. QED  BY <2>2
<1>5. ASSUME NEW k \in 0 .. n - 1, k \in T PROVE k + 1 \in T
  <2>1. k + 1 \in 1 .. n /\ f[k + 1] = Enter(f[k], entries[k + 1]) /\ Good(k)
    BY <1>1, <1>3, <1>5 DEF Entering!Trace
  <2> DEFINE m1 == k + 1  before == f[k]  after == f[k + 1]  e == entries[k + 1]
  <2>2. after = before \/ after = Append(before, e)
    BY <2>1 DEF Enter
  <2>3. before \in Seq(S) /\ e \in S
    <3>1. before \in Seq(S)
      BY <2>1
    <3>2. QED  BY <1>1, <2>1, <3>1
  <2>4. CASE after = before
    <3>1. Good(m1)
      BY <2>3, <2>4
    <3>2. QED  BY <2>1, <3>1
  <2>5. CASE after = Append(before, e)
    <3> HIDE DEF before, after, e
    <3>1. after \in Seq(S)
      BY <2>3, <2>5
    <3>2. Good(m1)
      BY <3>1 DEF after
    <3>3. QED  BY <2>1, <3>2
  <2>6. QED  BY <2>2, <2>4, <2>5
<1>6. Good(n)
  <2>1. \A k \in 0 .. n - 1 : k \in T => k + 1 \in T
    BY <1>5
  <2> HIDE DEF T
  <2>2. n \in 0 .. n /\ \A k \in 0 .. n : k \in T
    BY <1>4, <2>1, Entering!Upto
  <2>3. QED  BY <2>2 DEF T
<1>7. QED  BY <1>3, <1>6

(* Merged: seeds again, with one for each URL if there was one.            *)
LEMMA MergedSeeds ==
  ASSUME NEW known \in Seq(Seeds), NEW found \in Seq(Seeds)
  PROVE  Merged(known, found) \in Seq(Seeds) /\ (Distinct(known) => Distinct(Merged(known, found)))
<1> DEFINE n == Len(found)
<1>1. n \in Nat /\ DOMAIN found = 1 .. n /\ \A i \in 1 .. n : found[i] \in Seeds
  OBVIOUS
<1> HIDE DEF n
<1>2. Merged(known, found) = Seeding!Folded(known, found)
  BY Zenon DEF Merged, Seeding!Folded, FoldLeft, Seeding!FoldLeft, MapThenFoldSet,
               Seeding!MapThenFoldSet, Max, Seeding!Max
<1>3. PICK f : Seeding!Trace(f, known, found, n) /\ Merged(known, found) = f[n]
  BY <1>1, <1>2, Seeding!Unfold
<1> DEFINE Good(k) == f[k] \in Seq(Seeds) /\ (Distinct(known) => Distinct(f[k]))
           T == {k \in 0 .. n : Good(k)}
<1>4. 0 \in T
  <2>1. f[0] = known
    BY <1>3 DEF Seeding!Trace
  <2>2. QED  BY <1>1, <2>1
<1>5. ASSUME NEW k \in 0 .. n - 1, k \in T PROVE k + 1 \in T
  <2>1. k + 1 \in 1 .. n /\ f[k + 1] = AddSeed(f[k], found[k + 1]) /\ found[k + 1] \in Seeds
    BY <1>1, <1>3 DEF Seeding!Trace
  <2> DEFINE before == f[k]  after == f[k + 1]  seed == found[k + 1]
  <2>2. before \in Seq(Seeds) /\ (Distinct(known) => Distinct(before))
    BY <1>5
  <2>3. after = AddSeed(before, seed) /\ seed \in Seeds
    BY <2>1
  <2> HIDE DEF before, after, seed
  <2>4. CASE seed.url \notin {before[i].url : i \in DOMAIN before}
    <3>1. after = Append(before, seed)
      BY <2>3, <2>4 DEF AddSeed
    <3>2. /\ after \in Seq(Seeds) /\ Len(before) \in Nat /\ DOMAIN before = 1 .. Len(before)
          /\ DOMAIN after = 1 .. Len(before) + 1 /\ after[Len(before) + 1] = seed
          /\ \A i \in 1 .. Len(before) : after[i] = before[i]
      BY <2>2, <2>3, <3>1
    <3>3. ASSUME Distinct(before) PROVE Distinct(after)
      BY <2>4, <3>2, <3>3 DEF Distinct
    <3>4. QED  BY <2>1, <2>2, <3>2, <3>3 DEF after, before
  <2>5. CASE seed.url \in {before[i].url : i \in DOMAIN before}
    <3> DEFINE one(i) == IF before[i].url = seed.url
                         THEN Seed(seed.url, before[i].allowDiscovery \/ seed.allowDiscovery)
                         ELSE before[i]
    <3>1. after = [i \in DOMAIN before |-> one(i)]
      BY <2>3, <2>5 DEF AddSeed
    <3>2. ASSUME NEW i \in DOMAIN before PROVE one(i) \in Seeds /\ one(i).url = before[i].url
      <4>1. before[i] \in Seeds
        BY <2>2, <3>2
      <4>2. CASE before[i].url = seed.url
        <5> DEFINE both == before[i].allowDiscovery \/ seed.allowDiscovery
        <5>1. both \in BOOLEAN /\ (both => seed.url.host = Origin.host)
          BY <2>3, <4>1, <4>2 DEF Seeds
        <5> HIDE DEF both
        <5>2. Seed(seed.url, both) \in Seeds /\ Seed(seed.url, both).url = seed.url
          BY <2>3, <5>1 DEF Seeds, Seed
        <5>3. QED  BY <4>2, <5>2 DEF both
      <4>3. QED  BY <4>1, <4>2
    <3> HIDE DEF one
    <3>3. DOMAIN before = 1 .. Len(before) /\ Len(before) \in Nat
      BY <2>2
    <3>4. after \in Seq(Seeds) /\ DOMAIN after = DOMAIN before
      BY <3>1, <3>2, <3>3
    <3>5. \A i \in DOMAIN before : after[i].url = before[i].url
      BY <3>1, <3>2
    <3>6. Distinct(before) => Distinct(after)
      BY <3>4, <3>5 DEF Distinct
    <3>7. QED  BY <2>1, <2>2, <3>4, <3>6 DEF after, before
  <2>6. QED  BY <2>4, <2>5
<1>6. n \in T
  <2>1. \A k \in 0 .. n - 1 : k \in T => k + 1 \in T
    BY <1>5
  <2> HIDE DEF T
  <2>2. n \in 0 .. n /\ \A k \in 0 .. n : k \in T
    BY <1>1, <1>4, <2>1, Seeding!Upto
  <2>3. QED  BY <2>2
<1>7. QED  BY <1>3, <1>6

(* One more element at the end.                                            *)
LEMMA Appended ==
  ASSUME NEW S, NEW s \in Seq(S), NEW e \in S
  PROVE  /\ Append(s, e) \in Seq(S) /\ Len(Append(s, e)) = Len(s) + 1
         /\ Range(Append(s, e)) = Range(s) \cup {e}
         /\ IsInjective(s) /\ e \notin Range(s) => IsInjective(Append(s, e))
<1> DEFINE t == Append(s, e)
<1>1. /\ t \in Seq(S) /\ Len(t) = Len(s) + 1 /\ Len(s) \in Nat
      /\ DOMAIN s = 1 .. Len(s) /\ DOMAIN t = 1 .. Len(s) + 1
      /\ \A i \in 1 .. Len(s) : t[i] = s[i]
      /\ t[Len(s) + 1] = e
  OBVIOUS
<1> HIDE DEF t
<1>2. Range(t) = Range(s) \cup {e}
  <2>1. ASSUME NEW x \in Range(t) PROVE x \in Range(s) \cup {e}
    <3>1. PICK i \in 1 .. Len(s) + 1 : x = t[i]
      BY <1>1, <2>1 DEF Range
    <3>2. CASE i = Len(s) + 1
      BY <1>1, <3>1, <3>2
    <3>3. CASE i \in 1 .. Len(s)
      BY <1>1, <3>1, <3>3 DEF Range
    <3>4. QED  BY <1>1, <3>2, <3>3
  <2>2. ASSUME NEW x \in Range(s) \cup {e} PROVE x \in Range(t)
    <3>1. CASE x = e
      <4>1. Len(s) + 1 \in DOMAIN t
        BY <1>1
      <4>2. QED  BY <1>1, <3>1, <4>1 DEF Range
    <3>2. CASE x \in Range(s)
      <4>1. PICK i \in 1 .. Len(s) : x = s[i]
        BY <1>1, <3>2 DEF Range
      <4>2. i \in DOMAIN t /\ x = t[i]
        BY <1>1, <4>1
      <4>3. QED  BY <4>2 DEF Range
    <3>3. QED  BY <3>1, <3>2
  <2>3. QED  BY <2>1, <2>2
<1>3. ASSUME IsInjective(s), e \notin Range(s) PROVE IsInjective(t)
  <2>1. \A i \in 1 .. Len(s) : s[i] # e
    BY <1>1, <1>3 DEF Range
  <2>2. \A i, j \in 1 .. Len(s) : s[i] = s[j] => i = j
    BY <1>1, <1>3 DEF IsInjective
  <2>3. \A i, j \in 1 .. Len(s) + 1 : t[i] = t[j] => i = j
    BY <1>1, <2>1, <2>2
  <2>4. QED  BY <1>1, <2>3 DEF IsInjective
<1>4. QED  BY <1>1, <1>2, <1>3 DEF t

(* What a walk r has made of the first k locations of a document that a    *)
(* walk w read.                                                            *)
Grown(w, r, locs, k) ==
  /\ r \in Walks /\ r.root = w.root /\ r.agenda = w.agenda
  /\ r.visited = w.visited /\ r.failed = w.failed /\ r.maxUrls = w.maxUrls
  /\ IsInjective(r.entries) /\ Len(r.entries) <= r.maxUrls
  /\ Range(w.entries) \subseteq Range(r.entries)
  /\ \A x \in Range(r.entries) \ Range(w.entries) : \E m \in 1 .. k : x = locs[m]
  /\ IF r.truncated THEN \E m \in 1 .. k : locs[m] \notin Range(r.entries)
     ELSE \A m \in 1 .. k : locs[m] \in Range(r.entries)

(* addEntry adds the next location if it is new and there is room for it.  *)
LEMMA AddEntryGrows ==
  ASSUME NEW w \in Walks, NEW r \in Walks, NEW k \in Nat, NEW locs, locs[k + 1] \in Locs,
         Grown(w, r, locs, k)
  PROVE  Grown(w, AddEntry(r, locs[k + 1]), locs, k + 1)
<1> DEFINE loc == locs[k + 1]  q == AddEntry(r, loc)  m1 == k + 1
<1>1. k \in 0 .. k /\ m1 \in 1 .. m1 /\ \A m \in 1 .. k : m \in 1 .. m1
  OBVIOUS
<1>2. \A m \in 1 .. m1 : m \in 1 .. k \/ m = m1
  OBVIOUS
<1>3. r.entries \in Seq(Locs) /\ r.maxUrls \in Nat /\ r.truncated \in BOOLEAN
  BY DEF Walks
<1>4. Contains(r.entries, loc) <=> loc \in Range(r.entries)
  <2>1. DOMAIN r.entries = 1 .. Len(r.entries)
    BY <1>3
  <2>2. QED  BY <2>1, Zenon DEF Contains, Range
<1>5. CASE r.truncated
  <2>1. q = r
    BY <1>5 DEF AddEntry
  <2>2. QED  BY <1>1, <1>5, <2>1 DEF Grown
<1>6. CASE ~r.truncated /\ loc \in Range(r.entries)
  <2>1. q = r
    BY <1>4, <1>6 DEF AddEntry
  <2>2. QED  BY <1>1, <1>2, <1>6, <2>1 DEF Grown
<1>7. CASE ~r.truncated /\ loc \notin Range(r.entries) /\ Len(r.entries) >= r.maxUrls
  <2>1. q = [r EXCEPT !.truncated = TRUE]
    BY <1>4, <1>7 DEF AddEntry
  <2>2. /\ q \in Walks /\ q.truncated = TRUE /\ q.root = r.root /\ q.agenda = r.agenda
        /\ q.visited = r.visited /\ q.failed = r.failed /\ q.maxUrls = r.maxUrls
        /\ q.entries = r.entries
    BY <2>1 DEF Walks
  <2>3. QED  BY <1>1, <1>7, <2>2 DEF Grown
<1>8. CASE ~r.truncated /\ loc \notin Range(r.entries) /\ ~(Len(r.entries) >= r.maxUrls)
  <2>1. q = [r EXCEPT !.entries = Append(r.entries, loc)]
    BY <1>4, <1>8 DEF AddEntry
  <2> DEFINE longer == Append(r.entries, loc)
  <2>2. /\ longer \in Seq(Locs) /\ Len(longer) = Len(r.entries) + 1
        /\ Range(longer) = Range(r.entries) \cup {loc}
        /\ IsInjective(r.entries) => IsInjective(longer)
    BY <1>3, <1>8, Appended
  <2> HIDE DEF longer
  <2>3. q = [r EXCEPT !.entries = longer]
    BY <2>1 DEF longer
  <2>4. /\ q \in Walks /\ q.truncated = r.truncated /\ q.root = r.root /\ q.agenda = r.agenda
        /\ q.visited = r.visited /\ q.failed = r.failed /\ q.maxUrls = r.maxUrls
        /\ q.entries = longer
    BY <2>2, <2>3 DEF Walks
  <2>5. Len(longer) <= r.maxUrls
    <3>1. Len(r.entries) \in Nat
      BY <1>3
    <3>2. QED  BY <1>3, <1>8, <2>2, <3>1
  <2> HIDE DEF q, loc, m1
  <2>6. loc = locs[m1]
    BY DEF loc, m1
  <2>7. \A x \in Range(longer) \ Range(w.entries) : \E m \in 1 .. m1 : x = locs[m]
    BY <1>1, <2>2, <2>6 DEF Grown
  <2>8. \A m \in 1 .. m1 : locs[m] \in Range(longer)
    BY <1>2, <1>8, <2>2, <2>6 DEF Grown
  <2>9. Range(w.entries) \subseteq Range(longer)
    BY <2>2 DEF Grown
  <2>10. Grown(w, q, locs, m1)
    BY <1>8, <2>2, <2>4, <2>5, <2>7, <2>8, <2>9 DEF Grown
  <2>11. QED  BY <2>10 DEF q, loc, m1
<1>9. QED  BY <1>5, <1>6, <1>7, <1>8

(* A document's locations, one after the other.                            *)
LEMMA EntriesAdded ==
  ASSUME NEW w \in Walks, ~w.truncated, IsInjective(w.entries), Len(w.entries) <= w.maxUrls,
         NEW n \in Nat, NEW locs, DOMAIN locs = 1 .. n, \A i \in 1 .. n : locs[i] \in Locs
  PROVE  Grown(w, FoldLeft(AddEntry, w, locs), locs, n)
<1>1. FoldLeft(AddEntry, w, locs) = Listing!Folded(w, locs)
  BY Zenon DEF Listing!Folded, FoldLeft, Listing!FoldLeft, MapThenFoldSet,
               Listing!MapThenFoldSet, Max, Listing!Max
<1>2. PICK f : Listing!Trace(f, w, locs, n) /\ FoldLeft(AddEntry, w, locs) = f[n]
  BY <1>1, Listing!Unfold
<1> DEFINE Good(k) == Grown(w, f[k], locs, k)
           T == {k \in 0 .. n : Good(k)}
<1>3. 0 \in T
  <2>1. f[0] = w
    BY <1>2 DEF Listing!Trace
  <2>2. Good(0)
    BY <2>1 DEF Grown
  <2>3. QED  BY <2>2
<1>4. ASSUME NEW k \in 0 .. n - 1, k \in T PROVE k + 1 \in T
  <2>1. k + 1 \in 1 .. n /\ f[k + 1] = AddEntry(f[k], locs[k + 1]) /\ Good(k)
    BY <1>2, <1>4 DEF Listing!Trace
  <2>2. f[k] \in Walks /\ k \in Nat
    BY <2>1 DEF Grown
  <2>3. Good(k + 1)
    BY <2>1, <2>2, AddEntryGrows
  <2>4. QED  BY <2>1, <2>3
<1>5. Good(n)
  <2>1. \A k \in 0 .. n - 1 : k \in T => k + 1 \in T
    BY <1>4
  <2> HIDE DEF T
  <2>2. n \in 0 .. n /\ \A k \in 0 .. n : k \in T
    BY <1>3, <2>1, Listing!Upto
  <2>3. QED  BY <2>2 DEF T
<1>6. QED  BY <1>2, <1>5

-----------------------------------------------------------------------------
(* The walk of a sitemap tree.                                             *)

(* What a document lists are sitemaps, or locations.                       *)
LEMMA LocsType ==
  ASSUME NEW s \in Sitemaps
  PROVE  /\ Documents[s].kind = "index" => HttpLocs(Documents[s]) \in Seq(Sitemaps)
         /\ Documents[s].kind = "urlset" => HttpLocs(Documents[s]) \in Seq(Locs)
<1> DEFINE document == Documents[s]  locs == document.locs
<1>1. locs \in Seq(Range(locs))
  BY DocumentsAssumption DEF Sitemaps
<1>2. PICK n \in Nat : DOMAIN locs = 1 .. n /\ \A i \in 1 .. n : locs[i] \in Range(locs)
  <2> HIDE DEF locs
  <2>1. /\ Len(locs) \in Nat /\ DOMAIN locs = 1 .. Len(locs)
        /\ \A i \in 1 .. Len(locs) : locs[i] \in Range(locs)
    BY <1>1 DEF Range
  <2>2. QED  BY <2>1, Zenon
<1>3. ASSUME NEW S, Range(locs) \subseteq S \cup {None} PROVE Present(locs) \in Seq(S \ {None})
  <2>1. \A i \in 1 .. n : locs[i] \in S \cup {None}
    BY <1>2, <1>3
  <2> HIDE DEF locs
  <2>2. Left(Present(locs), locs, n, S)
    BY <1>2, <2>1, PresentElements
  <2>3. QED  BY <2>2 DEF Left
<1>4. CASE document.kind = "index"
  <2>1. Range(locs) \subseteq Sitemaps \cup {None}
    BY <1>4, DocumentsAssumption DEF Sitemaps
  <2>2. Present(locs) \in Seq(Sitemaps \ {None})
    BY <1>3, <2>1
  <2> DEFINE kept == Present(locs)
  <2> HIDE DEF kept
  <2>3. kept \in Seq(Sitemaps \ {None}) => kept \in Seq(Sitemaps)
    OBVIOUS
  <2>4. kept \in Seq(Sitemaps) /\ document.kind # "urlset"
    BY <1>4, <2>2, <2>3 DEF kept
  <2>5. QED  BY <2>4 DEF HttpLocs, kept
<1>5. CASE document.kind = "urlset"
  <2>1. Range(locs) \subseteq Raws \cup {None}
    BY <1>5 DEF Raws, Sitemaps
  <2>2. Present(locs) \in Seq(Raws \ {None}) /\ document.kind # "index"
    BY <1>3, <1>5, <2>1
  <2>3. QED  BY <2>2 DEF HttpLocs, Locs
<1>6. QED  BY <1>4, <1>5

(* What is listed depends on the documents that were read.                 *)
LEMMA ListedSame ==
  ASSUME NEW v, NEW w, v.visited \ v.failed = w.visited \ w.failed, NEW kind
  PROVE  Listed(v, kind) = Listed(w, kind)
BY DEF Listed

(* A document more that was read.                                          *)
LEMMA ListedMore ==
  ASSUME NEW v, NEW w, NEW s, v.visited \ v.failed = (w.visited \ w.failed) \cup {s}, NEW kind
  PROVE  Listed(v, kind) = IF Documents[s].kind = kind
                           THEN UNION {Listed(w, kind), Range(HttpLocs(Documents[s]))}
                           ELSE Listed(w, kind)
<1> DEFINE locs(t) == Range(HttpLocs(Documents[t]))
<1>1. \A x : x \in Listed(v, kind)
         <=> \E t \in v.visited \ v.failed : Documents[t].kind = kind /\ x \in locs(t)
  BY Zenon DEF Listed
<1>2. \A x : x \in Listed(w, kind)
         <=> \E t \in w.visited \ w.failed : Documents[t].kind = kind /\ x \in locs(t)
  BY Zenon DEF Listed
<1> HIDE DEF locs
<1>3. \A x : x \in Listed(v, kind) <=> x \in Listed(w, kind) \/ (Documents[s].kind = kind /\ x \in locs(s))
  BY <1>1, <1>2
<1>4. CASE Documents[s].kind = kind
  <2>1. Listed(v, kind) = UNION {Listed(w, kind), locs(s)}
    BY <1>3, <1>4
  <2>2. QED  BY <1>4, <2>1 DEF locs
<1>5. CASE Documents[s].kind # kind
  <2>1. Listed(v, kind) = Listed(w, kind)
    BY <1>3, <1>5
  <2>2. QED  BY <1>5, <2>1
<1>6. QED  BY <1>4, <1>5

(* Two lists, one after the other, and a list's first and the rest.        *)
LEMMA Joined ==
  ASSUME NEW S, NEW s \in Seq(S), NEW t \in Seq(S)
  PROVE  s \o t \in Seq(S) /\ Range(s \o t) = Range(s) \cup Range(t)
<1> DEFINE u == s \o t
<1>1. /\ u \in Seq(S) /\ Len(u) = Len(s) + Len(t) /\ Len(s) \in Nat /\ Len(t) \in Nat
      /\ DOMAIN s = 1 .. Len(s) /\ DOMAIN t = 1 .. Len(t) /\ DOMAIN u = 1 .. Len(s) + Len(t)
      /\ \A i \in 1 .. Len(s) : u[i] = s[i]
      /\ \A i \in 1 .. Len(t) : u[Len(s) + i] = t[i]
  OBVIOUS
<1> HIDE DEF u
<1>2. ASSUME NEW x \in Range(u) PROVE x \in Range(s) \cup Range(t)
  <2>1. PICK i \in 1 .. Len(s) + Len(t) : x = u[i]
    BY <1>1, <1>2 DEF Range
  <2>2. CASE i <= Len(s)
    <3>1. i \in DOMAIN s /\ x = s[i]
      BY <1>1, <2>1, <2>2
    <3>2. QED  BY <3>1 DEF Range
  <2>3. CASE i > Len(s)
    <3>1. i - Len(s) \in 1 .. Len(t) /\ Len(s) + (i - Len(s)) = i
      BY <1>1, <2>1, <2>3
    <3>2. x = t[i - Len(s)] /\ i - Len(s) \in DOMAIN t
      BY <1>1, <2>1, <3>1
    <3>3. QED  BY <3>2 DEF Range
  <2>4. QED  BY <1>1, <2>2, <2>3
<1>3. ASSUME NEW x \in Range(s) PROVE x \in Range(u)
  <2>1. PICK i \in 1 .. Len(s) : x = s[i]
    BY <1>1, <1>3 DEF Range
  <2>2. i \in DOMAIN u /\ x = u[i]
    BY <1>1, <2>1
  <2>3. QED  BY <2>2 DEF Range
<1>4. ASSUME NEW x \in Range(t) PROVE x \in Range(u)
  <2>1. PICK i \in 1 .. Len(t) : x = t[i]
    BY <1>1, <1>4 DEF Range
  <2>2. Len(s) + i \in DOMAIN u /\ x = u[Len(s) + i]
    BY <1>1, <2>1
  <2>3. QED  BY <2>2 DEF Range
<1>5. QED  BY <1>1, <1>2, <1>3, <1>4 DEF u

(* The first of a list, and the rest.                                      *)
LEMMA HeadAndTail ==
  ASSUME NEW S, NEW s \in Seq(S), s # <<>>
  PROVE  Head(s) \in S /\ Tail(s) \in Seq(S) /\ Range(s) = {Head(s)} \cup Range(Tail(s))
<1> DEFINE t == Tail(s)  h == Head(s)
<1>1. /\ t \in Seq(S) /\ h \in S /\ Len(s) \in Nat \ {0} /\ h = s[1]
      /\ DOMAIN s = 1 .. Len(s) /\ DOMAIN t = 1 .. Len(s) - 1
      /\ \A i \in 1 .. Len(s) - 1 : t[i] = s[i + 1]
  OBVIOUS
<1> HIDE DEF t, h
<1>2. ASSUME NEW x \in Range(s) PROVE x \in {h} \cup Range(t)
  <2>1. PICK i \in 1 .. Len(s) : x = s[i]
    BY <1>1, <1>2 DEF Range
  <2>2. CASE i = 1
    BY <1>1, <2>1, <2>2
  <2>3. CASE i # 1
    <3>1. i - 1 \in 1 .. Len(s) - 1 /\ (i - 1) + 1 = i
      BY <1>1, <2>1, <2>3
    <3>2. x = t[i - 1] /\ i - 1 \in DOMAIN t
      BY <1>1, <2>1, <3>1
    <3>3. QED  BY <3>2 DEF Range
  <2>4. QED  BY <2>2, <2>3
<1>3. h \in Range(s)
  <2>1. 1 \in DOMAIN s
    BY <1>1
  <2>2. QED  BY <1>1, <2>1 DEF Range
<1>4. ASSUME NEW x \in Range(t) PROVE x \in Range(s)
  <2>1. PICK i \in 1 .. Len(s) - 1 : x = t[i]
    BY <1>1, <1>4 DEF Range
  <2>2. i + 1 \in DOMAIN s /\ x = s[i + 1]
    BY <1>1, <2>1
  <2>3. QED  BY <2>2 DEF Range
<1>5. QED  BY <1>1, <1>2, <1>3, <1>4 DEF t, h

(* One step of walk: what it finds it has on its agenda, or has met a      *)
(* bound because of it.                                                    *)
LEMMA VisitWalked ==
  ASSUME NEW w, Walked(w), w.agenda # <<>>,
         NEW document \in {Documents[Head(w.agenda)], Unreachable}
  PROVE  Walked(Visit([w EXCEPT !.agenda = Tail(w.agenda)], Head(w.agenda), document))
<1> DEFINE s == Head(w.agenda)  rest == Tail(w.agenda)
           w2 == [w EXCEPT !.agenda = rest]
           w3 == [w2 EXCEPT !.visited = w2.visited \cup {s}]
           v == Visit(w2, s, document)
<1>1. w \in Walks /\ w.agenda \in Seq(Sitemaps)
  BY DEF Walked, Walks
<1>2. s \in Sitemaps /\ rest \in Seq(Sitemaps) /\ Range(w.agenda) = {s} \cup Range(rest)
  BY <1>1, HeadAndTail
<1> HIDE DEF s, rest
<1>3. /\ w2 \in Walks /\ w2.root = w.root /\ w2.agenda = rest /\ w2.visited = w.visited
      /\ w2.failed = w.failed /\ w2.entries = w.entries /\ w2.truncated = w.truncated
      /\ w2.maxUrls = w.maxUrls
  BY <1>1, <1>2 DEF Walks
<1>4. /\ w3 \in Walks /\ w3.root = w.root /\ w3.agenda = rest /\ w3.visited = w.visited \cup {s}
      /\ w3.failed = w.failed /\ w3.entries = w.entries /\ w3.truncated = w.truncated
      /\ w3.maxUrls = w.maxUrls
  BY <1>1, <1>2 DEF Walks
<1> HIDE DEF w3
<1>5. document \in {Documents[s], Unreachable}
  BY DEF s
<1>6. \A kind : Listed(w2, kind) = Listed(w, kind)
  BY <1>3, ListedSame
<1>7. CASE w.truncated \/ s \in w.visited
  <2>1. v = w2
    BY <1>3, <1>7 DEF Visit
  <2> HIDE DEF w2, v
  <2>2. Known(w2) = Known(w)
    BY <1>3, <1>6 DEF Known
  <2>3. w.visited \cup Range(rest) \subseteq w.visited \cup Range(w.agenda)
    BY <1>2
  <2>4. s \in w.visited => w.visited \cup Range(rest) = w.visited \cup Range(w.agenda)
    BY <1>2
  <2>5. Walked(w2)
    BY <1>3, <1>6, <1>7, <2>2, <2>3, <2>4 DEF Walked
  <2>6. QED  BY <2>1, <2>5 DEF v, w2, s, rest
<1>8. CASE ~w.truncated /\ s \notin w.visited /\ Cardinality(w.visited) >= MaxSitemaps
  <2> DEFINE q == [w2 EXCEPT !.truncated = TRUE]
  <2>1. v = q
    BY <1>3, <1>8 DEF Visit
  <2>2. /\ q \in Walks /\ q.root = w.root /\ q.agenda = rest /\ q.visited = w.visited
        /\ q.failed = w.failed /\ q.entries = w.entries /\ q.truncated = TRUE
        /\ q.maxUrls = w.maxUrls
    BY <1>3 DEF Walks
  <2> HIDE DEF w2, v, q
  <2>3. \A kind : Listed(q, kind) = Listed(w, kind)
    BY <2>2, ListedSame
  <2>4. Known(q) = Known(w)
    BY <2>2, <2>3 DEF Known
  <2>5. s \in Known(w)
    BY <1>2 DEF Walked
  <2>6. Known(q) # q.visited
    BY <1>8, <2>2, <2>4, <2>5
  <2>7. Walked(q)
    BY <1>2, <2>2, <2>3, <2>4, <2>6 DEF Walked
  <2>8. QED  BY <2>1, <2>7 DEF v, w2, s, rest
<1>9. CASE ~w.truncated /\ s \notin w.visited /\ ~(Cardinality(w.visited) >= MaxSitemaps)
  <2>1. v = Expanded(w3, s, document)
    BY <1>3, <1>9 DEF Visit, w3
  <2>2. IsFiniteSet(w3.visited) /\ Cardinality(w3.visited) <= MaxSitemaps
    <3>1. IsFiniteSet(w.visited) /\ Cardinality(w.visited) \in Nat
      BY FS_CardinalityType DEF Walked
    <3>2. IsFiniteSet(w.visited \cup {s}) /\ Cardinality(w.visited \cup {s}) = Cardinality(w.visited) + 1
      BY <1>9, <3>1, FS_AddElement
    <3>3. QED  BY <1>4, <1>9, <3>1, <3>2, BoundsAssumption
  <2>3. s \notin w.failed /\ w.failed \subseteq w.visited
    BY <1>9 DEF Walked
  <2>4. /\ Known(w) = w.visited \cup Range(w.agenda) /\ Listed(w, "urlset") = Range(w.entries)
        /\ IsInjective(w.entries) /\ Len(w.entries) <= w.maxUrls
    BY <1>9 DEF Walked
  <2> HIDE DEF w2, v
  <2>5. CASE document.kind = "index"
    <3> DEFINE locs == HttpLocs(document)
               q == [w3 EXCEPT !.agenda = locs \o w3.agenda]
    <3>1. v = q
      BY <2>1, <2>5 DEF Expanded
    <3>2. document = Documents[s] /\ locs \in Seq(Sitemaps)
      BY <1>2, <1>5, <2>5, LocsType DEF Unreachable
    <3> HIDE DEF locs
    <3>3. locs \o rest \in Seq(Sitemaps) /\ Range(locs \o rest) = Range(locs) \cup Range(rest)
      BY <1>2, <3>2, Joined
    <3>4. /\ q \in Walks /\ q.root = w.root /\ q.agenda = locs \o rest
          /\ q.visited = w.visited \cup {s} /\ q.failed = w.failed /\ q.entries = w.entries
          /\ q.truncated = w.truncated /\ q.maxUrls = w.maxUrls /\ q.visited = w3.visited
      BY <1>4, <3>3 DEF Walks
    <3> HIDE DEF q
    <3>5. q.visited \ q.failed = (w.visited \ w.failed) \cup {s}
      BY <2>3, <3>4
    <3>6. Listed(q, "index") = Listed(w, "index") \cup Range(locs)
      <4>1. Listed(q, "index") = Listed(w, "index") \cup Range(HttpLocs(Documents[s]))
        <5>1. Documents[s].kind = "index"
          BY <2>5, <3>2
        <5> DEFINE kind == Documents[s].kind
        <5>2. Listed(q, kind) = UNION {Listed(w, kind), Range(HttpLocs(Documents[s]))}
          BY <3>5, ListedMore
        <5>3. QED  BY <5>1, <5>2
      <4>2. QED  BY <3>2, <4>1 DEF locs
    <3>7. Listed(q, "urlset") = Listed(w, "urlset")
      BY <2>5, <3>2, <3>5, ListedMore
    <3>8. Known(q) = Known(w) \cup Range(locs)
      BY <3>4, <3>6 DEF Known
    <3>9. Known(q) = q.visited \cup Range(q.agenda)
      BY <1>2, <2>4, <3>3, <3>4, <3>8
    <3>10. q.failed \subseteq q.visited
      BY <2>3, <3>4
    <3>11. Walked(q)
      BY <1>9, <2>2, <2>4, <3>4, <3>7, <3>9, <3>10 DEF Walked
    <3>12. QED  BY <3>1, <3>11 DEF v, w2, s, rest
  <2>6. CASE document.kind = "urlset"
    <3> DEFINE locs == HttpLocs(document)
               q == FoldLeft(AddEntry, w3, locs)
    <3>1. v = q
      BY <2>1, <2>6 DEF Expanded
    <3>2. document = Documents[s] /\ locs \in Seq(Locs)
      BY <1>2, <1>5, <2>6, LocsType DEF Unreachable
    <3> HIDE DEF locs
    <3>3. PICK n \in Nat : DOMAIN locs = 1 .. n /\ \A i \in 1 .. n : locs[i] \in Locs
      <4>1. /\ Len(locs) \in Nat /\ DOMAIN locs = 1 .. Len(locs)
            /\ \A i \in 1 .. Len(locs) : locs[i] \in Locs
        BY <3>2
      <4>2. QED  BY <4>1, Zenon
    <3>4. Grown(w3, q, locs, n)
      BY <1>4, <1>9, <2>4, <3>3, EntriesAdded
    <3> HIDE DEF q
    <3>5. q.visited \ q.failed = (w.visited \ w.failed) \cup {s}
      BY <1>4, <2>3, <3>4 DEF Grown
    <3>6. Listed(q, "index") = Listed(w, "index")
      <4>1. Documents[s].kind # "index"
        BY <2>6, <3>2
      <4>2. QED  BY <3>5, <4>1, ListedMore
    <3>7. Listed(q, "urlset") = Range(w.entries) \cup Range(locs)
      <4>1. Listed(q, "urlset") = Listed(w, "urlset") \cup Range(HttpLocs(Documents[s]))
        <5>1. Documents[s].kind = "urlset"
          BY <2>6, <3>2
        <5> DEFINE kind == Documents[s].kind
        <5>2. Listed(q, kind) = UNION {Listed(w, kind), Range(HttpLocs(Documents[s]))}
          BY <3>5, ListedMore
        <5>3. QED  BY <5>1, <5>2
      <4>2. QED  BY <2>4, <3>2, <4>1 DEF locs
    <3>8. Known(q) = Known(w)
      BY <1>4, <3>4, <3>6 DEF Known, Grown
    <3>9. Known(q) = q.visited \cup Range(q.agenda)
      BY <1>2, <1>4, <2>4, <3>4, <3>8 DEF Grown
    <3>10. Range(locs) = {locs[m] : m \in 1 .. n}
      BY <3>3 DEF Range
    <3>11. Range(q.entries) \subseteq Listed(q, "urlset")
      <4>1. ASSUME NEW x \in Range(q.entries), x \notin Range(w.entries) PROVE x \in Range(locs)
        BY <1>4, <3>4, <3>10, <4>1 DEF Grown
      <4>2. QED  BY <3>7, <4>1
    <3>12. IF q.truncated THEN Listed(q, "urlset") # Range(q.entries)
                          ELSE Listed(q, "urlset") = Range(q.entries)
      <4>1. CASE q.truncated
        <5>1. PICK m \in 1 .. n : locs[m] \notin Range(q.entries)
          BY <3>4, <4>1 DEF Grown
        <5>2. locs[m] \in Listed(q, "urlset")
          BY <3>7, <3>10
        <5>3. QED  BY <4>1, <5>1, <5>2
      <4>2. CASE ~q.truncated
        <5>1. Range(locs) \subseteq Range(q.entries)
          BY <3>4, <3>10, <4>2 DEF Grown
        <5>2. Range(w.entries) \subseteq Range(q.entries)
          BY <1>4, <3>4 DEF Grown
        <5>3. QED  BY <3>7, <3>11, <4>2, <5>1, <5>2
      <4>3. QED  BY <4>1, <4>2
    <3>13. q.failed \subseteq q.visited /\ IsFiniteSet(q.visited) /\ Cardinality(q.visited) <= MaxSitemaps
      BY <1>4, <2>2, <2>3, <3>4 DEF Grown
    <3>14. q \in Walks /\ Len(q.entries) <= q.maxUrls /\ IsInjective(q.entries)
      BY <3>4 DEF Grown
    <3>15. Walked(q)
      BY <3>9, <3>11, <3>12, <3>13, <3>14 DEF Walked
    <3>16. QED  BY <3>1, <3>15 DEF v, w2, s, rest
  <2>7. CASE document.kind \notin {"index", "urlset"}
    <3> DEFINE q == [w3 EXCEPT !.failed = w3.failed \cup {s}]
    <3>1. v = q
      BY <2>1, <2>7 DEF Expanded
    <3>2. /\ q \in Walks /\ q.root = w.root /\ q.agenda = rest /\ q.visited = w.visited \cup {s}
          /\ q.failed = w.failed \cup {s} /\ q.entries = w.entries /\ q.truncated = w.truncated
          /\ q.maxUrls = w.maxUrls /\ q.visited = w3.visited
      BY <1>2, <1>4 DEF Walks
    <3> HIDE DEF q
    <3>3. q.visited \ q.failed = w.visited \ w.failed
      BY <1>9, <3>2
    <3>4. \A kind : Listed(q, kind) = Listed(w, kind)
      BY <3>3, ListedSame
    <3>5. Known(q) = Known(w)
      BY <3>2, <3>4 DEF Known
    <3>6. Known(q) = q.visited \cup Range(q.agenda) /\ q.failed \subseteq q.visited
      BY <1>2, <2>3, <2>4, <3>2, <3>5
    <3>7. Walked(q)
      BY <1>9, <2>2, <2>4, <3>2, <3>4, <3>6 DEF Walked
    <3>8. QED  BY <3>1, <3>7 DEF v, w2, s, rest
  <2>8. QED  BY <2>5, <2>6, <2>7
<1>10. QED  BY <1>7, <1>8, <1>9

-----------------------------------------------------------------------------
(* The normal form of an address.                                          *)

(* A function of 1 .. n that only grows there is the identity.             *)
LEMMA Growing ==
  ASSUME NEW n \in Nat, NEW f \in [1 .. n -> 1 .. n],
         \A i, j \in 1 .. n : i < j => f[i] < f[j]
  PROVE  \A i \in 1 .. n : f[i] = i
<1> DEFINE Low == {k \in 0 .. n : k = 0 \/ f[k] >= k}
           High == {k \in 0 .. n : k = n \/ f[n - k] <= n - k}
<1>1. ASSUME NEW k \in 0 .. n - 1, k \in Low PROVE k + 1 \in Low
  <2>1. k + 1 \in 1 .. n /\ f[k + 1] \in 1 .. n /\ (k # 0 => k \in 1 .. n /\ f[k] \in 1 .. n)
    OBVIOUS
  <2>2. k # 0 => f[k] >= k /\ f[k] < f[k + 1]
    BY <1>1, <2>1
  <2>3. f[k + 1] >= k + 1
    BY <2>1, <2>2
  <2>4. QED  BY <2>1, <2>3
<1>2. ASSUME NEW k \in 0 .. n - 1, k \in High PROVE k + 1 \in High
  <2>1. CASE k + 1 = n
    BY <2>1
  <2>2. CASE k + 1 # n
    <3> DEFINE a == n - k  b == n - (k + 1)
    <3>1. a \in 1 .. n /\ b \in 1 .. n /\ b = a - 1 /\ b < a
      BY <2>2
    <3>2. f[a] <= a
      BY <1>2
    <3> HIDE DEF a, b
    <3>3. f[b] < f[a] /\ f[a] \in 1 .. n /\ f[b] \in 1 .. n
      BY <3>1
    <3>4. f[b] <= b
      BY <3>1, <3>2, <3>3
    <3>5. QED  BY <3>4 DEF b
  <2>3. QED  BY <2>1, <2>2
<1>3. 0 \in Low /\ 0 \in High
  <2>1. n # 0 => f[n - 0] \in 1 .. n /\ n - 0 = n
    OBVIOUS
  <2>2. QED  BY <2>1
<1>4. \A k \in 0 .. n - 1 : (k \in Low => k + 1 \in Low) /\ (k \in High => k + 1 \in High)
  BY <1>1, <1>2
<1> HIDE DEF Low, High
<1>5. \A k \in 0 .. n : k \in Low /\ k \in High
  BY <1>3, <1>4, Collapsing!Upto
<1>6. ASSUME NEW i \in 1 .. n PROVE f[i] = i
  <2>1. i \in 0 .. n /\ n - i \in 0 .. n /\ n - i # n /\ n - (n - i) = i
    OBVIOUS
  <2>2. f[i] >= i
    BY <1>5, <2>1 DEF Low
  <2>3. f[i] <= i
    BY <1>5, <2>1 DEF High
  <2>4. f[i] \in 1 .. n
    OBVIOUS
  <2>5. QED  BY <2>2, <2>3, <2>4
<1>7. QED  BY <1>6

(* The keys of a query in order, and what Place counts.                    *)
Ordered(query) == \A i, j \in DOMAIN query : i < j => query[i].key <= query[j].key

Behind(query, i) == {j \in DOMAIN query : \/ query[j].key < query[i].key
                                          \/ query[j].key = query[i].key /\ j <= i}

(* Sorting: every place is some parameter's, and the keys are in order.    *)
LEMMA Sorted ==
  ASSUME NEW n \in Nat, NEW query, DOMAIN query = 1 .. n,
         \A i \in 1 .. n : query[i].key \in Nat
  PROVE  DOMAIN SortedQuery(query) = 1 .. n /\ Ordered(SortedQuery(query))
         /\ SortedQuery(query) = [k \in 1 .. n |-> SortedQuery(query)[k]]
         /\ \A k \in 1 .. n : SortedQuery(query)[k].key \in Nat
<1> DEFINE place == [i \in 1 .. n |-> Place(query, i)]
<1>1. ASSUME NEW i \in 1 .. n
      PROVE  /\ i \in Behind(query, i) /\ Behind(query, i) \subseteq 1 .. n
             /\ IsFiniteSet(Behind(query, i)) /\ place[i] = Cardinality(Behind(query, i))
             /\ place[i] \in 1 .. n
  <2> DEFINE B == Behind(query, i)
  <2>1. i \in B /\ B \in SUBSET (1 .. n)
    BY DEF Behind
  <2>2. place[i] = Cardinality(B)
    BY DEF Place, Behind
  <2>3. IsFiniteSet(1 .. n) /\ Cardinality(1 .. n) = n
    BY FS_Interval
  <2> HIDE DEF B, place
  <2>4. IsFiniteSet(B) /\ Cardinality(B) <= n /\ Cardinality(B) \in Nat
    <3> DEFINE N == 1 .. n
    <3>1. B \in SUBSET N /\ IsFiniteSet(N) /\ Cardinality(N) = n
      BY <2>1, <2>3
    <3> HIDE DEF N
    <3>2. IsFiniteSet(B) /\ Cardinality(B) <= Cardinality(N)
      BY <3>1, FS_Subset
    <3>3. QED  BY <3>1, <3>2, FS_CardinalityType
  <2>5. Cardinality(B) # 0
    BY <2>1, <2>4, FS_EmptySet
  <2>6. QED  BY <2>1, <2>2, <2>4, <2>5 DEF B
<1>2. ASSUME NEW i \in 1 .. n, NEW j \in 1 .. n, j \in Behind(query, i), i # j
      PROVE  place[j] < place[i]
  <2> DEFINE B == Behind(query, i)  C == Behind(query, j)
  <2>1. C \subseteq B /\ i \notin C /\ i \in B
    BY <1>2 DEF Behind
  <2>2. IsFiniteSet(B) /\ Cardinality(B) = place[i] /\ Cardinality(C) = place[j]
        /\ place[i] \in Nat /\ place[j] \in Nat
    BY <1>1
  <2> HIDE DEF B, C, place
  <2>3. Cardinality(C) <= Cardinality(B) /\ (Cardinality(B) = Cardinality(C) => B = C)
    BY <2>1, <2>2, FS_Subset
  <2>4. QED  BY <2>1, <2>2, <2>3
<1>3. ASSUME NEW i \in 1 .. n, NEW j \in 1 .. n, i # j
      PROVE  j \in Behind(query, i) \/ i \in Behind(query, j)
  BY <1>3 DEF Behind
<1>4. place \in Injection(1 .. n, 1 .. n)
  <2>1. place \in [1 .. n -> 1 .. n]
    BY <1>1
  <2>2. ASSUME NEW i \in 1 .. n, NEW j \in 1 .. n, place[i] = place[j] PROVE i = j
    <3>1. place[i] \in Nat /\ place[j] \in Nat
      BY <2>1
    <3> HIDE DEF place
    <3>2. QED  BY <1>2, <1>3, <2>2, <3>1
  <2> HIDE DEF place
  <2>3. QED  BY <2>1, <2>2 DEF Injection, IsInjective
<1>5. \A k \in 1 .. n : \E i \in 1 .. n : place[i] = k
  <2> HIDE DEF place
  <2>1. place \in Surjection(1 .. n, 1 .. n)
    BY <1>4, FS_Interval, FS_Injection
  <2>2. QED  BY <2>1 DEF Surjection
<1> DEFINE at(k) == CHOOSE i \in 1 .. n : Place(query, i) = k
<1>6. ASSUME NEW k \in 1 .. n PROVE at(k) \in 1 .. n /\ place[at(k)] = k
  <2>1. \E i \in 1 .. n : Place(query, i) = k
    BY <1>5
  <2>2. at(k) \in 1 .. n /\ Place(query, at(k)) = k
    BY <2>1, Zenon
  <2>3. QED  BY <2>2
<1>7. SortedQuery(query) = [k \in 1 .. n |-> query[at(k)]]
  BY DEF SortedQuery
<1> HIDE DEF place, at
<1>8. ASSUME NEW k \in 1 .. n, NEW l \in 1 .. n, k < l
      PROVE  query[at(k)].key <= query[at(l)].key
  <2> DEFINE i == at(k)  j == at(l)
  <2>1. i \in 1 .. n /\ j \in 1 .. n /\ place[i] = k /\ place[j] = l
    BY <1>6
  <2> HIDE DEF i, j
  <2>2. i # j /\ ~(place[j] < place[i])
    BY <1>8, <2>1
  <2>3. j \notin Behind(query, i)
    BY <1>2, <2>1, <2>2
  <2>4. query[i].key \in Nat /\ query[j].key \in Nat
    BY <2>1
  <2>5. query[i].key <= query[j].key
    BY <2>1, <2>3, <2>4 DEF Behind
  <2>6. QED  BY <2>5 DEF i, j
<1>9. \A k \in 1 .. n : query[at(k)].key \in Nat
  BY <1>6
<1> DEFINE s == SortedQuery(query)
<1>10. DOMAIN s = 1 .. n /\ s = [k \in 1 .. n |-> s[k]] /\ \A k \in 1 .. n : s[k] = query[at(k)]
  BY <1>7
<1> HIDE DEF s
<1>11. Ordered(s) /\ \A k \in 1 .. n : s[k].key \in Nat
  BY <1>8, <1>9, <1>10 DEF Ordered
<1>12. QED  BY <1>10, <1>11 DEF s

(* Two queries in order that say the same are the same.                    *)
LEMMA OneOrder ==
  ASSUME NEW n \in Nat, NEW m \in Nat, NEW s, NEW t,
         s = [i \in 1 .. n |-> s[i]], t = [i \in 1 .. m |-> t[i]],
         \A i \in 1 .. n : s[i].key \in Nat, \A i \in 1 .. m : t[i].key \in Nat,
         Ordered(s), Ordered(t), SameQuery(s, t)
  PROVE  s = t
<1>1. DOMAIN s = 1 .. n /\ DOMAIN t = 1 .. n /\ n = m
  <2>1. DOMAIN s = 1 .. n /\ DOMAIN t = 1 .. m
    OBVIOUS
  <2>2. Len(s) = n /\ Len(t) = m
    OBVIOUS
  <2>3. QED  BY <2>1, <2>2 DEF SameQuery
<1> PICK f \in [1 .. n -> 1 .. n] :
      /\ \A i \in 1 .. n : t[f[i]] = s[i]
      /\ \A i, j \in 1 .. n : i < j => f[i] # f[j] /\ (s[i].key = s[j].key => f[i] < f[j])
  BY <1>1 DEF SameQuery
<1>2. ASSUME NEW i \in 1 .. n, NEW j \in 1 .. n, i < j PROVE f[i] < f[j]
  <2>1. f[i] \in 1 .. n /\ f[j] \in 1 .. n /\ f[i] # f[j]
    BY <1>2
  <2>2. s[i].key <= s[j].key /\ s[i].key \in Nat /\ s[j].key \in Nat
    BY <1>1, <1>2 DEF Ordered
  <2>3. f[j] < f[i] => t[f[j]].key <= t[f[i]].key
    BY <1>1, <2>1 DEF Ordered
  <2>4. f[j] < f[i] => s[j].key <= s[i].key
    BY <2>3
  <2>5. QED  BY <1>2, <2>1, <2>2, <2>4
<1>3. \A i \in 1 .. n : f[i] = i
  BY <1>2, Growing
<1>4. \A i \in 1 .. n : s[i] = t[i]
  BY <1>3
<1>5. s = [i \in 1 .. n |-> s[i]] /\ t = [i \in 1 .. n |-> t[i]]
  BY <1>1
<1>6. [i \in 1 .. n |-> s[i]] = [i \in 1 .. n |-> t[i]]
  BY <1>4
<1>7. QED  BY <1>5, <1>6, Zenon

(* No slash behind a slash.                                                *)
Single(path) == \A i \in DOMAIN path : i # 1 => <<path[i - 1], path[i]>> # <<"/", "/">>

(* Collapsing leaves such a path, of the characters there were.            *)
LEMMA Collapsed ==
  ASSUME NEW n \in Nat, NEW path, DOMAIN path = 1 .. n, NEW S, \A i \in 1 .. n : path[i] \in S
  PROVE  CollapseSlashes(path) \in Seq(S) /\ Single(CollapseSlashes(path))
<1>1. CollapseSlashes(path) = Collapsing!Folded(<<>>, path)
  BY Zenon DEF CollapseSlashes, Collapsing!Folded, FoldLeft, Collapsing!FoldLeft, MapThenFoldSet,
               Collapsing!MapThenFoldSet, Max, Collapsing!Max
<1>2. PICK f : Collapsing!Trace(f, <<>>, path, n) /\ CollapseSlashes(path) = f[n]
  BY <1>1, Collapsing!Unfold
<1> DEFINE Good(k) == f[k] \in Seq(S) /\ Single(f[k])
           T == {k \in 0 .. n : Good(k)}
<1>3. 0 \in T
  <2>1. f[0] = <<>> /\ DOMAIN f[0] = {}
    BY <1>2 DEF Collapsing!Trace
  <2>2. Good(0)
    BY <2>1 DEF Single
  <2>3. QED  BY <2>2
<1>4. ASSUME NEW k \in 0 .. n - 1, k \in T PROVE k + 1 \in T
  <2>1. f[k + 1] = Collapse(f[k], path[k + 1]) /\ k + 1 \in 1 .. n /\ Good(k)
    BY <1>2, <1>4 DEF Collapsing!Trace
  <2> DEFINE m1 == k + 1  before == f[k]  after == f[k + 1]  c == path[k + 1]
  <2>2. before \in Seq(S) /\ Single(before) /\ c \in S
    BY <2>1
  <2>3. after = Collapse(before, c)
    BY <2>1
  <2> HIDE DEF before, after, c
  <2>4. CASE after = before
    BY <2>1, <2>2, <2>4 DEF after
  <2>5. CASE after = Append(before, c) /\ (c # "/" \/ before = <<>> \/ Last(before) # "/")
    <3>1. /\ after \in Seq(S) /\ Len(before) \in Nat /\ DOMAIN before = 1 .. Len(before)
          /\ DOMAIN after = 1 .. Len(before) + 1 /\ after[Len(before) + 1] = c
          /\ \A i \in 1 .. Len(before) : after[i] = before[i]
          /\ before = <<>> <=> Len(before) = 0
      BY <2>2, <2>5
    <3>2. ASSUME NEW i \in DOMAIN after, i # 1 PROVE <<after[i - 1], after[i]>> # <<"/", "/">>
      <4>1. i - 1 \in 1 .. Len(before) /\ after[i - 1] = before[i - 1]
        BY <3>1, <3>2
      <4>2. CASE i \in 1 .. Len(before)
        BY <2>2, <3>1, <3>2, <4>1, <4>2 DEF Single
      <4>3. CASE i = Len(before) + 1
        <5>1. i - 1 = Len(before) /\ before # <<>> /\ after[i] = c
          BY <3>1, <4>1, <4>3
        <5>2. c # "/" \/ before[i - 1] # "/"
          BY <2>5, <5>1 DEF Last
        <5>3. QED  BY <4>1, <5>1, <5>2
      <4>4. QED  BY <3>1, <4>2, <4>3
    <3>3. Single(after)
      BY <3>2 DEF Single
    <3>4. QED  BY <2>1, <3>1, <3>3 DEF after
  <2>6. QED  BY <2>3, <2>4, <2>5 DEF Collapse
<1>5. n \in T
  <2>1. \A k \in 0 .. n - 1 : k \in T => k + 1 \in T
    BY <1>4
  <2> HIDE DEF T
  <2>2. n \in 0 .. n /\ \A k \in 0 .. n : k \in T
    BY <1>3, <2>1, Collapsing!Upto
  <2>3. QED  BY <2>2
<1>6. QED  BY <1>2, <1>5

(* A path with nothing to decode and nothing to collapse.                  *)
NormalPath(path) ==
  /\ path \in Seq(Range(path)) /\ Single(path)
  /\ \A i \in DOMAIN path : path[i] \notin DOMAIN Unreserved

(* normalizeUrl's paths are of this kind.                                  *)
LEMMA PathNormal ==
  ASSUME NEW path, path \in Seq(Range(path))
  PROVE  NormalPath(CollapseSlashes(NormalizePercentEncoding(path)))
<1> DEFINE decoded == NormalizePercentEncoding(path)
           S == (Range(path) \cup Range(Unreserved)) \ DOMAIN Unreserved
           out == CollapseSlashes(decoded)
<1>1. Len(path) \in Nat /\ DOMAIN decoded = 1 .. Len(path)
  BY DEF NormalizePercentEncoding
<1>2. ASSUME NEW i \in 1 .. Len(path) PROVE decoded[i] \in S
  <2>1. path[i] \in Range(path)
    OBVIOUS
  <2>2. decoded[i] = IF path[i] \in DOMAIN Unreserved THEN Unreserved[path[i]] ELSE path[i]
    BY DEF NormalizePercentEncoding
  <2>3. QED  BY <2>1, <2>2, UnreservedAssumption DEF Range
<1> HIDE DEF decoded, S
<1>3. out \in Seq(S) /\ Single(out)
  BY <1>1, <1>2, Collapsed
<1> HIDE DEF out
<1>4. DOMAIN out = 1 .. Len(out) /\ Len(out) \in Nat /\ out = [i \in 1 .. Len(out) |-> out[i]]
      /\ \A i \in DOMAIN out : out[i] \in S
  BY <1>3
<1>5. \A i \in DOMAIN out : out[i] \in Range(out) /\ out[i] \notin DOMAIN Unreserved
  BY <1>4 DEF Range, S
<1>6. out \in Seq(Range(out))
  BY <1>4, <1>5
<1>7. QED  BY <1>3, <1>5, <1>6 DEF NormalPath, out, decoded

(* Of such a path every character stands where it is.                      *)
LEMMA PlainPath ==
  ASSUME NEW path, NormalPath(path)
  PROVE  Plain(path) = {<<i, path[i]>> : i \in 1 .. Len(path)}
<1>1. /\ DOMAIN path = 1 .. Len(path) /\ Len(path) \in Nat
      /\ path = [i \in DOMAIN path |-> path[i]]
  BY DEF NormalPath
<1>2. NormalizePercentEncoding(path) = path
  BY <1>1 DEF NormalizePercentEncoding, NormalPath
<1> DEFINE kept == {i \in DOMAIN path : i = 1 \/ <<path[i - 1], path[i]>> # <<"/", "/">>}
<1>3. kept = 1 .. Len(path)
  BY <1>1 DEF NormalPath, Single
<1>4. Plain(path) = {<<Cardinality({j \in kept : j <= i}), path[i]>> : i \in kept}
  BY <1>2 DEF Plain
<1> HIDE DEF kept
<1>5. ASSUME NEW i \in kept PROVE Cardinality({j \in kept : j <= i}) = i
  <2>1. i \in Nat /\ i >= 1 /\ {j \in kept : j <= i} = 1 .. i
    BY <1>1, <1>3
  <2>2. Cardinality(1 .. i) = i
    BY <2>1, FS_Interval
  <2>3. QED  BY <2>1, <2>2
<1>6. QED  BY <1>3, <1>4, <1>5

(* Two such paths that a server does not tell apart are one.               *)
LEMMA OnePath ==
  ASSUME NEW p, NEW q, NormalPath(p), NormalPath(q), Plain(p) = Plain(q)
  PROVE  p = q
<1> DEFINE Cells(path) == {<<i, path[i]>> : i \in 1 .. Len(path)}
<1>1. Cells(p) = Cells(q)
  BY PlainPath
<1>2. /\ Len(p) \in Nat /\ DOMAIN p = 1 .. Len(p) /\ p = [i \in 1 .. Len(p) |-> p[i]]
      /\ Len(q) \in Nat /\ DOMAIN q = 1 .. Len(q) /\ q = [i \in 1 .. Len(q) |-> q[i]]
  BY DEF NormalPath
<1>3. ASSUME NEW i \in 1 .. Len(p) PROVE i \in 1 .. Len(q) /\ p[i] = q[i]
  <2>1. <<i, p[i]>> \in Cells(q)
    BY <1>1
  <2>2. PICK j \in 1 .. Len(q) : <<i, p[i]>> = <<j, q[j]>>
    BY <2>1
  <2>3. QED  BY <2>2
<1>4. ASSUME NEW i \in 1 .. Len(q) PROVE i \in 1 .. Len(p)
  <2>1. <<i, q[i]>> \in Cells(p)
    BY <1>1
  <2>2. PICK j \in 1 .. Len(p) : <<i, q[i]>> = <<j, p[j]>>
    BY <2>1
  <2>3. QED  BY <2>2
<1> HIDE DEF Cells
<1>5. 1 .. Len(p) = 1 .. Len(q)
  BY <1>3, <1>4
<1>6. QED  BY <1>2, <1>3, <1>5

(* The parts of an address.                                                *)
Fields == {"secure", "host", "port", "path", "query", "fragment"}

(* An address as normalizeUrl leaves it.                                   *)
Normal(url) ==
  /\ url = [field \in Fields |-> url[field]]
  /\ url.fragment = FALSE
  /\ url.port # (IF url.secure THEN 443 ELSE 80)
  /\ NormalPath(url.path)
  /\ \E n \in Nat : /\ url.query = [i \in 1 .. n |-> url.query[i]]
                    /\ \A i \in 1 .. n : url.query[i].key \in Nat
  /\ Ordered(url.query)

(* normalizeUrl gives it that form.                                        *)
LEMMA NormalizedNormal ==
  ASSUME NEW raw \in Locs PROVE Normal(NormalizeUrl(raw))
<1> DEFINE port == IF raw.port = (IF raw.secure THEN 443 ELSE 80) THEN DEFAULT_PORT ELSE raw.port
           path == CollapseSlashes(NormalizePercentEncoding(raw.path))
           query == SortedQuery(raw.query)
           url == [[raw EXCEPT !.fragment = FALSE, !.port = port, !.path = path] EXCEPT !.query = query]
<1>1. /\ raw # None /\ DOMAIN raw = Fields
      /\ raw.path \in Seq(Range(raw.path)) /\ raw.query \in Seq(Range(raw.query))
      /\ \A param \in Range(raw.query) : param.key \in Nat
  BY SiteAssumption DEF Locs, Fields
<1>2. NormalizeUrl(raw) = url
  BY <1>1 DEF NormalizeUrl, NormalizedAddress, ParsedPort
<1>3. NormalPath(path)
  BY <1>1, PathNormal
<1>4. port # (IF raw.secure THEN 443 ELSE 80)
  BY DEF DEFAULT_PORT
<1>5. PICK n \in Nat : DOMAIN raw.query = 1 .. n /\ \A i \in 1 .. n : raw.query[i].key \in Nat
  <2>1. Len(raw.query) \in Nat /\ DOMAIN raw.query = 1 .. Len(raw.query)
    BY <1>1
  <2>2. \A i \in 1 .. Len(raw.query) : raw.query[i] \in Range(raw.query)
    BY <1>1, <2>1
  <2>3. QED  BY <1>1, <2>1, <2>2
<1>6. /\ query = [i \in 1 .. n |-> query[i]] /\ Ordered(query)
      /\ \A i \in 1 .. n : query[i].key \in Nat
  BY <1>5, Sorted
<1> HIDE DEF port, path, query
<1>7. /\ url = [field \in Fields |-> url[field]]
      /\ url.fragment = FALSE /\ url.port = port /\ url.path = path /\ url.query = query
      /\ url.secure = raw.secure
  BY <1>1 DEF Fields
<1> HIDE DEF url
<1>8. QED  BY <1>2, <1>3, <1>4, <1>6, <1>7 DEF Normal

(* Two such addresses of one document are one.                             *)
LEMMA OneAddress ==
  ASSUME NEW u, NEW v, Normal(u), Normal(v), SameAddress(u, v)
  PROVE  u = v
<1>1. u.secure = v.secure /\ u.host = v.host /\ u.fragment = v.fragment
  BY DEF SameAddress, Normal
<1>2. u.port = v.port
  BY DEF SameAddress, Normal, Port, DEFAULT_PORT
<1>3. u.path = v.path
  BY OnePath DEF SameAddress, Normal
<1>4. u.query = v.query
  <2> DEFINE s == u.query  t == v.query
  <2>1. PICK n \in Nat : s = [i \in 1 .. n |-> s[i]] /\ \A i \in 1 .. n : s[i].key \in Nat
    BY DEF Normal
  <2>2. PICK m \in Nat : t = [i \in 1 .. m |-> t[i]] /\ \A i \in 1 .. m : t[i].key \in Nat
    BY DEF Normal
  <2>3. SameQuery(s, t) /\ Ordered(s) /\ Ordered(t)
    BY DEF SameAddress, Normal
  <2> HIDE DEF s, t
  <2>4. s = t
    BY <2>1, <2>2, <2>3, OneOrder
  <2>5. QED  BY <2>4 DEF s, t
<1>5. u = [field \in Fields |-> u[field]] /\ v = [field \in Fields |-> v[field]]
  BY DEF Normal
<1>6. \A field \in Fields : u[field] = v[field]
  BY <1>1, <1>2, <1>3, <1>4 DEF Fields
<1>7. QED  BY <1>5, <1>6

-----------------------------------------------------------------------------
(* What a source lists, and its seeds.                                     *)

(* normalizeUrl leaves the scheme and the host alone, and a port that it   *)
(* has normalized.                                                         *)
LEMMA Normalized ==
  ASSUME NEW raw \in Locs
  PROVE  /\ NormalizeUrl(raw) \in DOMAIN Site /\ NormalizeUrl(raw).host = raw.host
         /\ NormalizedAddress(raw).secure = raw.secure /\ NormalizedAddress(raw).host = raw.host
         /\ SameOrigin(raw) => SameOrigin(NormalizeUrl(raw)) /\ raw.host = Origin.host
<1> DEFINE port(a) == IF a.port = (IF a.secure THEN 443 ELSE 80) THEN DEFAULT_PORT ELSE a.port
           path(a) == CollapseSlashes(NormalizePercentEncoding(a.path))
           Address(a) == [a EXCEPT !.fragment = FALSE, !.port = port(a), !.path = path(a)]
           url == [Address(raw) EXCEPT !.query = SortedQuery(raw.query)]
           keys == {"secure", "host", "port", "path", "query", "fragment"}
<1>1. DOMAIN raw = keys /\ raw # None /\ NormalizeUrl(raw) \in DOMAIN Site
  BY SiteAssumption DEF Locs
<1>2. NormalizeUrl(raw) = url
  BY <1>1 DEF NormalizeUrl, NormalizedAddress, ParsedPort
<1> HIDE DEF port, path
<1>3. ASSUME NEW a, DOMAIN a = keys
      PROVE  DOMAIN Address(a) = keys /\ Address(a).host = a.host /\ Address(a).secure = a.secure
             /\ Address(a).port = port(a)
  BY <1>3
<1>4. /\ DOMAIN url = keys /\ url.host = raw.host /\ url.secure = raw.secure
      /\ url.port = port(raw)
  BY <1>1, <1>3
<1> HIDE DEF url
<1>5. port(url) = port(raw)
  BY <1>4 DEF port, DEFAULT_PORT
<1>6. \A a : DOMAIN a = keys =>
        (SameOrigin(a) <=> /\ a.secure = Origin.secure /\ a.host = Origin.host
                           /\ port(a) = NormalizedAddress(Origin).port)
  <2>1. ASSUME NEW a PROVE NormalizedAddress(a) = Address(a)
    BY DEF NormalizedAddress, ParsedPort, port, path
  <2> HIDE DEF Address
  <2>2. QED  BY <1>3, <2>1 DEF SameOrigin
<1>7. NormalizedAddress(raw) = Address(raw)
  BY DEF NormalizedAddress, ParsedPort, port, path
<1>8. Address(raw).secure = raw.secure /\ Address(raw).host = raw.host
  BY <1>1, <1>3
<1> HIDE DEF Address
<1>9. QED  BY <1>1, <1>2, <1>4, <1>5, <1>6, <1>7, <1>8

(* Every address answers.                                                  *)
LEMMA AddressesAnswer == Addresses \subseteq DOMAIN Site
BY Normalized DEF Addresses

SeedFrom(seed, raws, n) == \E m \in 1 .. n : raws[m] # None /\ seed.url = NormalizeUrl(raws[m])

(* The seeds of a list: on the website if they permit discovery.           *)
LEMMA SeedsType ==
  ASSUME NEW n \in Nat, NEW raws, DOMAIN raws = 1 .. n, NEW flag \in BOOLEAN,
         \A i \in 1 .. n : raws[i] \in Raws \cup {None},
         flag => \A i \in 1 .. n : raws[i] # None => SameOrigin(raws[i])
  PROVE  /\ SeedsOf(raws, flag) \in Seq(Seeds) /\ Len(SeedsOf(raws, flag)) <= n
         /\ \A seed \in Range(SeedsOf(raws, flag)) : SeedFrom(seed, raws, n)
<1> DEFINE normal == [i \in DOMAIN raws |-> NormalizeUrl(raws[i])]
           urls == Present(normal)  found == SeedsOf(raws, flag)
<1>1. ASSUME NEW i \in 1 .. n
      PROVE  normal[i] \in Addresses \cup {None} /\ (raws[i] = None => normal[i] = None)
  <2>1. CASE raws[i] = None
    BY <2>1 DEF NormalizeUrl
  <2>2. CASE raws[i] # None
    <3>1. raws[i] \in Locs
      BY <2>2 DEF Locs
    <3>2. QED  BY <2>2, <3>1 DEF Addresses
  <2>3. QED  BY <2>1, <2>2
<1>2. DOMAIN normal = 1 .. n /\ \A i \in 1 .. n : normal[i] = NormalizeUrl(raws[i])
  OBVIOUS
<1> HIDE DEF normal
<1>3. /\ urls \in Seq(Addresses \ {None}) /\ Len(urls) <= n
      /\ \A i \in DOMAIN urls : \E m \in 1 .. n : urls[i] = normal[m]
  <2> DEFINE S == Addresses
  <2>1. \A i \in 1 .. n : normal[i] \in S \cup {None}
    BY <1>1
  <2> HIDE DEF S
  <2>2. Left(urls, normal, n, S)
    BY <1>2, <2>1, PresentElements
  <2>3. QED  BY <2>2 DEF S, Left
<1>4. found = [i \in DOMAIN urls |-> Seed(urls[i], flag)]
  BY DEF SeedsOf, NormalizeAll, normal
<1>5. /\ DOMAIN urls = 1 .. Len(urls) /\ Len(urls) \in Nat
      /\ \A i \in DOMAIN urls : urls[i] \in Addresses \ {None}
  <2> HIDE DEF urls
  <2>1. QED  BY <1>3
<1> HIDE DEF urls, found
<1>6. ASSUME NEW i \in DOMAIN urls
      PROVE  /\ Seed(urls[i], flag) \in Seeds
             /\ \E m \in 1 .. n : raws[m] # None /\ Seed(urls[i], flag).url = NormalizeUrl(raws[m])
  <2>1. PICK m \in 1 .. n : urls[i] = normal[m]
    BY <1>3
  <2>2. urls[i] # None /\ urls[i] \in Addresses
    BY <1>5
  <2>3. raws[m] # None /\ urls[i] = NormalizeUrl(raws[m])
    BY <1>1, <1>2, <2>1, <2>2
  <2>4. raws[m] \in Locs
    BY <2>3 DEF Locs
  <2>5. flag => urls[i].host = Origin.host
    BY <2>3, <2>4, Normalized
  <2>6. QED  BY <2>2, <2>3, <2>5 DEF Seed, Seeds
<1>7. /\ DOMAIN found = 1 .. Len(urls) /\ \A i \in 1 .. Len(urls) : found[i] = Seed(urls[i], flag)
      /\ found \in Seq(Seeds) /\ Len(found) = Len(urls)
  BY <1>4, <1>5, <1>6
<1>8. \A seed \in Range(found) : SeedFrom(seed, raws, n)
  BY <1>5, <1>6, <1>7 DEF Range, SeedFrom
<1>9. QED  BY <1>3, <1>7, <1>8 DEF found

(* The sources that are resolved are active.                               *)
LEMMA ActiveRows ==
  ASSUME NEW rows \in Seq(GoodRows)
  PROVE  Active(rows) \in Seq(GoodRows) /\ \A i \in DOMAIN Active(rows) : Active(rows)[i].active
<1> DEFINE live == [i \in DOMAIN rows |-> IF rows[i].active THEN rows[i] ELSE None]
           S == {row \in GoodRows : row.active}
<1>1. PICK n \in Nat : DOMAIN rows = 1 .. n /\ \A i \in 1 .. n : rows[i] \in GoodRows
  <2>1. /\ Len(rows) \in Nat /\ DOMAIN rows = 1 .. Len(rows)
        /\ \A i \in 1 .. Len(rows) : rows[i] \in GoodRows
    OBVIOUS
  <2>2. QED  BY <2>1, Zenon
<1>2. DOMAIN live = 1 .. n /\ \A i \in 1 .. n : live[i] \in S \cup {None}
  BY <1>1
<1> DEFINE active == Present(live)
<1>3. active = Active(rows)
  BY DEF Active
<1> HIDE DEF live
<1>4. active \in Seq(S \ {None})
  <2>1. Left(active, live, n, S)
    BY <1>2, PresentElements
  <2>2. QED  BY <2>1 DEF Left
<1>5. S \ {None} \subseteq GoodRows /\ \A row \in S \ {None} : row.active
  OBVIOUS
<1> DEFINE R == S \ {None}
<1> HIDE DEF active, R, S
<1>6. active \in Seq(R) /\ R \subseteq GoodRows /\ \A row \in R : row.active
  BY <1>4, <1>5 DEF R
<1>7. active \in Seq(GoodRows) /\ \A i \in DOMAIN active : active[i] \in R
  BY <1>6
<1>8. QED  BY <1>3, <1>6, <1>7

-----------------------------------------------------------------------------
(* Editing the sources.                                                    *)

(* Rows that are each well formed.                                         *)
LEMMA GoodRowsFrom ==
  ASSUME NEW rows \in Seq(UrlSources), \A row \in Range(rows) : WellFormed(row)
  PROVE  rows \in Seq(GoodRows)
<1>1. /\ Len(rows) \in Nat /\ DOMAIN rows = 1 .. Len(rows)
      /\ rows = [i \in 1 .. Len(rows) |-> rows[i]]
      /\ \A i \in 1 .. Len(rows) : rows[i] \in UrlSources
  OBVIOUS
<1>2. \A i \in 1 .. Len(rows) : rows[i] \in GoodRows
  BY <1>1 DEF GoodRows, Range
<1>3. QED  BY <1>1, <1>2

(* The files of the rows that have one.                                    *)
LEMMA CsvKeysOf ==
  ASSUME NEW rows, NEW x
  PROVE  x \in CsvKeys(rows) <=> \E i \in DOMAIN rows : rows[i].kind = "csv" /\ x = rows[i].where
BY DEF CsvKeys

(* A row at the front; a file of its own, if it has one.                   *)
LEMMA RowInserted ==
  ASSUME NEW rows \in Seq(GoodRows), OwnFiles(rows), NEW row \in GoodRows,
         row.kind = "csv" => row.where \notin CsvKeys(rows)
  PROVE  /\ <<row>> \o rows \in Seq(GoodRows) /\ OwnFiles(<<row>> \o rows)
         /\ CsvKeys(<<row>> \o rows) \subseteq CsvKeys(rows) \cup {row.where}
         /\ row.kind # "csv" => CsvKeys(<<row>> \o rows) \subseteq CsvKeys(rows)
<1> DEFINE u == <<row>> \o rows
<1>1. /\ u \in Seq(GoodRows) /\ Len(rows) \in Nat
      /\ DOMAIN rows = 1 .. Len(rows) /\ DOMAIN u = 1 .. Len(rows) + 1
      /\ u[1] = row /\ \A i \in 1 .. Len(rows) : u[i + 1] = rows[i]
  OBVIOUS
<1> HIDE DEF u
<1>2. ASSUME NEW i \in DOMAIN u, i # 1 PROVE i - 1 \in DOMAIN rows /\ u[i] = rows[i - 1]
  <2>1. i - 1 \in 1 .. Len(rows) /\ (i - 1) + 1 = i
    BY <1>1, <1>2
  <2>2. QED  BY <1>1, <2>1
<1>3. ASSUME NEW i \in DOMAIN u, i # 1, u[i].kind = "csv" PROVE u[i].where \in CsvKeys(rows)
  BY <1>2, <1>3, CsvKeysOf
<1>4. ASSUME NEW i \in DOMAIN u, NEW j \in DOMAIN u,
             u[i].kind = "csv", u[j].kind = "csv", u[i].where = u[j].where
      PROVE  i = j
  <2>1. CASE i = 1 \/ j = 1
    BY <1>1, <1>3, <1>4, <2>1
  <2>2. CASE i # 1 /\ j # 1
    <3>1. i - 1 = j - 1
      BY <1>2, <1>4, <2>2 DEF OwnFiles
    <3>2. QED  BY <1>1, <3>1
  <2>3. QED  BY <2>1, <2>2
<1>5. ASSUME NEW x \in CsvKeys(u)
      PROVE  x \in CsvKeys(rows) \/ (x = row.where /\ row.kind = "csv")
  <2>1. PICK i \in DOMAIN u : u[i].kind = "csv" /\ x = u[i].where
    BY <1>5, CsvKeysOf
  <2>2. QED  BY <1>1, <1>3, <2>1
<1>6. OwnFiles(u)
  BY <1>4 DEF OwnFiles
<1>7. QED  BY <1>1, <1>5, <1>6 DEF u

(* A row gone, and its file then nobody's.                                 *)
LEMMA RowRemoved ==
  ASSUME NEW rows \in Seq(GoodRows), OwnFiles(rows), NEW m \in DOMAIN rows
  PROVE  /\ RemoveAt(rows, m) \in Seq(GoodRows) /\ OwnFiles(RemoveAt(rows, m))
         /\ CsvKeys(RemoveAt(rows, m)) \subseteq CsvKeys(rows)
         /\ rows[m].kind = "csv" => rows[m].where \notin CsvKeys(RemoveAt(rows, m))
<1> DEFINE u == RemoveAt(rows, m)  p == SubSeq(rows, 1, m - 1)  q == SubSeq(rows, m + 1, Len(rows))
           at(i) == IF i < m THEN i ELSE i + 1
<1>1. Len(rows) \in Nat /\ DOMAIN rows = 1 .. Len(rows) /\ m \in 1 .. Len(rows)
  OBVIOUS
<1>2. /\ p \in Seq(GoodRows) /\ Len(p) = m - 1 /\ \A i \in 1 .. m - 1 : p[i] = rows[i]
  BY <1>1
<1>3. /\ q \in Seq(GoodRows) /\ Len(q) = Len(rows) - m
      /\ \A i \in 1 .. Len(rows) - m : q[i] = rows[m + i]
  BY <1>1
<1>4. u = p \o q
  BY DEF RemoveAt
<1> HIDE DEF u, p, q
<1>5. /\ u \in Seq(GoodRows) /\ Len(u) = Len(rows) - 1 /\ DOMAIN u = 1 .. Len(rows) - 1
      /\ \A i \in 1 .. m - 1 : u[i] = p[i]
      /\ \A i \in 1 .. Len(rows) - m : u[m - 1 + i] = q[i]
  <2>1. /\ u \in Seq(GoodRows) /\ Len(u) = Len(p) + Len(q) /\ DOMAIN u = 1 .. Len(p) + Len(q)
        /\ \A i \in 1 .. Len(p) : u[i] = p[i]
        /\ \A i \in 1 .. Len(q) : u[Len(p) + i] = q[i]
    <3>1. p \in Seq(GoodRows) /\ q \in Seq(GoodRows)
      BY <1>2, <1>3
    <3>2. QED  BY <1>4, <3>1
  <2>2. Len(p) + Len(q) = Len(rows) - 1
    BY <1>1, <1>2, <1>3
  <2>3. QED  BY <1>2, <1>3, <2>1, <2>2
<1>6. ASSUME NEW i \in DOMAIN u PROVE at(i) \in DOMAIN rows /\ at(i) # m /\ u[i] = rows[at(i)]
  <2>1. CASE i < m
    BY <1>1, <1>2, <1>5, <2>1
  <2>2. CASE ~(i < m)
    <3> DEFINE j == i - m + 1
    <3>1. j \in 1 .. Len(rows) - m /\ m - 1 + j = i /\ m + j = i + 1
      BY <1>1, <1>5, <2>2
    <3> HIDE DEF j
    <3>2. u[i] = q[j] /\ q[j] = rows[i + 1]
      BY <1>3, <1>5, <3>1
    <3>3. QED  BY <1>1, <1>5, <2>2, <3>1, <3>2
  <2>3. QED  BY <2>1, <2>2
<1>7. ASSUME NEW i \in DOMAIN u, NEW j \in DOMAIN u, at(i) = at(j) PROVE i = j
  BY <1>1, <1>5, <1>7
<1> HIDE DEF at
<1>8. OwnFiles(u)
  BY <1>6, <1>7 DEF OwnFiles
<1>9. CsvKeys(u) \subseteq CsvKeys(rows)
  BY <1>6, CsvKeysOf
<1>10. ASSUME rows[m].kind = "csv", rows[m].where \in CsvKeys(u) PROVE FALSE
  <2>1. PICK i \in DOMAIN u : u[i].kind = "csv" /\ rows[m].where = u[i].where
    BY <1>10, CsvKeysOf
  <2>2. at(i) = m
    BY <1>6, <1>10, <2>1 DEF OwnFiles
  <2>3. QED  BY <1>6, <2>2
<1>11. QED  BY <1>5, <1>8, <1>9, <1>10 DEF u

(* A row switched on or off.                                               *)
LEMMA RowToggled ==
  ASSUME NEW rows \in Seq(GoodRows), OwnFiles(rows), NEW m \in DOMAIN rows
  PROVE  LET u == [rows EXCEPT ![m].active = ~@] IN
         u \in Seq(GoodRows) /\ OwnFiles(u) /\ CsvKeys(u) = CsvKeys(rows)
<1> DEFINE row == rows[m]  flag == ~row.active  q == [row EXCEPT !.active = flag]
           u == [rows EXCEPT ![m] = q]
<1>1. row \in UrlSources /\ WellFormed(row) /\ flag \in BOOLEAN
  BY DEF GoodRows, UrlSources
<1> HIDE DEF flag
<1>2. q \in UrlSources /\ q.kind = row.kind /\ q.where = row.where /\ q.entries = row.entries
  BY <1>1 DEF UrlSources
<1> HIDE DEF q
<1>3. q \in GoodRows
  BY <1>1, <1>2 DEF GoodRows, WellFormed
<1>4. u \in Seq(GoodRows) /\ DOMAIN u = DOMAIN rows
  BY <1>3
<1>5. \A i \in DOMAIN rows : u[i].kind = rows[i].kind /\ u[i].where = rows[i].where
  BY <1>2
<1> HIDE DEF u
<1>6. OwnFiles(u) /\ CsvKeys(u) = CsvKeys(rows)
  BY <1>4, <1>5 DEF OwnFiles, CsvKeys
<1>7. QED  BY <1>4, <1>6 DEF u, q, flag

(* What the API lets in is a source.                                       *)
LEMMA RowAccepted ==
  ASSUME NEW asked \in Requests, Acceptable(asked), NEW where,
         IF asked.kind = "csv" THEN where \in Keys ELSE where = asked.where
  PROVE  SourceRow(asked, where) \in GoodRows /\ SourceRow(asked, where).kind = asked.kind
         /\ SourceRow(asked, where).where = where
<1> DEFINE row == SourceRow(asked, where)
           entries == IF asked.kind = "csv" THEN asked.entries ELSE Entered(asked.entries)
<1>1. asked.kind \in Kinds /\ asked.entries \in Seq(Entries)
  BY RequestsAssumption
<1>2. Entered(asked.entries) \in Seq(Entries)
  BY <1>1, EnteredType
<1>3. entries \in Seq(Entries)
  BY <1>1, <1>2
<1>4. where \in Keys \cup DOMAIN Documents \cup {None} /\ (asked.kind = "sitemap" => where \in DOMAIN Documents)
  BY RequestsAssumption
<1>5. asked.kind = "manual" => \A u \in Range(entries) : IsHttpUrl(u)
  BY DEF Acceptable, CreateManual
<1>6. asked.kind = "discovery" => \A u \in Range(entries) : IsHttpUrl(u) /\ SameOrigin(u)
  BY DEF Acceptable, CreateDiscovery
<1>7. row = [kind |-> asked.kind, active |-> TRUE, where |-> where, entries |-> entries]
  BY DEF SourceRow
<1> HIDE DEF row, entries
<1>8. row \in UrlSources /\ row.kind = asked.kind /\ row.where = where /\ row.entries = entries
  BY <1>1, <1>3, <1>4, <1>7 DEF UrlSources
<1>9. WellFormed(row)
  BY <1>4, <1>5, <1>6, <1>8 DEF WellFormed
<1>10. QED  BY <1>8, <1>9 DEF GoodRows, row

-----------------------------------------------------------------------------
(* Counting.                                                               *)

(* As many URLs as seeds, unless the seeds repeat one.                     *)
LEMMA UrlsCounted ==
  ASSUME NEW known \in Seq(Seeds)
  PROVE  LET urls == {known[i].url : i \in DOMAIN known} IN
         /\ IsFiniteSet(urls) /\ Cardinality(urls) <= Len(known)
         /\ Distinct(known) => Cardinality(urls) = Len(known)
<1> DEFINE urls == {known[i].url : i \in DOMAIN known}  n == Len(known)
           f == [i \in 1 .. n |-> known[i].url]
<1>1. n \in Nat /\ DOMAIN known = 1 .. n
  OBVIOUS
<1>2. f \in Surjection(1 .. n, urls)
  <2>1. f \in [1 .. n -> urls] /\ \A u \in urls : \E i \in 1 .. n : f[i] = u
    BY <1>1
  <2>2. QED  BY <2>1 DEF Surjection
<1>3. IsFiniteSet(1 .. n) /\ Cardinality(1 .. n) = n
  BY <1>1, FS_Interval
<1>4. Distinct(known) => f \in Injection(1 .. n, urls)
  <2>1. f \in [1 .. n -> urls] /\ (Distinct(known) => \A i, j \in 1 .. n : f[i] = f[j] => i = j)
    BY <1>1 DEF Distinct
  <2>2. QED  BY <2>1 DEF Injection, IsInjective
<1> HIDE DEF f, urls, n
<1>5. IsFiniteSet(urls) /\ Cardinality(urls) <= n /\ (Distinct(known) => Cardinality(urls) = n)
  BY <1>2, <1>3, <1>4, FS_Surjection
<1>6. QED  BY <1>5 DEF urls, n

(* The first of the seeds for a URL.                                       *)
LEMMA FirstSeed ==
  ASSUME NEW known \in Seq(Seeds), NEW u \in {known[i].url : i \in DOMAIN known}
  PROVE  LET first == Min({i \in DOMAIN known : known[i].url = u}) IN
         first \in DOMAIN known /\ known[first].url = u
<1> DEFINE T == {i \in DOMAIN known : known[i].url = u}
<1>1. T \subseteq Nat /\ T # {}
  <2>1. DOMAIN known = 1 .. Len(known) /\ Len(known) \in Nat
    OBVIOUS
  <2>2. QED  BY <2>1
<1>2. Min(T) \in T
  <2> HIDE DEF T
  <2>1. \E x \in T : \A y \in T : x <= y
    BY <1>1, Keeping!Least
  <2>2. QED  BY <2>1, Zenon DEF Min
<1>3. QED  BY <1>2

(* As many jobs as URLs.                                                   *)
LEMMA JobsCounted ==
  ASSUME NEW J, \A j, k \in J : j.url = k.url => j = k, IsFiniteSet({j.url : j \in J})
  PROVE  IsFiniteSet(J) /\ Cardinality(J) = Cardinality({j.url : j \in J})
<1> DEFINE urls == {j.url : j \in J}  f == [j \in J |-> j.url]
<1>1. f \in Injection(J, urls) /\ f \in Surjection(J, urls)
  <2>1. f \in [J -> urls] /\ (\A j, k \in J : f[j] = f[k] => j = k)
    OBVIOUS
  <2>2. \A u \in urls : \E j \in J : f[j] = u
    OBVIOUS
  <2>3. QED  BY <2>1, <2>2 DEF Injection, IsInjective, Surjection
<1> HIDE DEF f, urls
<1>2. IsFiniteSet(J) /\ Cardinality(J) = Cardinality(urls)
  BY <1>1, FS_Injection DEF urls
<1>3. QED  BY <1>2 DEF urls

(* A page's links are finitely many, so are their normal forms.            *)
LEMMA NormalizedFinite ==
  ASSUME NEW L, IsFiniteSet(L) PROVE IsFiniteSet({NormalizeUrl(l) : l \in L})
<1> DEFINE urls == {NormalizeUrl(l) : l \in L}  f == [l \in L |-> NormalizeUrl(l)]
<1>1. f \in Surjection(L, urls)
  <2>1. f \in [L -> urls] /\ \A u \in urls : \E l \in L : f[l] = u
    OBVIOUS
  <2>2. QED  BY <2>1 DEF Surjection
<1> HIDE DEF f, urls
<1>2. IsFiniteSet(urls)
  BY <1>1, FS_Surjection
<1>3. QED  BY <1>2 DEF urls

-----------------------------------------------------------------------------
(* The files: every request leaves those of the listed rows stored.        *)

(* Whatever rows there are at first, their files are stored.               *)
LEMMA FiledInit == Init => Filed
<1> SUFFICES ASSUME Init PROVE Filed
  OBVIOUS
<1>1. table \in Seq(GoodRows) /\ OwnFiles(table)
  <2>1. table \in Tables
    BY DEF Init
  <2>2. table \in Seq(GoodRows)
    BY <2>1, TablesAssumption, GoodRowsFrom
  <2>3. OwnFiles(table)
    BY <2>1, TablesAssumption, Zenon DEF OwnFiles
  <2>4. QED  BY <2>2, <2>3
<1>2. CsvKeys(table) \subseteq Keys
  <2>1. ASSUME NEW i \in DOMAIN table, table[i].kind = "csv" PROVE table[i].where \in Keys
    <3>1. table[i] \in GoodRows
      BY <1>1, <2>1
    <3>2. QED  BY <2>1, <3>1 DEF GoodRows, WellFormed
  <2>2. QED  BY <2>1, CsvKeysOf
<1>3. QED  BY <1>1, <1>2, BoundsAssumption DEF Init, Filed

(* Every edit, and every end of a request, keeps them so.                  *)
LEMMA FiledStep == Filed /\ [Next]_vars => Filed'
<1> SUFFICES ASSUME Filed, [Next]_vars PROVE Filed'
  OBVIOUS
<1>1. /\ table \in Seq(GoodRows) /\ OwnFiles(table)
      /\ files \subseteq Keys /\ CsvKeys(table) \subseteq files
  BY DEF Filed
<1>2. edits < MaxEdits /\ edits' = edits + 1 => edits' \in 0 .. MaxEdits
  BY BoundsAssumption DEF Filed
<1>3. CASE CreateSource
  <2>1. PICK asked \in Requests : /\ asked.kind # "csv" /\ Acceptable(asked)
                                  /\ table' = <<SourceRow(asked, asked.where)>> \o table
    BY <1>3 DEF CreateSource
  <2> DEFINE row == SourceRow(asked, asked.where)
  <2>2. row \in GoodRows /\ row.kind # "csv"
    BY <2>1, RowAccepted
  <2> HIDE DEF row
  <2>3. table' = <<row>> \o table
    BY <2>1 DEF row
  <2>4. table' \in Seq(GoodRows) /\ OwnFiles(table') /\ CsvKeys(table') \subseteq CsvKeys(table)
    BY <1>1, <2>2, <2>3, RowInserted
  <2>5. files' = files /\ request' = request /\ edits' \in 0 .. MaxEdits
    BY <1>2, <1>3 DEF CreateSource, Edit
  <2>6. QED  BY <1>1, <2>4, <2>5 DEF Filed
<1>4. CASE UploadCsv
  <2>1. PICK asked \in Requests, key \in Keys \ files :
          /\ asked.kind = "csv" /\ Acceptable(asked)
          /\ files' = files \cup {key}
          /\ request' = [step |-> "insert", source |-> SourceRow(asked, key)]
    BY <1>4 DEF UploadCsv
  <2> DEFINE row == SourceRow(asked, key)
  <2>2. row \in GoodRows /\ row.kind = "csv" /\ row.where = key
    BY <2>1, RowAccepted
  <2>3. request'.step = "insert" /\ request'.source = row
    BY <2>1
  <2>4. table' = table /\ edits' \in 0 .. MaxEdits
    BY <1>2, <1>4 DEF UploadCsv, Edit
  <2> HIDE DEF row
  <2>5. QED  BY <1>1, <2>1, <2>2, <2>3, <2>4 DEF Filed
<1>5. CASE InsertCsvSource
  <2> DEFINE row == request.source
  <2>1. /\ request # None /\ request.step = "insert" /\ request' = None /\ edits' = edits
        /\ files' = files /\ table' = <<row>> \o table
    BY <1>5 DEF InsertCsvSource, Proceed
  <2>2. /\ row \in GoodRows /\ row.where \in files /\ row.where \notin CsvKeys(table)
    BY <2>1 DEF Filed
  <2> HIDE DEF row
  <2>3. /\ table' \in Seq(GoodRows) /\ OwnFiles(table')
        /\ CsvKeys(table') \subseteq CsvKeys(table) \cup {row.where}
    BY <1>1, <2>1, <2>2, RowInserted
  <2>4. QED  BY <1>1, <2>1, <2>2, <2>3 DEF Filed
<1>6. CASE SetActive
  <2>1. PICK m \in DOMAIN table : table' = [table EXCEPT ![m].active = ~@]
    BY <1>6 DEF SetActive
  <2>2. table' \in Seq(GoodRows) /\ OwnFiles(table') /\ CsvKeys(table') = CsvKeys(table)
    BY <1>1, <2>1, RowToggled
  <2>3. files' = files /\ request' = request /\ edits' \in 0 .. MaxEdits
    BY <1>2, <1>6 DEF SetActive, Edit
  <2>4. QED  BY <1>1, <2>2, <2>3 DEF Filed
<1>7. CASE DeleteSource
  <2>1. PICK m \in DOMAIN table :
          /\ table' = RemoveAt(table, m)
          /\ request' = IF table[m].kind = "csv" THEN [step |-> "unlink", source |-> table[m]] ELSE None
    BY <1>7 DEF DeleteSource
  <2>2. /\ table' \in Seq(GoodRows) /\ OwnFiles(table') /\ CsvKeys(table') \subseteq CsvKeys(table)
        /\ table[m].kind = "csv" => table[m].where \notin CsvKeys(table')
    BY <1>1, <2>1, RowRemoved
  <2>3. files' = files /\ edits' \in 0 .. MaxEdits
    BY <1>2, <1>7 DEF DeleteSource, Edit
  <2>4. table[m] \in GoodRows
    BY <1>1
  <2>5. request' # None => /\ request'.step = "unlink" /\ request'.source = table[m]
                           /\ table[m].kind = "csv"
    BY <2>1
  <2>6. QED  BY <1>1, <2>2, <2>3, <2>4, <2>5 DEF Filed
<1>8. CASE DeleteObject
  <2>1. /\ request # None /\ request.step = "unlink" /\ request' = None /\ edits' = edits
        /\ files' \in {files, files \ {request.source.where}} /\ table' = table
    BY <1>8 DEF DeleteObject, Proceed
  <2>2. request.source.where \notin CsvKeys(table)
    BY <2>1 DEF Filed
  <2>3. files' \subseteq files /\ CsvKeys(table) \subseteq files'
    BY <1>1, <2>1, <2>2
  <2>4. QED  BY <1>1, <2>1, <2>3 DEF Filed
<1>9. CASE LoseRequest
  BY <1>9 DEF LoseRequest, Filed
<1>10. CASE UNCHANGED configured
  BY <1>10 DEF Filed
<1>11. ASSUME StartCrawl \/ Progress \/ UNCHANGED vars PROVE UNCHANGED configured
  BY <1>11 DEF StartCrawl, Progress, ResolveList, StartWalk, WalkSitemap, EndWalk, Resolved,
               Orchestrate, ProcessPage, vars
<1>12. QED
  BY <1>3, <1>4, <1>5, <1>6, <1>7, <1>8, <1>9, <1>10, <1>11 DEF Next, EditSources

-----------------------------------------------------------------------------
(* The resolution: seeds that are on the website if they permit discovery. *)

(* There is nothing to resolve at first.                                   *)
LEMMA ResolvingInit == Init => Resolving
BY DEF Init, Resolving, Distinct

(* Nothing of it changes but the phase and the crawl that it is of.        *)
LEMMA StartResolving == Filed /\ Resolving /\ StartCrawl => Resolving'
<1> SUFFICES ASSUME Filed, Resolving, StartCrawl PROVE Resolving'
  OBVIOUS
<1>1. PICK asked \in Crawls :
        /\ MayStart(asked) /\ crawl' = asked
        /\ sources' = CASE asked.scope = "page" -> <<>>
                        [] asked.scope = "group" ->
                             IF asked.category.sitemap = None THEN <<>>
                             ELSE <<[kind |-> "sitemap", active |-> TRUE, entries |-> <<>>,
                                     where |-> asked.category.sitemap]>>
                        [] asked.scope = "website" -> Active(table)
  BY DEF StartCrawl
<1>2. phase = "idle" /\ phase' = "resolving" /\ walk' = walk /\ walked' = walked /\ seeds' = seeds
  BY DEF StartCrawl
<1>3. asked.scope \in {"page", "group", "website"}
  BY RequestsAssumption
<1>4. sources' \in Seq(GoodRows) /\ \A i \in DOMAIN sources' : sources'[i].active
  <2>1. CASE asked.scope = "page" \/ (asked.scope = "group" /\ asked.category.sitemap = None)
    <3>1. sources' = <<>>
      BY <1>1, <2>1
    <3>2. QED  BY <3>1
  <2>2. CASE asked.scope = "group" /\ asked.category.sitemap # None
    <3> DEFINE row == [kind |-> "sitemap", active |-> TRUE, entries |-> <<>>,
                       where |-> asked.category.sitemap]
    <3>1. sources' = <<row>>
      BY <1>1, <2>2
    <3>2. asked.category.sitemap \in DOMAIN Documents
      BY <2>2, RequestsAssumption
    <3>3. row \in GoodRows /\ row.active
      <4>1. <<>> \in Seq(Entries)
        OBVIOUS
      <4>2. row \in UrlSources
        BY <3>2, <4>1 DEF UrlSources, Kinds
      <4>3. WellFormed(row)
        BY <3>2 DEF WellFormed
      <4>4. QED  BY <4>2, <4>3 DEF GoodRows
    <3> HIDE DEF row
    <3>4. <<row>> \in Seq(GoodRows) /\ \A i \in DOMAIN <<row>> : i = 1 /\ <<row>>[i] = row
      BY <3>3
    <3>5. QED  BY <3>1, <3>3, <3>4
  <2>3. CASE asked.scope = "website"
    <3>1. sources' = Active(table)
      BY <1>1, <2>3
    <3>2. QED  BY <3>1, ActiveRows DEF Filed
  <2>4. QED  BY <1>3, <2>1, <2>2, <2>3
<1>5. walk = None
  BY <1>2 DEF Resolving
<1>6. QED  BY <1>1, <1>2, <1>4, <1>5 DEF Resolving

(* The next of the sources.                                                *)
LEMMA NextSource ==
  ASSUME Resolving, sources # <<>>
  PROVE  /\ Head(sources) \in GoodRows
         /\ Tail(sources) \in Seq(GoodRows) /\ \A i \in DOMAIN Tail(sources) : Tail(sources)[i].active
<1>1. sources \in Seq(GoodRows) /\ \A i \in DOMAIN sources : sources[i].active
  BY DEF Resolving
<1>2. /\ Head(sources) \in GoodRows /\ Tail(sources) \in Seq(GoodRows)
      /\ \A i \in DOMAIN Tail(sources) : i + 1 \in DOMAIN sources /\ Tail(sources)[i] = sources[i + 1]
  BY <1>1
<1>3. QED  BY <1>1, <1>2

(* A list's seeds are merged with those there are.                         *)
LEMMA ResolveListResolving == Resolving /\ ResolveList => Resolving'
<1> SUFFICES ASSUME Resolving, ResolveList PROVE Resolving'
  OBVIOUS
<1> DEFINE source == Head(sources)
<1>1. /\ phase = "resolving" /\ phase' = phase /\ crawl' = crawl /\ walk = None /\ walk' = walk
      /\ walked' = walked /\ sources # <<>> /\ sources' = Tail(sources)
  BY DEF ResolveList
<1>2. source \in GoodRows
  BY <1>1, NextSource
<1>3. PICK n \in Nat : DOMAIN source.entries = 1 .. n /\ \A i \in 1 .. n : source.entries[i] \in Entries
  <2> DEFINE entries == source.entries
  <2>1. entries \in Seq(Entries)
    BY <1>2 DEF GoodRows, UrlSources
  <2> HIDE DEF entries
  <2>2. /\ Len(entries) \in Nat /\ DOMAIN entries = 1 .. Len(entries)
        /\ \A i \in 1 .. Len(entries) : entries[i] \in Entries
    BY <2>1
  <2>3. QED  BY <2>2, Zenon DEF entries
<1>4. \E found \in Seq(Seeds) : seeds' = Merged(seeds, found) \/ seeds' = seeds
  <2>1. CASE /\ source.kind \in {"manual", "discovery"}
             /\ seeds' = Merged(seeds, SeedsOf(source.entries, source.kind = "discovery"))
    <3> DEFINE raws == source.entries  flag == source.kind = "discovery"
    <3>1. \A u \in Range(raws) : IsHttpUrl(u) /\ (flag => SameOrigin(u))
      BY <1>2, <2>1 DEF GoodRows, WellFormed
    <3>2. \A i \in 1 .. n : raws[i] \in Raws \cup {None} /\ (flag => SameOrigin(raws[i]))
      BY <1>3, <3>1 DEF Range, IsHttpUrl, Raws
    <3>3. flag \in BOOLEAN
      OBVIOUS
    <3> HIDE DEF flag
    <3>4. SeedsOf(raws, flag) \in Seq(Seeds)
      BY <1>3, <3>2, <3>3, SeedsType
    <3>5. QED  BY <2>1, <3>4 DEF flag
  <2>2. CASE seeds' = Merged(seeds, SeedsOf(ReadCsvUrls(source), FALSE))
    <3> DEFINE raws == ReadCsvUrls(source)
    <3>1. DOMAIN raws = 1 .. n /\ \A i \in 1 .. n : raws[i] \in Raws \cup {None}
      BY <1>3 DEF ReadCsvUrls, Raws
    <3> HIDE DEF raws
    <3>2. SeedsOf(raws, FALSE) \in Seq(Seeds)
      BY <3>1, SeedsType
    <3>3. QED  BY <2>2, <3>2 DEF raws
  <2>3. CASE seeds' = seeds
    BY <2>3 DEF Resolving
  <2>4. QED  BY <2>1, <2>2, <2>3 DEF ResolveList
<1>5. seeds' \in Seq(Seeds) /\ (Distinct(seeds) => Distinct(seeds'))
  BY <1>4, MergedSeeds DEF Resolving
<1>6. sources' \in Seq(GoodRows) /\ \A i \in DOMAIN sources' : sources'[i].active
  BY <1>1, NextSource
<1>7. QED  BY <1>1, <1>5, <1>6 DEF Resolving

(* A walk begins with its root, of which it knows nothing more.            *)
LEMMA StartWalkResolving == Resolving /\ StartWalk => Resolving'
<1> SUFFICES ASSUME Resolving, StartWalk PROVE Resolving'
  OBVIOUS
<1> DEFINE root == Head(sources).where
           bound == IF crawl.scope = "group" THEN crawl.category.maxUrls ELSE MaxUrls
           w == [root |-> root, agenda |-> <<root>>, visited |-> {}, failed |-> {}, entries |-> <<>>,
                 truncated |-> FALSE, maxUrls |-> bound]
<1>1. /\ phase = "resolving" /\ phase' = phase /\ crawl' = crawl /\ walk = None /\ walk' = w
      /\ walked' = walked /\ sources # <<>> /\ sources' = sources /\ seeds' = seeds
      /\ Head(sources).kind = "sitemap"
  BY DEF StartWalk
<1>2. root \in Sitemaps
  BY <1>1, NextSource DEF GoodRows, WellFormed, Sitemaps
<1>3. bound \in Nat
  <2>1. crawl \in Crawls
    BY <1>1 DEF Resolving
  <2>2. QED  BY <2>1, RequestsAssumption, BoundsAssumption
<1> HIDE DEF root, bound
<1>4. Walked(w)
  <2>1. w \in Walks
    <3>1. <<root>> \in Seq(Sitemaps) /\ <<>> \in Seq(Locs)
      BY <1>2
    <3>2. QED  BY <1>2, <1>3, <3>1 DEF Walks
  <2>2. \A kind : Listed(w, kind) = {}
    BY DEF Listed
  <2>3. Range(w.entries) = {} /\ Range(w.agenda) = {root} /\ IsInjective(w.entries) /\ Len(w.entries) = 0
    BY DEF Range, IsInjective
  <2>4. Known(w) = {root}
    BY <2>2 DEF Known
  <2>5. IsFiniteSet(w.visited) /\ Cardinality(w.visited) = 0
    BY FS_EmptySet
  <2>6. w.visited = {} /\ w.failed = {} /\ w.truncated = FALSE /\ w.maxUrls = bound
    OBVIOUS
  <2> HIDE DEF w
  <2>7. QED  BY <1>3, <2>1, <2>2, <2>3, <2>4, <2>5, <2>6, BoundsAssumption DEF Walked
<1> HIDE DEF w
<1>5. QED  BY <1>1, <1>4 DEF Resolving

(* A walk goes on with what it knows.                                      *)
LEMMA WalkSitemapResolving == Resolving /\ WalkSitemap => Resolving'
<1> SUFFICES ASSUME Resolving, WalkSitemap PROVE Resolving'
  OBVIOUS
<1>1. /\ walk # None /\ walk.agenda # <<>> /\ phase' = phase /\ crawl' = crawl
      /\ walked' = walked /\ sources' = sources /\ seeds' = seeds
  BY DEF WalkSitemap
<1>2. PICK document \in {Documents[Head(walk.agenda)], Unreachable} :
        walk' = Visit([walk EXCEPT !.agenda = Tail(walk.agenda)], Head(walk.agenda), document)
  BY DEF WalkSitemap
<1>3. Walked(walk) /\ phase = "resolving" /\ sources # <<>>
  BY <1>1 DEF Resolving
<1>4. Walked(walk')
  BY <1>1, <1>2, <1>3, VisitWalked
<1>5. QED  BY <1>1, <1>3, <1>4 DEF Resolving

(* The entries of a tree are its seeds.                                    *)
LEMMA EndWalkResolving == Resolving /\ EndWalk => Resolving'
<1> SUFFICES ASSUME Resolving, EndWalk PROVE Resolving'
  OBVIOUS
<1> DEFINE found == SeedsOf(walk.entries, FALSE)
<1>1. /\ walk # None /\ walk.agenda = <<>> /\ phase' = phase /\ crawl' = crawl
      /\ walked' = walk /\ walk' = None /\ sources' = Tail(sources)
      /\ seeds' = IF crawl.scope = "group" THEN found ELSE Merged(seeds, found)
  BY DEF EndWalk
<1>2. Walked(walk) /\ phase = "resolving" /\ sources # <<>>
  BY <1>1 DEF Resolving
<1>3. found \in Seq(Seeds)
  <2> DEFINE entries == walk.entries
  <2>1. entries \in Seq(Locs)
    BY <1>2 DEF Walked, Walks
  <2> HIDE DEF entries
  <2>2. /\ Len(entries) \in Nat /\ DOMAIN entries = 1 .. Len(entries)
        /\ \A i \in 1 .. Len(entries) : entries[i] \in Raws \cup {None}
    BY <2>1 DEF Locs
  <2>3. SeedsOf(entries, FALSE) \in Seq(Seeds)
    BY <2>2, SeedsType
  <2>4. QED  BY <2>3 DEF entries
<1> HIDE DEF found
<1>4. seeds' \in Seq(Seeds) /\ (crawl.scope # "group" => Distinct(seeds'))
  <2>1. CASE crawl.scope = "group"
    BY <1>1, <1>3, <2>1
  <2>2. CASE crawl.scope # "group"
    <3>1. seeds \in Seq(Seeds) /\ Distinct(seeds)
      BY <2>2 DEF Resolving
    <3>2. QED  BY <1>1, <1>3, <2>2, <3>1, MergedSeeds
  <2>3. QED  BY <2>1, <2>2
<1>5. sources' \in Seq(GoodRows) /\ \A i \in DOMAIN sources' : sources'[i].active
  BY <1>1, <1>2, NextSource
<1>6. QED  BY <1>1, <1>2, <1>4, <1>5 DEF Resolving

(* A seed of a list of one address.                                        *)
LEMMA OneSeed ==
  ASSUME NEW raw \in Locs, SameOrigin(raw), NEW flag \in BOOLEAN
  PROVE  LET found == SeedsOf(<<raw>>, flag) IN
         /\ found \in Seq(Seeds) /\ Distinct(found)
         /\ \A i \in DOMAIN found : SameOrigin(found[i].url)
<1> DEFINE raws == <<raw>>  found == SeedsOf(raws, flag)
<1>1. DOMAIN raws = 1 .. 1 /\ raws[1] = raw /\ raw \in Raws \cup {None} /\ SameOrigin(raw)
  BY DEF Locs
<1>2. \A i \in 1 .. 1 : i = 1
  OBVIOUS
<1> HIDE DEF raws
<1>3. /\ found \in Seq(Seeds) /\ Len(found) <= 1
      /\ \A seed \in Range(found) : SeedFrom(seed, raws, 1)
  <2>1. \A i \in 1 .. 1 : raws[i] \in Raws \cup {None} /\ SameOrigin(raws[i])
    BY <1>1, <1>2
  <2>2. QED  BY <1>1, <2>1, SeedsType
<1> HIDE DEF found
<1>4. ASSUME NEW i \in DOMAIN found PROVE SameOrigin(found[i].url)
  <2>1. SeedFrom(found[i], raws, 1)
    BY <1>3 DEF Range
  <2>2. found[i].url = NormalizeUrl(raw)
    BY <1>1, <1>2, <2>1 DEF SeedFrom
  <2>3. QED  BY <2>2, Normalized
<1>5. \A i \in DOMAIN found : i = 1
  BY <1>3
<1>6. Distinct(found)
  BY <1>5 DEF Distinct
<1>7. QED  BY <1>3, <1>4, <1>6 DEF found, raws

(* The homepage is on the website.                                         *)
LEMMA HomeSeed ==
  SeedsOf(<<Origin>>, TRUE) \in Seq(Seeds) /\ Distinct(SeedsOf(<<Origin>>, TRUE))
<1>1. CASE Origin # None
  <2>1. Origin \in Locs
    BY <1>1 DEF Locs, Raws
  <2>2. SameOrigin(Origin)
    BY <2>1, Normalized DEF SameOrigin
  <2>3. QED  BY <2>1, <2>2, OneSeed
<1>2. CASE Origin = None
  <2> DEFINE raws == <<Origin>>  found == SeedsOf(raws, TRUE)
  <2>1. DOMAIN raws = 1 .. 1 /\ \A i \in 1 .. 1 : raws[i] = None
    BY <1>2
  <2> HIDE DEF raws
  <2>2. found \in Seq(Seeds) /\ Len(found) <= 1
    BY <2>1, SeedsType
  <2> HIDE DEF found
  <2>3. \A i, j \in DOMAIN found : i = j
    BY <2>2
  <2>4. found \in Seq(Seeds) /\ Distinct(found)
    BY <2>2, <2>3 DEF Distinct
  <2>5. QED  BY <2>4 DEF found, raws
<1>3. QED  BY <1>1, <1>2

(* What the sources gave, the target, or the homepage.                     *)
LEMMA ResolvedResolving == Resolving /\ Resolved => Resolving'
<1> SUFFICES ASSUME Resolving, Resolved PROVE Resolving'
  OBVIOUS
<1>1. /\ phase = "resolving" /\ walk = None /\ walk' = walk /\ crawl' = crawl
      /\ walked' = walked /\ sources = <<>> /\ sources' = sources
      /\ phase' \in {"orchestrating", "failed", "completed"}
      /\ seeds' = CASE crawl.scope = "page" -> SeedsOf(<<crawl.target>>, FALSE)
                    [] crawl.scope = "website" /\ seeds = <<>> -> SeedsOf(<<Origin>>, TRUE)
                    [] OTHER -> seeds
  BY DEF Resolved
<1>2. crawl \in Crawls /\ MayStart(crawl)
  BY <1>1 DEF Resolving
<1>3. /\ seeds' \in Seq(Seeds)
      /\ crawl.scope # "group" => Distinct(seeds')
      /\ crawl.scope = "page" => \A i \in DOMAIN seeds' : SameOrigin(seeds'[i].url)
  <2>1. CASE crawl.scope = "page"
    <3>1. crawl.target \in Locs /\ SameOrigin(crawl.target)
      BY <1>2, <2>1 DEF MayStart, ResolvePageTarget, IsHttpUrl, Locs, Raws
    <3> DEFINE raw == crawl.target
    <3> HIDE DEF raw
    <3>2. raw \in Locs /\ SameOrigin(raw) /\ seeds' = SeedsOf(<<raw>>, FALSE)
      BY <1>1, <2>1, <3>1 DEF raw
    <3>3. QED  BY <2>1, <3>2, OneSeed
  <2>2. CASE crawl.scope = "website" /\ seeds = <<>>
    BY <1>1, <2>2, HomeSeed
  <2>3. CASE crawl.scope # "page" /\ seeds' = seeds
    BY <2>3, <1>1 DEF Resolving
  <2>4. QED  BY <1>1, <2>1, <2>2, <2>3
<1>4. QED  BY <1>1, <1>2, <1>3 DEF Resolving

(* The other steps leave the resolution as it is.                          *)
LEMMA OtherResolving ==
  Resolving /\ (EditSources \/ Orchestrate \/ ProcessPage \/ UNCHANGED vars) => Resolving'
<1> SUFFICES ASSUME Resolving, EditSources \/ Orchestrate \/ ProcessPage \/ UNCHANGED vars
             PROVE  Resolving'
  OBVIOUS
<1>1. CASE UNCHANGED <<crawl, phase, seeds, sources, walk, walked>>
  BY <1>1 DEF Resolving
<1>2. CASE EditSources
  BY <1>1, <1>2 DEF EditSources, CreateSource, UploadCsv, InsertCsvSource, SetActive, DeleteSource,
                    DeleteObject, LoseRequest, Proceed, Edit
<1>3. CASE Orchestrate
  <2>1. /\ phase = "orchestrating" /\ phase' \in {"failed", "running"}
        /\ UNCHANGED <<crawl, seeds, sources, walk, walked>>
    BY <1>3 DEF Orchestrate
  <2>2. QED  BY <2>1 DEF Resolving
<1>4. CASE ProcessPage
  BY <1>1, <1>4 DEF ProcessPage
<1>5. CASE UNCHANGED vars
  BY <1>1, <1>5 DEF vars
<1>6. QED  BY <1>2, <1>3, <1>4, <1>5

(* Every step keeps the resolution as the invariant says.                  *)
LEMMA ResolvingStep == Filed /\ Resolving /\ [Next]_vars => Resolving'
BY StartResolving, ResolveListResolving, StartWalkResolving, WalkSitemapResolving, EndWalkResolving,
   ResolvedResolving, OtherResolving DEF Next, Progress

-----------------------------------------------------------------------------
(* The jobs: one for each URL that was seen.                               *)

(* There is no job at first.                                               *)
LEMMA QueuedInit == Init => Queued
<1> SUFFICES ASSUME Init PROVE Queued
  OBVIOUS
<1>1. jobs = {} /\ processed = {} /\ seen = {} /\ pages = {} /\ phase = "idle" /\ total = 0
  BY DEF Init
<1>2. QED  BY <1>1, FS_EmptySet DEF Queued, JobUrls

(* Before a crawl runs it has no jobs.                                     *)
LEMMA IdleQueued ==
  Queued /\ phase # "running" /\ phase' # "running" /\ UNCHANGED frontier => Queued'
<1> SUFFICES ASSUME Queued, phase # "running", phase' # "running", UNCHANGED frontier
             PROVE  Queued'
  OBVIOUS
<1>1. jobs = {} /\ processed = {} /\ seen = {} /\ total = 0 /\ IsFiniteSet(jobs)
  BY DEF Queued, JobUrls
<1>2. jobs' = {} /\ processed' = {} /\ seen' = {} /\ total' = 0 /\ IsFiniteSet(jobs')
  BY <1>1
<1>3. QED  BY <1>2 DEF Queued, JobUrls

(* The seeds' jobs.                                                        *)
LEMMA OrchestrateQueued == Resolving /\ Queued /\ Orchestrate => Queued'
<1> SUFFICES ASSUME Resolving, Queued, Orchestrate PROVE Queued'
  OBVIOUS
<1>1. phase = "orchestrating" /\ jobs = {} /\ processed = {}
  BY DEF Queued, Orchestrate
<1>2. CASE phase' = "failed" /\ UNCHANGED frontier
  BY <1>1, <1>2, IdleQueued
<1>3. CASE phase' = "running" /\ ~UNCHANGED frontier
  <2> DEFINE first(u) == Min({i \in DOMAIN seeds : seeds[i].url = u})
             job(u) == [url |-> u, depth |-> 0, discover |-> seeds[first(u)].allowDiscovery]
  <2>1. /\ seen' = SeedUrls /\ pages' = seen' /\ total' = Len(seeds) /\ processed' = {} /\ seeds' = seeds
        /\ jobs' = {job(u) : u \in SeedUrls} /\ SeedUrls' = SeedUrls
    BY <1>1, <1>3 DEF Orchestrate, SeedUrls
  <2>2. seeds \in Seq(Seeds) /\ Len(seeds) \in Nat
    BY DEF Resolving
  <2>3. ASSUME NEW u \in SeedUrls
        PROVE  /\ first(u) \in DOMAIN seeds /\ seeds[first(u)].url = u /\ seeds[first(u)] \in Seeds
    <3>1. u \in {seeds[i].url : i \in DOMAIN seeds}
      BY DEF SeedUrls
    <3>2. first(u) \in DOMAIN seeds /\ seeds[first(u)].url = u
      BY <2>2, <3>1, FirstSeed
    <3>3. QED  BY <2>2, <3>2
  <2> HIDE DEF first
  <2>4. ASSUME NEW u \in SeedUrls
        PROVE  /\ job(u) \in Job /\ job(u).url = u /\ job(u).depth = 0
               /\ job(u).discover => /\ \E i \in DOMAIN seeds : seeds[i].allowDiscovery
                                     /\ u.host = Origin.host
    <3>1. seeds[first(u)] \in Seeds /\ seeds[first(u)].url = u /\ first(u) \in DOMAIN seeds
      BY <2>3
    <3>2. u \in Addresses /\ seeds[first(u)].allowDiscovery \in BOOLEAN
          /\ (seeds[first(u)].allowDiscovery => u.host = Origin.host)
      BY <3>1 DEF Seeds
    <3>3. QED  BY <3>1, <3>2 DEF Job
  <2>5. \A j \in jobs' : /\ j \in Job /\ j.depth = 0 /\ j.url \in SeedUrls /\ j = job(j.url)
                         /\ j.discover => /\ \E i \in DOMAIN seeds : seeds[i].allowDiscovery
                                          /\ j.url.host = Origin.host
    BY <2>1, <2>4
  <2>6. JobUrls' = SeedUrls
    <3>1. \A u \in SeedUrls : job(u) \in jobs' /\ job(u).url = u
      BY <2>1, <2>4
    <3> HIDE DEF job
    <3>2. \A u \in SeedUrls : \E j \in jobs' : j.url = u
      BY <3>1
    <3>3. QED  BY <2>5, <3>2 DEF JobUrls
  <2> HIDE DEF job
  <2>7. \A j, k \in jobs' : j.url = k.url => j = k
    BY <2>5
  <2>8. IsFiniteSet(jobs') /\ Cardinality(jobs') = Cardinality(SeedUrls) /\ Cardinality(SeedUrls) \in Nat
    <3>1. IsFiniteSet(SeedUrls)
      BY <2>2, UrlsCounted DEF SeedUrls
    <3>2. {j.url : j \in jobs'} = SeedUrls
      BY <2>6 DEF JobUrls
    <3>3. QED  BY <2>7, <3>1, <3>2, JobsCounted, FS_CardinalityType
  <2>9. \A j \in jobs' : Reached(j)'
    BY <2>1, <2>5 DEF Reached
  <2>10. total' = Cardinality(jobs') + Len(seeds') - Cardinality(SeedUrls')
    BY <2>1, <2>2, <2>8
  <2>11. jobs' \subseteq Job /\ seen' = JobUrls'
    BY <2>1, <2>5, <2>6
  <2>12. QED  BY <1>3, <2>1, <2>7, <2>8, <2>9, <2>10, <2>11 DEF Queued
<1>4. CASE phase' = "running" /\ UNCHANGED frontier
  <2>1. seen' = SeedUrls /\ total' = Len(seeds) /\ seeds' = seeds /\ jobs' = {} /\ seen = {}
    BY <1>1, <1>4 DEF Orchestrate, Queued, JobUrls
  <2>2. SeedUrls = {} /\ SeedUrls' = {}
    BY <1>4, <2>1 DEF SeedUrls
  <2>3. Len(seeds) = 0
    <3>1. seeds \in Seq(Seeds) /\ \A i \in DOMAIN seeds : FALSE
      BY <2>2 DEF SeedUrls, Resolving
    <3>2. Len(seeds) \in Nat /\ DOMAIN seeds = 1 .. Len(seeds)
      BY <3>1
    <3>3. 1 \notin DOMAIN seeds
      BY <3>1
    <3>4. QED  BY <3>2, <3>3
  <2>4. Len(seeds') = 0 /\ total' = 0 /\ Cardinality({}) = 0 /\ IsFiniteSet({})
    BY <2>1, <2>3, FS_EmptySet
  <2>5. processed' = {} /\ seen' = {}
    BY <1>1, <1>4, <2>1
  <2>6. QED  BY <1>4, <2>1, <2>2, <2>4, <2>5 DEF Queued, JobUrls
<1>5. QED  BY <1>2, <1>3, <1>4 DEF Orchestrate

(* What a page links to is an address that is written somewhere.           *)
LEMMA LinksKnown ==
  ASSUME NEW url \in DOMAIN Site, NEW l \in Site[url].links PROVE l \in Raws
BY DEF Raws

(* A page and the jobs of the links it finds first.                        *)
LEMMA ProcessPageQueued == Resolving /\ Queued /\ ProcessPage => Queued'
<1> SUFFICES ASSUME Resolving, Queued, ProcessPage PROVE Queued'
  OBVIOUS
<1> DEFINE links(job) == {m \in Site[job.url].links \ {None} : InternalLink(m, job, Site[job.url].finalUrl)}
           urls(job) == {NormalizeUrl(l) : l \in links(job)}
           news(job) == IF MayExpand(job) THEN urls(job) \ seen ELSE {}
           next(u, job) == [url |-> u, depth |-> job.depth + 1, discover |-> TRUE]
<1>1. PICK job \in jobs \ processed :
        /\ seen' = seen \cup news(job) /\ pages' = pages \cup news(job)
        /\ total' = total + Cardinality(news(job))
        /\ jobs' = jobs \cup {next(u, job) : u \in news(job)}
        /\ processed' = processed \cup {job}
  BY Zenon DEF ProcessPage
<1>2. phase = "running" /\ phase' = phase /\ seeds' = seeds /\ SeedUrls' = SeedUrls
  BY DEF ProcessPage, SeedUrls
<1>3. job \in Job /\ Reached(job)
  BY DEF Queued
<1> DEFINE fresh == news(job)
<1>4. IsFiniteSet(fresh) /\ fresh \cap seen = {}
  <2>1. IsFiniteSet(links(job))
    <3>1. IsFiniteSet(Site[job.url].links)
      BY <1>3, SiteAssumption, AddressesAnswer DEF Job
    <3>2. QED  BY <3>1, FS_Subset
  <2>2. IsFiniteSet(urls(job))
    BY <2>1, NormalizedFinite
  <2> HIDE DEF urls
  <2>3. CASE MayExpand(job)
    <3>1. fresh = urls(job) \ seen
      BY <2>3
    <3>2. fresh \in SUBSET urls(job)
      BY <3>1
    <3>3. QED  BY <2>2, <3>1, <3>2, FS_Subset
  <2>4. CASE ~MayExpand(job)
    BY <2>4, FS_EmptySet
  <2>5. QED  BY <2>3, <2>4
<1>5. ASSUME NEW u \in fresh
      PROVE  /\ MayExpand(job) /\ u \in Addresses
             /\ RegistrableDomain(u.host) = RegistrableDomain(job.url.host)
  <2>1. MayExpand(job) /\ u \in urls(job)
    BY <1>5
  <2>2. PICK l \in Site[job.url].links \ {None} : /\ InternalLink(l, job, Site[job.url].finalUrl)
                                                  /\ u = NormalizeUrl(l)
    BY <2>1
  <2>3. l \in Locs
    <3>1. job.url \in DOMAIN Site
      BY <1>3, AddressesAnswer DEF Job
    <3>2. l \in Raws
      BY <2>2, <3>1, LinksKnown
    <3>3. QED  BY <2>2, <3>2 DEF Locs
  <2>4. RegistrableDomain(l.host) = RegistrableDomain(job.url.host)
    <3>1. Classify(Filter(job.url), l) = "in_scope"
      BY <2>2 DEF InternalLink
    <3>2. IsInScope(Filter(job.url), l)
      BY <3>1 DEF Classify
    <3>3. Filter(job.url).origin = job.url
      BY DEF Filter
    <3>4. QED  BY <3>2, <3>3 DEF IsInScope
  <2>5. u \in Addresses /\ u.host = l.host
    BY <2>2, <2>3, Normalized DEF Addresses
  <2>6. QED  BY <2>1, <2>4, <2>5
<1> HIDE DEF fresh, news, urls, links
<1>6. /\ seen' = seen \cup fresh /\ pages' = pages \cup fresh /\ total' = total + Cardinality(fresh)
      /\ jobs' = jobs \cup {next(u, job) : u \in fresh} /\ processed' = processed \cup {job}
  BY <1>1 DEF fresh
<1>7. ASSUME NEW u \in fresh
      PROVE  /\ next(u, job) \in Job /\ next(u, job).url = u /\ Reached(next(u, job))
  <2> DEFINE j == next(u, job)
  <2>1. job.depth \in Nat /\ job.discover = TRUE /\ job.depth < MaxDepth
    BY <1>3, <1>5 DEF MayExpand, Job
  <2>2. j.url = u /\ j.depth = job.depth + 1 /\ j.discover = TRUE /\ j \in Job
    BY <1>5, <2>1 DEF Job
  <2>3. j.depth # 0 /\ j.depth <= MaxDepth
    BY <2>1, <2>2, BoundsAssumption
  <2>4. /\ \E i \in DOMAIN seeds : seeds[i].allowDiscovery
        /\ RegistrableDomain(job.url.host) = RegistrableDomain(Origin.host)
    BY <1>3, <2>1 DEF Reached
  <2> HIDE DEF j
  <2>5. Reached(j)
    BY <1>5, <2>2, <2>3, <2>4 DEF Reached
  <2>6. QED  BY <2>2, <2>5 DEF j
<1>8. ASSUME NEW j \in jobs'
      PROVE  /\ j \in Job /\ Reached(j)
             /\ \/ j \in jobs /\ j.url \in seen
                \/ j.url \in fresh /\ j = next(j.url, job)
  <2>1. CASE j \in jobs
    BY <2>1 DEF Queued, JobUrls
  <2>2. CASE \E u \in fresh : j = next(u, job)
    <3>1. PICK u \in fresh : j = next(u, job)
      BY <2>2
    <3>2. j.url = u /\ j \in Job /\ Reached(j)
      BY <1>7, <3>1
    <3>3. QED  BY <3>1, <3>2
  <2>3. QED  BY <1>6, <2>1, <2>2
<1>9. seen' = JobUrls'
  <2>1. \A u \in fresh : next(u, job) \in jobs' /\ next(u, job).url = u
    BY <1>6, <1>7
  <2>2. \A u \in seen : \E j \in jobs' : j.url = u
    BY <1>6 DEF Queued, JobUrls
  <2> HIDE DEF next
  <2>3. \A j \in jobs' : j.url \in seen'
    BY <1>6, <1>8
  <2>4. \A u \in seen' : \E j \in jobs' : j.url = u
    BY <1>6, <2>1, <2>2
  <2>5. QED  BY <2>3, <2>4 DEF JobUrls
<1> HIDE DEF next
<1>10. \A j, k \in jobs' : j.url = k.url => j = k
  BY <1>4, <1>8 DEF Queued
<1>11. /\ IsFiniteSet(seen) /\ Cardinality(seen) = Cardinality(jobs) /\ Cardinality(jobs) \in Nat
       /\ IsFiniteSet(seen') /\ Cardinality(seen') = Cardinality(seen) + Cardinality(fresh)
       /\ Cardinality(fresh) \in Nat
  <2>1. IsFiniteSet(jobs) /\ seen = {j.url : j \in jobs} /\ \A j, k \in jobs : j.url = k.url => j = k
    BY DEF Queued, JobUrls
  <2>2. IsFiniteSet(seen)
    <3> DEFINE f == [j \in jobs |-> j.url]
    <3>1. f \in [jobs -> seen] /\ \A u \in seen : \E j \in jobs : f[j] = u
      BY <2>1
    <3>2. f \in Surjection(jobs, seen)
      BY <3>1 DEF Surjection
    <3> HIDE DEF f
    <3>3. QED  BY <2>1, <3>2, FS_Surjection
  <2>3. Cardinality(seen) = Cardinality(jobs)
    BY <2>1, <2>2, JobsCounted
  <2>4. /\ IsFiniteSet(seen \cup fresh) /\ Cardinality(fresh) \in Nat /\ Cardinality(jobs) \in Nat
        /\ Cardinality(seen \cup fresh) = Cardinality(seen) + Cardinality(fresh) - Cardinality(seen \cap fresh)
    BY <1>4, <2>1, <2>2, FS_Union, FS_CardinalityType
  <2>5. seen \cap fresh = {} /\ Cardinality({}) = 0
    BY <1>4, FS_EmptySet
  <2> DEFINE a == Cardinality(seen)  b == Cardinality(fresh)
  <2>6. Cardinality(seen \cup fresh) = a + b - 0 /\ a \in Nat /\ b \in Nat
    BY <2>3, <2>4, <2>5
  <2> HIDE DEF a, b
  <2>7. a + b - 0 = a + b
    BY <2>6
  <2>8. QED  BY <1>6, <2>2, <2>3, <2>4, <2>6, <2>7 DEF a, b
<1>12. IsFiniteSet(jobs') /\ Cardinality(jobs') = Cardinality(jobs) + Cardinality(fresh)
  <2>1. seen' = {j.url : j \in jobs'}
    BY <1>9 DEF JobUrls
  <2>2. QED  BY <1>10, <1>11, <2>1, JobsCounted
<1>13. total' = Cardinality(jobs') + Len(seeds') - Cardinality(SeedUrls')
  <2>1. total = Cardinality(jobs) + Len(seeds) - Cardinality(SeedUrls)
    BY <1>2 DEF Queued
  <2>2. Len(seeds) \in Nat /\ Cardinality(SeedUrls) \in Nat
    <3>1. seeds \in Seq(Seeds)
      BY DEF Resolving
    <3>2. IsFiniteSet(SeedUrls)
      BY <3>1, UrlsCounted DEF SeedUrls
    <3>3. QED  BY <3>1, <3>2, FS_CardinalityType
  <2>3. QED  BY <1>2, <1>6, <1>11, <1>12, <2>1, <2>2
<1>14. \A j \in jobs' : Reached(j)'
  BY <1>2, <1>8 DEF Reached
<1>15. jobs' \subseteq Job /\ processed' \subseteq jobs'
  BY <1>6, <1>8 DEF Queued
<1>16. pages' = seen'
  BY <1>6 DEF Queued
<1>17. QED  BY <1>2, <1>9, <1>10, <1>12, <1>13, <1>14, <1>15, <1>16 DEF Queued

(* Every step keeps one job for each URL that was seen.                    *)
LEMMA QueuedStep == Resolving /\ Queued /\ [Next]_vars => Queued'
<1> SUFFICES ASSUME Resolving, Queued, [Next]_vars PROVE Queued'
  OBVIOUS
<1>1. CASE Orchestrate
  BY <1>1, OrchestrateQueued
<1>2. CASE ProcessPage
  BY <1>2, ProcessPageQueued
<1>3. CASE UNCHANGED <<phase, seeds, frontier>>
  BY <1>3 DEF Queued, Reached, SeedUrls, JobUrls
<1>4. CASE phase # "running" /\ phase' # "running" /\ UNCHANGED frontier
  BY <1>4, IdleQueued
<1>5. EditSources => UNCHANGED <<phase, seeds, frontier>>
  BY DEF EditSources, CreateSource, UploadCsv, InsertCsvSource, SetActive, DeleteSource,
         DeleteObject, LoseRequest, Proceed, Edit
<1>6. StartCrawl \/ ResolveList \/ StartWalk \/ Resolved
        => phase # "running" /\ phase' # "running" /\ UNCHANGED frontier
  BY DEF StartCrawl, ResolveList, StartWalk, Resolved
<1>7. WalkSitemap \/ EndWalk => phase # "running" /\ phase' # "running" /\ UNCHANGED frontier
  <2>1. walk # None => phase = "resolving"
    BY DEF Resolving
  <2>2. QED  BY <2>1 DEF WalkSitemap, EndWalk
<1>8. UNCHANGED vars => UNCHANGED <<phase, seeds, frontier>>
  BY DEF vars
<1>9. QED  BY <1>1, <1>2, <1>3, <1>4, <1>5, <1>6, <1>7, <1>8 DEF Next, Progress

-----------------------------------------------------------------------------
(* The theorems.                                                           *)

(* The invariant holds in every behaviour.                                 *)
LEMMA DiscoveryInvariant == Spec => []DiscoveryInv
<1>1. Init => DiscoveryInv
  BY FiledInit, ResolvingInit, QueuedInit DEF DiscoveryInv
<1>2. DiscoveryInv /\ [Next]_vars => DiscoveryInv'
  BY FiledStep, ResolvingStep, QueuedStep DEF DiscoveryInv
<1>3. QED  BY <1>1, <1>2, PTL DEF Spec

(* The variables hold what the code may put there, whatever the site, the  *)
(* sitemaps, the sources and their edits, and the bounds.                  *)
THEOREM TypeCorrect == Spec => []TypeOK
<1>1. DiscoveryInv => TypeOK
  <2> SUFFICES ASSUME DiscoveryInv PROVE TypeOK
    OBVIOUS
  <2>1. Filed /\ Resolving /\ Queued
    BY DEF DiscoveryInv
  <2>2. \A i \in DOMAIN table : table[i].active \in BOOLEAN
    <3>1. \A i \in DOMAIN table : table[i] \in GoodRows
      BY <2>1 DEF Filed
    <3>2. QED  BY <3>1 DEF GoodRows, UrlSources
  <2>3. \A i \in DOMAIN seeds : seeds[i].url # None /\ seeds[i].allowDiscovery \in BOOLEAN
    <3>1. \A i \in DOMAIN seeds : seeds[i] \in Seeds
      BY <2>1 DEF Resolving
    <3>2. QED  BY <3>1 DEF Seeds
  <2>4. total \in Nat
    <3>1. CASE phase = "running"
      <4>1. seeds \in Seq(Seeds) /\ Len(seeds) \in Nat
        BY <2>1 DEF Resolving
      <4>2. IsFiniteSet(SeedUrls) /\ Cardinality(SeedUrls) <= Len(seeds)
        BY <4>1, UrlsCounted DEF SeedUrls
      <4>3. Cardinality(SeedUrls) \in Nat /\ Cardinality(jobs) \in Nat
        BY <2>1, <4>2, FS_CardinalityType DEF Queued
      <4>4. total = Cardinality(jobs) + Len(seeds) - Cardinality(SeedUrls)
        BY <2>1, <3>1 DEF Queued
      <4>5. QED  BY <4>1, <4>2, <4>3, <4>4
    <3>2. CASE phase # "running"
      BY <2>1, <3>2 DEF Queued
    <3>3. QED  BY <3>1, <3>2
  <2>5. \A w \in {walk, walked} \ {None} :
          /\ w.visited \subseteq DOMAIN Documents /\ Cardinality(w.visited) <= MaxSitemaps
          /\ w.failed \subseteq w.visited
          /\ Len(w.entries) <= w.maxUrls /\ IsInjective(w.entries)
    <3>1. \A w \in {walk, walked} \ {None} : Walked(w)
      BY <2>1 DEF Resolving
    <3>2. QED  BY <3>1 DEF Walked, Walks, Sitemaps
  <2>6. request # None => request.step \in {"insert", "unlink"} /\ request.source.kind = "csv"
    BY <2>1 DEF Filed
  <2>7. files \subseteq Keys /\ edits \in 0 .. MaxEdits
    BY <2>1 DEF Filed
  <2>8. QED  BY <2>1, <2>2, <2>3, <2>4, <2>5, <2>6, <2>7 DEF TypeOK, Resolving, Queued
<1>2. QED  BY <1>1, DiscoveryInvariant, PTL

(* The file of a listed CSV source is stored, wherever a request that      *)
(* uploads or deletes one ends.                                            *)
THEOREM FilesCorrect == Spec => []ListedFilesStored
<1>1. DiscoveryInv => ListedFilesStored
  BY DEF DiscoveryInv, Filed, ListedFilesStored
<1>2. QED  BY <1>1, DiscoveryInvariant, PTL

(* What a sitemap tree gives is what its readable documents list, and      *)
(* `truncated' tells exactly when a bound left something out.              *)
THEOREM SitemapCorrect == Spec => []SitemapExact
<1>1. DiscoveryInv => SitemapExact
  <2> SUFFICES ASSUME DiscoveryInv, walked # None
               PROVE  /\ walked.visited \subseteq Known(walked)
                      /\ Range(walked.entries) \subseteq Listed(walked, "urlset")
                      /\ walked.truncated <=> \/ Known(walked) # walked.visited
                                              \/ Listed(walked, "urlset") # Range(walked.entries)
    BY DEF SitemapExact, Known
  <2>1. Walked(walked) /\ walked.agenda = <<>>
    BY DEF DiscoveryInv, Resolving
  <2>2. Range(walked.agenda) = {}
    BY <2>1 DEF Range
  <2>3. QED  BY <2>1, <2>2 DEF Walked
<1>2. QED  BY <1>1, DiscoveryInvariant, PTL

(* Discovery stays on the website and within its depth, on any site.       *)
THEOREM SiteCorrect == Spec => []StaysOnSite
<1>1. DiscoveryInv => StaysOnSite
  <2> SUFFICES ASSUME DiscoveryInv, NEW j \in jobs
               PROVE  \/ /\ j.depth = 0 /\ j.url \in SeedUrls
                         /\ crawl.scope = "page" => SameOrigin(j.url)
                      \/ /\ j.depth \in 1 .. MaxDepth
                         /\ \E i \in DOMAIN seeds : seeds[i].allowDiscovery
                         /\ RegistrableDomain(j.url.host) = RegistrableDomain(Origin.host)
    BY DEF StaysOnSite
  <2>1. j \in Job /\ Reached(j) /\ phase = "running"
    BY DEF DiscoveryInv, Queued
  <2>2. CASE j.depth = 0
    <3>1. PICK i \in DOMAIN seeds : j.url = seeds[i].url
      BY <2>1, <2>2 DEF Reached, SeedUrls
    <3>2. crawl.scope = "page" => SameOrigin(seeds[i].url)
      BY <2>1 DEF DiscoveryInv, Resolving
    <3>3. QED  BY <2>1, <2>2, <3>1, <3>2 DEF Reached
  <2>3. CASE j.depth # 0
    <3>1. j.depth \in Nat /\ j.discover /\ j.depth <= MaxDepth
      BY <2>1, <2>3 DEF Reached, Job
    <3>2. j.depth \in 1 .. MaxDepth
      BY <2>3, <3>1, BoundsAssumption
    <3>3. QED  BY <2>1, <3>1, <3>2 DEF Reached
  <2>4. QED  BY <2>2, <2>3
<1>2. QED  BY <1>1, DiscoveryInvariant, PTL

(* The total counts every page job once.                                   *)
THEOREM TotalCorrect == Spec => []TotalMatchesJobs
<1>1. DiscoveryInv => TotalMatchesJobs
  <2> SUFFICES ASSUME DiscoveryInv, phase = "running",
                      crawl.scope = "group" => Cardinality(SeedUrls) = Len(seeds)
               PROVE  total = Cardinality(JobUrls) /\ Cardinality(JobUrls) = Cardinality(jobs)
    BY DEF TotalMatchesJobs
  <2>1. Resolving /\ Queued
    BY DEF DiscoveryInv
  <2>2. seeds \in Seq(Seeds) /\ Len(seeds) \in Nat /\ (crawl.scope # "group" => Distinct(seeds))
    BY <2>1 DEF Resolving
  <2>3. Cardinality(SeedUrls) = Len(seeds)
    BY <2>2, UrlsCounted DEF SeedUrls
  <2>4. IsFiniteSet(jobs) /\ Cardinality(jobs) \in Nat
    BY <2>1, FS_CardinalityType DEF Queued
  <2>5. total = Cardinality(jobs)
    <3>1. total = Cardinality(jobs) + Len(seeds) - Cardinality(SeedUrls)
      BY <2>1 DEF Queued
    <3>2. QED  BY <2>2, <2>3, <2>4, <3>1
  <2>6. IsFiniteSet(JobUrls)
    <3> DEFINE f == [j \in jobs |-> j.url]
    <3>1. f \in [jobs -> JobUrls] /\ \A u \in JobUrls : \E j \in jobs : f[j] = u
      BY DEF JobUrls
    <3>2. f \in Surjection(jobs, JobUrls)
      BY <3>1 DEF Surjection
    <3> HIDE DEF f
    <3>3. QED  BY <2>4, <3>2, FS_Surjection
  <2>7. Cardinality(JobUrls) = Cardinality(jobs)
    BY <2>1, <2>6, JobsCounted DEF JobUrls, Queued
  <2>8. QED  BY <2>5, <2>7
<1>2. QED  BY <1>1, DiscoveryInvariant, PTL

(* A document is one page however its address is written, on any site and  *)
(* with any sources.                                                       *)
THEOREM PagesCorrect == Spec => []OnePagePerAddress
<1>1. DiscoveryInv => OnePagePerAddress
  <2> SUFFICES ASSUME DiscoveryInv, NEW u \in pages, NEW v \in pages, u # v
               PROVE  ~SameAddress(u, v)
    BY DEF OnePagePerAddress
  <2>1. pages \subseteq Addresses
    BY DEF DiscoveryInv, Queued, JobUrls, Job
  <2>2. Normal(u) /\ Normal(v)
    BY <2>1, NormalizedNormal DEF Addresses
  <2>3. QED  BY <2>2, OneAddress
<1>2. QED  BY <1>1, DiscoveryInvariant, PTL
=============================================================================
