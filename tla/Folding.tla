-------------------------------- MODULE Folding --------------------------------
(***************************************************************************)
(* What a loop over a sequence has done after k of its elements, and what  *)
(* a sum over a finite set depends on.  The loops of the specifications    *)
(* are FoldLeft of an operator; a module that reasons about one takes an   *)
(* instance of this one WITH Op <- the operator and argues by Upto over    *)
(* the trace that Unfold gives.                                            *)
(***************************************************************************)
EXTENDS Integers, Sequences, SequencesExt, WellFoundedInduction, FiniteSetTheorems, TLAPS

CONSTANT Op(_, _)   \* the loop's body: what has been built, the next element

-----------------------------------------------------------------------------
(* Natural numbers.                                                        *)

(* Every set of naturals has a least element.                              *)
LEMMA Least ==
  ASSUME NEW T, T \subseteq Nat, T # {}
  PROVE  \E x \in T : \A y \in T : x <= y
<1>1. PICK x \in T : \A y \in T : <<y, x>> \notin OpToRel(<, Nat)
  BY NatLessThanWellFounded, WFMin
<1>2. \A y \in T : ~(y < x)
  BY <1>1 DEF OpToRel
<1>3. QED  BY <1>2

(* Induction up to n, over a set.                                          *)
LEMMA Upto ==
  ASSUME NEW n \in Nat, NEW T, 0 \in T, \A k \in 0 .. n - 1 : k \in T => k + 1 \in T
  PROVE  \A k \in 0 .. n : k \in T
<1> DEFINE B == {k \in 0 .. n : k \notin T}
<1>1. SUFFICES ASSUME B # {} PROVE FALSE
  OBVIOUS
<1>2. PICK x \in B : \A y \in B : x <= y
  <2>1. B \subseteq Nat
    OBVIOUS
  <2> HIDE DEF B
  <2>2. QED  BY <1>1, <2>1, Least
<1>3. x # 0 /\ x - 1 \in 0 .. n - 1
  BY <1>2
<1>4. x - 1 \in T
  BY <1>2, <1>3
<1>5. QED  BY <1>3, <1>4

(* The greatest element of a set of positions, and of an initial segment.  *)
LEMMA MaxIn ==
  ASSUME NEW n \in Nat, NEW t \in SUBSET (1 .. n), t # {}
  PROVE  Max(t) \in t /\ \A x \in t : x <= Max(t)
<1> DEFINE U == {u \in 0 .. n : n - u \in t}
<1>1. PICK u \in U : \A y \in U : u <= y
  <2>1. PICK x \in t : TRUE
    OBVIOUS
  <2>2. n - x \in U
    <3>1. x \in 1 .. n /\ n - (n - x) = x
      BY <2>1
    <3>2. QED  BY <2>1, <3>1
  <2>3. U \subseteq Nat
    OBVIOUS
  <2> HIDE DEF U
  <2>4. QED  BY <2>2, <2>3, Least
<1>2. n - u \in t
  BY <1>1
<1>3. ASSUME NEW y \in t PROVE n - u >= y
  <2>1. y \in 1 .. n
    OBVIOUS
  <2>2. n - y \in 0 .. n /\ n - (n - y) = y
    BY <2>1
  <2>3. n - y \in U
    BY <2>2
  <2>4. u <= n - y /\ u \in 0 .. n
    BY <1>1, <2>3
  <2>5. QED BY <2>1, <2>4
<1> DEFINE x == n - u
<1>4. x \in t /\ \A y \in t : x >= y
  BY <1>2, <1>3
<1> HIDE DEF x
<1>5. Max(t) \in t /\ \A y \in t : Max(t) >= y
  BY <1>4, Zenon DEF Max
<1>6. \A y \in t : y \in Int
  OBVIOUS
<1>7. QED  BY <1>5, <1>6

(* An element that no other exceeds is the greatest.                       *)
LEMMA MaxIs ==
  ASSUME NEW n \in Nat, NEW t \in SUBSET (1 .. n), NEW m \in t, \A x \in t : x <= m
  PROVE  Max(t) = m
<1> DEFINE max == Max(t)
<1>1. max \in t /\ m <= max
  BY MaxIn
<1>2. \A x \in t : x \in Int
  OBVIOUS
<1> HIDE DEF max
<1>3. max <= m /\ max \in Int /\ m \in Int
  BY <1>1, <1>2
<1>4. max = m
  BY <1>1, <1>3
<1>5. QED  BY <1>4 DEF max

-----------------------------------------------------------------------------
(* The loop.                                                               *)

Folded(base, s) == FoldLeft(Op, base, s)

(* f[k] is what has been built after k elements.                           *)
Trace(f, base, s, n) == f[0] = base /\ \A k \in 1 .. n : f[k] = Op(f[k - 1], s[k])

(* A fold has a trace.  FoldLeft takes its elements from the last back, by *)
(* a function over sets of positions, which is shown to exist for longer   *)
(* and longer sequences; the initial segments of it are the trace.         *)
THEOREM Unfold ==
  \A base, s : \A n \in Nat : DOMAIN s = 1 .. n =>
     \E f : Trace(f, base, s, n) /\ Folded(base, s) = f[n]
<1> TAKE base, s
<1> TAKE n \in Nat
<1> HAVE DOMAIN s = 1 .. n
<1> DEFINE After(f, t) == IF t = {} THEN base ELSE Op(f[t \ {Max(t)}], s[Max(t)])
           Iterates(m) == \E f : f = [t \in SUBSET (1 .. m) |-> After(f, t)]
           T == {m \in 0 .. n : Iterates(m)}
<1>1. 0 \in T
  <2> DEFINE f == [t \in SUBSET (1 .. 0) |-> base]
  <2>1. \A t \in SUBSET (1 .. 0) : After(f, t) = base
    OBVIOUS
  <2> HIDE DEF After
  <2>2. f = [t \in SUBSET (1 .. 0) |-> After(f, t)]
    BY <2>1
  <2> HIDE DEF f
  <2>3. QED  BY <2>2
<1>2. ASSUME NEW k \in 0 .. n - 1, k \in T PROVE k + 1 \in T
  <2>1. PICK f : f = [t \in SUBSET (1 .. k) |-> After(f, t)]
    BY <1>2
  <2> DEFINE m == k + 1
             g == [t \in SUBSET (1 .. m) |->
                     IF m \in t THEN Op(f[t \ {m}], s[m]) ELSE f[t]]
  <2>2. ASSUME NEW t \in SUBSET (1 .. m) PROVE g[t] = After(g, t)
    <3>1. CASE m \in t
      <4>1. Max(t) = m
        <5>1. m \in Nat /\ \A x \in t : x <= m
          OBVIOUS
        <5>2. QED  BY <3>1, <5>1, MaxIs
      <4>2. t \ {m} \in SUBSET (1 .. k) /\ t \ {m} \in SUBSET (1 .. m) /\ m \notin t \ {m}
        OBVIOUS
      <4>3. g[t \ {m}] = f[t \ {m}]
        BY <4>2
      <4>4. QED  BY <3>1, <4>1, <4>3
    <3>2. CASE m \notin t
      <4>1. t \in SUBSET (1 .. k)
        BY <3>2
      <4>2. g[t] = f[t] /\ f[t] = After(f, t)
        BY <2>1, <3>2, <4>1
      <4>3. CASE t = {}
        BY <4>2, <4>3
      <4>4. CASE t # {}
        <5>1. t \ {Max(t)} \in SUBSET (1 .. m) /\ m \notin t \ {Max(t)}
          BY <3>2
        <5>2. g[t \ {Max(t)}] = f[t \ {Max(t)}]
          BY <5>1
        <5>3. QED  BY <4>2, <4>4, <5>2
      <4>5. QED  BY <4>3, <4>4
    <3>3. QED  BY <3>1, <3>2
  <2> HIDE DEF After
  <2>3. g = [t \in SUBSET (1 .. m) |-> g[t]]
    OBVIOUS
  <2>4. g = [t \in SUBSET (1 .. m) |-> After(g, t)]
    BY <2>2, <2>3
  <2> HIDE DEF g
  <2>5. Iterates(m)
    BY <2>4
  <2>6. QED  BY <2>5
<1>3. Iterates(n)
  <2>1. \A k \in 0 .. n - 1 : k \in T => k + 1 \in T
    BY <1>2
  <2> HIDE DEF T
  <2>2. n \in 0 .. n
    OBVIOUS
  <2>3. n \in T
    BY <1>1, <2>1, <2>2, Upto
  <2>4. QED  BY <2>3 DEF T
<1> DEFINE iter == CHOOSE f : f = [t \in SUBSET (1 .. n) |-> After(f, t)]
<1>4. iter = [t \in SUBSET (1 .. n) |-> After(iter, t)]
  BY <1>3, Zenon
<1>5. Folded(base, s) = iter[1 .. n]
  BY Zenon DEF Folded, FoldLeft, MapThenFoldSet
<1> HIDE DEF iter
<1> DEFINE f == [k \in 0 .. n |-> iter[1 .. k]]
<1>6. f[0] = base
  BY <1>4
<1>7. ASSUME NEW k \in 1 .. n PROVE f[k] = Op(f[k - 1], s[k])
  <2>1. 1 .. k \in SUBSET (1 .. n) /\ k \in 1 .. k /\ \A x \in 1 .. k : x <= k
    OBVIOUS
  <2>2. Max(1 .. k) = k
    BY <2>1, MaxIs
  <2>3. (1 .. k) \ {k} = 1 .. k - 1
    OBVIOUS
  <2>4. iter[1 .. k] = Op(iter[1 .. k - 1], s[k])
    BY <1>4, <2>1, <2>2, <2>3
  <2>5. QED  BY <2>4
<1>8. Trace(f, base, s, n)
  BY <1>6, <1>7 DEF Trace
<1>9. f[n] = iter[1 .. n]
  OBVIOUS
<1> HIDE DEF f
<1>10. QED  BY <1>5, <1>8, <1>9
-----------------------------------------------------------------------------
(* Sums.                                                                   *)

(* Induction over the subsets of a finite set: a family of sets has them   *)
(* all if it has the empty one and every set all of whose elements can be  *)
(* taken away.                                                             *)
LEMMA Subsets ==
  ASSUME NEW S, IsFiniteSet(S), NEW T,
         {} \in T, \A s \in SUBSET S : s # {} /\ (\A x \in s : s \ {x} \in T) => s \in T
  PROVE  SUBSET S \subseteq T
<1> DEFINE n == Cardinality(S)
           Small(k) == {s \in SUBSET S : Cardinality(s) <= k}
           K == {k \in 0 .. n : Small(k) \subseteq T}
<1>1. n \in Nat
  BY FS_CardinalityType
<1>2. \A s \in SUBSET S : IsFiniteSet(s) /\ Cardinality(s) \in 0 .. n
  BY <1>1, FS_Subset, FS_CardinalityType
<1>3. 0 \in K
  <2>1. \A s \in Small(0) : s = {}
    BY <1>2, FS_EmptySet
  <2>2. QED  BY <1>1, <2>1
<1>4. ASSUME NEW k \in 0 .. n - 1, k \in K PROVE k + 1 \in K
  <2>1. ASSUME NEW s \in Small(k + 1), s # {}, NEW x \in s PROVE s \ {x} \in T
    <3>1. Cardinality(s \ {x}) = Cardinality(s) - 1
      BY <1>2, FS_RemoveElement
    <3>2. s \ {x} \in Small(k)
      BY <1>2, <2>1, <3>1
    <3>3. QED  BY <1>4, <3>2
  <2>2. \A s \in Small(k + 1) : s \in T
    BY <2>1
  <2>3. k + 1 \in 0 .. n
    BY <1>1
  <2> HIDE DEF Small
  <2>4. QED  BY <2>2, <2>3
<1>5. n \in K
  <2> HIDE DEF n, K
  <2>1. QED  BY <1>1, <1>3, <1>4, Upto
<1>6. QED  BY <1>2, <1>5

Pick(s) == CHOOSE x \in s : TRUE

Totals(f, w, S) ==
  f = [s \in SUBSET S |-> IF s = {} THEN 0 ELSE w[Pick(s)] + f[s \ {Pick(s)}]]

(* What SumFunction computes on the way is a function.                     *)
LEMMA TotalsExist ==
  ASSUME NEW w, NEW S, IsFiniteSet(S)
  PROVE  \E f : Totals(f, w, S)
<1> DEFINE n == Cardinality(S)
           Small(k) == {s \in SUBSET S : Cardinality(s) <= k}
           After(f, s) == IF s = {} THEN 0 ELSE w[Pick(s)] + f[s \ {Pick(s)}]
           K == {k \in 0 .. n : \E f : f = [s \in Small(k) |-> After(f, s)]}
<1>1. n \in Nat
  BY FS_CardinalityType
<1>2. \A s \in SUBSET S : IsFiniteSet(s) /\ Cardinality(s) \in 0 .. n
  BY <1>1, FS_Subset, FS_CardinalityType
<1>3. \A s : s # {} => Pick(s) \in s
  BY DEF Pick
<1>4. 0 \in K
  <2> DEFINE f == [s \in Small(0) |-> 0]
  <2>1. \A s \in Small(0) : s = {}
    BY <1>2, FS_EmptySet
  <2>2. \A s \in Small(0) : After(f, s) = 0
    BY <2>1
  <2> HIDE DEF After, Small
  <2>3. f = [s \in Small(0) |-> After(f, s)]
    BY <2>2
  <2> HIDE DEF f
  <2>4. QED  BY <1>1, <2>3
<1>5. ASSUME NEW k \in 0 .. n - 1, k \in K PROVE k + 1 \in K
  <2>1. PICK f : f = [s \in Small(k) |-> After(f, s)]
    BY <1>5
  <2> DEFINE g == [s \in Small(k + 1) |-> After(f, s)]
  <2>2. ASSUME NEW s \in Small(k + 1), s # {} PROVE g[s \ {Pick(s)}] = f[s \ {Pick(s)}]
    <3> DEFINE r == s \ {Pick(s)}
    <3>1. Cardinality(r) = Cardinality(s) - 1 /\ r \in SUBSET S
      BY <1>2, <1>3, <2>2, FS_RemoveElement
    <3>2. r \in Small(k) /\ r \in Small(k + 1)
      BY <1>2, <3>1
    <3> HIDE DEF r, After, Small
    <3>3. f[r] = After(f, r) /\ g[r] = After(f, r)
      BY <2>1, <3>2
    <3>4. QED  BY <3>3 DEF r
  <2>3. ASSUME NEW s \in Small(k + 1) PROVE g[s] = After(g, s)
    <3>1. g[s] = After(f, s)
      OBVIOUS
    <3>2. After(f, s) = After(g, s)
      <4> HIDE DEF g, Small
      <4>1. QED  BY <2>2
    <3>3. QED  BY <3>1, <3>2
  <2> HIDE DEF After, Small
  <2>4. g = [s \in Small(k + 1) |-> g[s]]
    OBVIOUS
  <2>5. g = [s \in Small(k + 1) |-> After(g, s)]
    BY <2>3, <2>4
  <2> HIDE DEF g
  <2>6. k + 1 \in 0 .. n
    BY <1>1
  <2>7. QED  BY <2>5, <2>6
<1>6. n \in K
  <2> HIDE DEF n, K
  <2>1. QED  BY <1>1, <1>4, <1>5, Upto
<1>7. Small(n) = SUBSET S
  BY <1>2
<1>8. QED  BY <1>6, <1>7 DEF Totals

(* The sum of w is what is reached at the whole of its domain.             *)
LEMMA SumTotal ==
  ASSUME NEW w, IsFiniteSet(DOMAIN w)
  PROVE  \E f : Totals(f, w, DOMAIN w) /\ SumFunction(w) = f[DOMAIN w]
<1> DEFINE S == DOMAIN w
           iter == CHOOSE f : f = [s \in SUBSET S |->
                     IF s = {} THEN 0 ELSE w[Pick(s)] + f[s \ {Pick(s)}]]
<1>1. \E f : f = [s \in SUBSET S |->
                     IF s = {} THEN 0 ELSE w[Pick(s)] + f[s \ {Pick(s)}]]
  <2>1. \E f : Totals(f, w, S)
    BY TotalsExist
  <2>2. QED  BY <2>1, Zenon DEF Totals
<1>2. Totals(iter, w, S)
  BY <1>1, Zenon DEF Totals
<1>3. SumFunction(w) = iter[S]
  BY Zenon DEF SumFunction, SumFunctionOnSet, FoldFunctionOnSet, MapThenFoldSet, Pick
<1>4. QED  BY <1>2, <1>3

(* It is a number if what is summed are numbers.                           *)
LEMMA TotalType ==
  ASSUME NEW w, NEW S, IsFiniteSet(S), \A c \in S : w[c] \in Int, NEW f, Totals(f, w, S)
  PROVE  \A s \in SUBSET S : f[s] \in Int
<1> DEFINE T == {s \in SUBSET S : f[s] \in Int}
<1>1. {} \in T
  BY DEF Totals
<1>2. ASSUME NEW s \in SUBSET S, s # {}, \A x \in s : s \ {x} \in T PROVE s \in T
  <2>1. Pick(s) \in s
    BY <1>2 DEF Pick
  <2>2. f[s] = w[Pick(s)] + f[s \ {Pick(s)}]
    BY <1>2 DEF Totals
  <2>3. f[s \ {Pick(s)}] \in Int /\ w[Pick(s)] \in Int
    BY <1>2, <2>1
  <2>4. QED  BY <2>2, <2>3
<1> HIDE DEF T
<1>3. SUBSET S \subseteq T
  BY <1>1, <1>2, Subsets
<1>4. QED  BY <1>3 DEF T

(* Any element may be the first to be added.                               *)
LEMMA TotalSplits ==
  ASSUME NEW w, NEW S, IsFiniteSet(S), \A c \in S : w[c] \in Int, NEW f, Totals(f, w, S)
  PROVE  \A s \in SUBSET S : \A x \in s : f[s] = w[x] + f[s \ {x}]
<1> DEFINE Splits(s) == \A x \in s : f[s] = w[x] + f[s \ {x}]
           T == {s \in SUBSET S : Splits(s)}
<1>1. {} \in T
  OBVIOUS
<1>2. ASSUME NEW s \in SUBSET S, s # {}, \A x \in s : s \ {x} \in T PROVE s \in T
  <2>1. SUFFICES ASSUME NEW x \in s PROVE f[s] = w[x] + f[s \ {x}]
    OBVIOUS
  <2> DEFINE p == Pick(s)
  <2>2. p \in s /\ f[s] = w[p] + f[s \ {p}]
    BY <1>2 DEF Totals, Pick
  <2> HIDE DEF p
  <2>3. CASE x = p
    BY <2>2, <2>3
  <2>4. CASE x # p
    <3> DEFINE r == s \ {p, x}
    <3>1. f[s \ {p}] = w[x] + f[r]
      <4>1. Splits(s \ {p}) /\ x \in s \ {p}
        BY <1>2, <2>2, <2>4
      <4>2. (s \ {p}) \ {x} = r
        OBVIOUS
      <4>3. QED  BY <4>1, <4>2
    <3>2. f[s \ {x}] = w[p] + f[r]
      <4>1. Splits(s \ {x}) /\ p \in s \ {x}
        BY <1>2, <2>2, <2>4
      <4>2. (s \ {x}) \ {p} = r
        OBVIOUS
      <4>3. QED  BY <4>1, <4>2
    <3>3. w[p] \in Int /\ w[x] \in Int /\ f[r] \in Int
      <4>1. r \in SUBSET S
        OBVIOUS
      <4>2. QED  BY <2>2, <4>1, TotalType
    <3> HIDE DEF r
    <3>4. QED  BY <2>2, <3>1, <3>2, <3>3
  <2>5. QED  BY <2>3, <2>4
<1> HIDE DEF T
<1>3. SUBSET S \subseteq T
  BY <1>1, <1>2, Subsets
<1>4. QED  BY <1>3 DEF T

LEMMA SumType ==
  ASSUME NEW w, IsFiniteSet(DOMAIN w), \A c \in DOMAIN w : w[c] \in Int
  PROVE  SumFunction(w) \in Int
<1>1. PICK f : Totals(f, w, DOMAIN w) /\ SumFunction(w) = f[DOMAIN w]
  BY SumTotal
<1>2. \A s \in SUBSET DOMAIN w : f[s] \in Int
  BY <1>1, TotalType
<1>3. QED  BY <1>1, <1>2

(* It depends on what is summed, however much more there is.               *)
LEMMA TotalsAgree ==
  ASSUME NEW w, NEW v, NEW A, NEW B, IsFiniteSet(A), A \subseteq B, \A c \in A : w[c] = v[c],
         NEW f, Totals(f, w, A), NEW g, Totals(g, v, B)
  PROVE  f[A] = g[A]
<1> DEFINE T == {s \in SUBSET A : f[s] = g[s]}
<1>1. {} \in T
  BY DEF Totals
<1>2. ASSUME NEW s \in SUBSET A, s # {}, \A x \in s : s \ {x} \in T PROVE s \in T
  <2>1. Pick(s) \in s
    BY <1>2 DEF Pick
  <2>2. f[s] = w[Pick(s)] + f[s \ {Pick(s)}]
    BY <1>2 DEF Totals
  <2>3. g[s] = v[Pick(s)] + g[s \ {Pick(s)}]
    BY <1>2 DEF Totals
  <2>4. QED  BY <1>2, <2>1, <2>2, <2>3
<1> HIDE DEF T
<1>3. SUBSET A \subseteq T
  BY <1>1, <1>2, Subsets
<1>4. QED  BY <1>3 DEF T

(* More of what is not negative makes no sum less.                         *)
LEMMA SumGrows ==
  ASSUME NEW w, NEW v, IsFiniteSet(DOMAIN v), \A c \in DOMAIN v : v[c] \in Nat,
         DOMAIN w \subseteq DOMAIN v, \A c \in DOMAIN w : w[c] = v[c]
  PROVE  SumFunction(w) <= SumFunction(v)
<1> DEFINE A == DOMAIN w
           B == DOMAIN v
<1>1. IsFiniteSet(A) /\ IsFiniteSet(B \ A)
  BY FS_Subset
<1>2. PICK f : Totals(f, w, A) /\ SumFunction(w) = f[A]
  BY <1>1, SumTotal
<1>3. PICK g : Totals(g, v, B) /\ SumFunction(v) = g[B]
  BY SumTotal
<1> A \subseteq B /\ (\A c \in A : w[c] = v[c]) /\ (\A c \in B : v[c] \in Nat) /\ IsFiniteSet(B)
  OBVIOUS
<1> HIDE DEF A, B
<1>4. f[A] = g[A]
  BY <1>1, <1>2, <1>3, TotalsAgree
<1>5. \A c \in B : v[c] \in Int
  OBVIOUS
<1>6. /\ \A s \in SUBSET B : g[s] \in Int
      /\ \A s \in SUBSET B : \A x \in s : g[s] = v[x] + g[s \ {x}]
  BY <1>3, <1>5, TotalType, TotalSplits
<1>7. g[A] <= g[B]
  <2> DEFINE T == {d \in SUBSET (B \ A) : g[A] <= g[A \cup d]}
  <2>1. {} \in T
    <3>1. A \cup {} = A /\ g[A] \in Int
      BY <1>6
    <3>2. QED  BY <3>1
  <2>2. ASSUME NEW d \in SUBSET (B \ A), d # {}, \A x \in d : d \ {x} \in T PROVE d \in T
    <3>1. PICK x \in d : TRUE
      BY <2>2
    <3>2. A \cup d \in SUBSET B /\ x \in A \cup d /\ (A \cup d) \ {x} = A \cup (d \ {x})
      BY <3>1
    <3>3. g[A \cup d] = v[x] + g[A \cup (d \ {x})]
      BY <1>6, <3>2
    <3>4. g[A] <= g[A \cup (d \ {x})]
      BY <2>2, <3>1
    <3>5. g[A] \in Int /\ g[A \cup (d \ {x})] \in Int /\ v[x] \in Nat
      <4>1. A \in SUBSET B /\ A \cup (d \ {x}) \in SUBSET B /\ x \in B
        BY <3>1
      <4>2. QED  BY <1>6, <4>1
    <3>6. g[A] <= g[A \cup d]
      BY <3>3, <3>4, <3>5
    <3>7. QED  BY <3>6
  <2> HIDE DEF T
  <2>3. SUBSET (B \ A) \subseteq T
    BY <1>1, <2>1, <2>2, Subsets
  <2>4. B \ A \in T /\ A \cup (B \ A) = B
    BY <2>3
  <2>5. QED  BY <2>4 DEF T
<1>8. QED  BY <1>2, <1>3, <1>4, <1>7

(* What is zero need not be summed.                                        *)
LEMMA SumWithoutZeros ==
  ASSUME NEW w, NEW v, IsFiniteSet(DOMAIN v), \A c \in DOMAIN v : v[c] \in Int,
         DOMAIN w \subseteq DOMAIN v, \A c \in DOMAIN w : w[c] = v[c],
         \A c \in DOMAIN v \ DOMAIN w : v[c] = 0
  PROVE  SumFunction(w) = SumFunction(v)
<1> DEFINE A == DOMAIN w
           B == DOMAIN v
<1>1. IsFiniteSet(A) /\ IsFiniteSet(B \ A)
  BY FS_Subset
<1>2. PICK f : Totals(f, w, A) /\ SumFunction(w) = f[A]
  BY <1>1, SumTotal
<1>3. PICK g : Totals(g, v, B) /\ SumFunction(v) = g[B]
  BY SumTotal
<1> /\ A \subseteq B /\ (\A c \in A : w[c] = v[c]) /\ (\A c \in B : v[c] \in Int) /\ IsFiniteSet(B)
    /\ \A c \in B \ A : v[c] = 0
  OBVIOUS
<1> HIDE DEF A, B
<1>4. f[A] = g[A]
  BY <1>1, <1>2, <1>3, TotalsAgree
<1>5. /\ \A s \in SUBSET B : g[s] \in Int
      /\ \A s \in SUBSET B : \A x \in s : g[s] = v[x] + g[s \ {x}]
  BY <1>3, TotalType, TotalSplits
<1>6. g[A] = g[B]
  <2> DEFINE T == {d \in SUBSET (B \ A) : g[A \cup d] = g[A]}
  <2>1. {} \in T
    <3>1. A \cup {} = A
      OBVIOUS
    <3>2. QED  BY <3>1
  <2>2. ASSUME NEW d \in SUBSET (B \ A), d # {}, \A x \in d : d \ {x} \in T PROVE d \in T
    <3>1. PICK x \in d : TRUE
      BY <2>2
    <3>2. A \cup d \in SUBSET B /\ x \in A \cup d /\ (A \cup d) \ {x} = A \cup (d \ {x})
      BY <3>1
    <3>3. g[A \cup d] = v[x] + g[A \cup (d \ {x})] /\ v[x] = 0
      BY <1>5, <3>1, <3>2
    <3>4. g[A \cup (d \ {x})] = g[A] /\ g[A] \in Int
      BY <1>5, <2>2, <3>1
    <3>5. g[A \cup d] = g[A]
      BY <3>3, <3>4
    <3>6. QED  BY <3>5
  <2> HIDE DEF T
  <2>3. SUBSET (B \ A) \subseteq T
    BY <1>1, <2>1, <2>2, Subsets
  <2>4. B \ A \in T /\ A \cup (B \ A) = B
    BY <2>3
  <2>5. QED  BY <2>4 DEF T
<1>7. QED  BY <1>2, <1>3, <1>4, <1>6
=============================================================================
