---------------------------- MODULE StartupProofs ----------------------------
(***************************************************************************)
(* Which version a resource is taken from, for every discovery document    *)
(* and every order in which it is walked, and the invariants of one life   *)
(* of the process, for any CRDs, documents and number of signals.          *)
(***************************************************************************)
EXTENDS Startup, WellFoundedInduction, FiniteSetTheorems, SequenceTheorems, TLAPS

-------------------------------------------------------------------------------
(* Induction on numbers and on finite linear orders.                       *)

LEMMA NatMin ==
  ASSUME NEW T \in SUBSET Nat, T # {}
  PROVE  \E m \in T : \A k \in T : m <= k
<1> DEFINE R == OpToRel(<, Nat)
<1>1. R = {p \in Nat \X Nat : p[1] < p[2]}
  BY DEF OpToRel
<1>2. \A k, m \in Nat : k < m => <<k, m>> \in R
  BY <1>1
<1>3. IsWellFoundedOn(R, Nat)
  BY NatLessThanWellFounded
<1> HIDE DEF R
<1>4. PICK m \in T : \A k \in T : ~(<<k, m>> \in R)
  BY <1>3, WFMin
<1>5. ASSUME NEW k \in T PROVE m <= k
  <2>1. k \in Nat /\ m \in Nat /\ ~(<<k, m>> \in R)
    BY <1>4
  <2> QED BY <1>2, <2>1
<1> QED BY <1>5

LEMMA Induction ==
  ASSUME NEW T \in SUBSET Nat, 0 \in T, \A n \in T : n + 1 \in T
  PROVE  \A n \in Nat : n \in T
<1> SUFFICES ASSUME Nat \ T # {} PROVE FALSE
  OBVIOUS
<1>1. PICK m \in Nat \ T : \A k \in Nat \ T : m <= k
  BY NatMin
<1>2. m - 1 \in Nat /\ ~(m <= m - 1) /\ m - 1 + 1 = m
  BY <1>1
<1>3. m - 1 \in T
  BY <1>1, <1>2
<1> QED BY <1>1, <1>2, <1>3

\* In a finite linear order, where D[i] are the elements up to i, their number
\* is the place of i: every place from 1 on is taken, once, and in order.
Linear(I, D) ==
  /\ IsFiniteSet(I) /\ D \in [I -> SUBSET I]
  /\ \A i \in I : i \in D[i]
  /\ \A i, j \in I : j \in D[i] => D[j] \subseteq D[i]
  /\ \A i, j \in I : i # j => (i \in D[j] <=> j \notin D[i])

LEMMA Places ==
  ASSUME NEW I, NEW D, Linear(I, D)
  PROVE  /\ Cardinality(I) \in Nat
         /\ \A i \in I : Cardinality(D[i]) \in 1..Cardinality(I)
         /\ \A i, j \in I : Cardinality(D[i]) = Cardinality(D[j]) => i = j
         /\ \A i, j \in I : Cardinality(D[j]) < Cardinality(D[i]) => j \in D[i] /\ j # i
         /\ \A n \in 1..Cardinality(I) : \E i \in I : Cardinality(D[i]) = n
<1>1. IsFiniteSet(I) /\ Cardinality(I) \in Nat
  BY FS_CardinalityType DEF Linear
<1>2. ASSUME NEW i \in I
      PROVE  /\ IsFiniteSet(D[i]) /\ Cardinality(D[i]) \in 1..Cardinality(I)
  <2>1. D[i] \in SUBSET I /\ i \in D[i]
    BY DEF Linear
  <2>2. IsFiniteSet(D[i]) /\ Cardinality(D[i]) <= Cardinality(I)
    BY <1>1, <2>1, FS_Subset
  <2>3. Cardinality(D[i]) \in Nat /\ Cardinality(D[i]) # 0
    BY <2>1, <2>2, FS_CardinalityType, FS_EmptySet
  <2> QED BY <1>1, <2>2, <2>3
<1>3. ASSUME NEW i \in I, NEW j \in I, j \in D[i], j # i
      PROVE  Cardinality(D[j]) < Cardinality(D[i])
  <2>1. D[j] \in SUBSET D[i] /\ i \in D[i] /\ i \notin D[j]
    BY <1>3 DEF Linear
  <2>2. Cardinality(D[j]) <= Cardinality(D[i]) /\ Cardinality(D[j]) # Cardinality(D[i])
    BY <1>2, <2>1, FS_Subset
  <2> QED BY <1>1, <1>2, <2>2
<1>4. ASSUME NEW i \in I, NEW j \in I
      PROVE  /\ Cardinality(D[i]) = Cardinality(D[j]) => i = j
             /\ Cardinality(D[j]) < Cardinality(D[i]) => j \in D[i] /\ j # i
  <2>1. /\ Cardinality(D[i]) \in Nat /\ Cardinality(D[j]) \in Nat
    BY <1>1, <1>2
  <2>2. i # j => i \in D[j] \/ j \in D[i]
    BY DEF Linear
  <2> QED BY <1>3, <2>1, <2>2
<1>5. ASSUME NEW n \in 1..Cardinality(I)
      PROVE  \E i \in I : Cardinality(D[i]) = n
  <2> DEFINE f == [i \in I |-> Cardinality(D[i])]
             N == 1..Cardinality(I)
  <2>1. f \in Injection(I, N)
    BY <1>2, <1>4 DEF Injection, IsInjective
  <2>2. IsFiniteSet(N) /\ Cardinality(N) = Cardinality(I)
    <3>1. 1 \in Int /\ Cardinality(I) \in Int
      BY <1>1
    <3> QED BY <1>1, <3>1, FS_Interval
  <2>3. f \in Surjection(I, N)
    <3> HIDE DEF f, N
    <3> QED BY <2>1, <2>2, FS_Injection
  <2> QED BY <2>3 DEF Surjection
<1> QED BY <1>1, <1>2, <1>4, <1>5

-------------------------------------------------------------------------------
\* Of two different resources of a document one goes before the other, never
\* both, and the order is transitive: the sorted list does not depend on the
\* order in which versions and resources were collected ("Ensure
\* deterministic output", apiresource.go:39).
THEOREM OneOrder ==
  ASSUME NEW preferred \in GroupVersions,
         NEW x \in Entries, NEW y \in Entries, NEW z \in Entries
  PROVE  /\ x # y => Before(preferred, x, y) \/ Before(preferred, y, x)
         /\ ~(Before(preferred, x, y) /\ Before(preferred, y, x))
         /\ Before(preferred, x, y) /\ Before(preferred, y, z) => Before(preferred, x, z)
<1>1. \A e \in Entries :
        /\ e.name \in ResourceNames /\ e.version \in GroupVersions
        /\ NameRank[e.name] \in Nat /\ VersionRank[e.version] \in Nat
  BY RanksAssumption DEF Entries
<1>2. \A e, f \in Entries : e.name = f.name /\ e.version = f.version => e = f
  BY DEF Entries
<1>3. \A e, f \in Entries :
        /\ NameRank[e.name] = NameRank[f.name] => e.name = f.name
        /\ VersionRank[e.version] = VersionRank[f.version] => e.version = f.version
  BY <1>1, RanksAssumption
<1>4. x # y => Before(preferred, x, y) \/ Before(preferred, y, x)
  BY <1>1, <1>2, <1>3 DEF Before
<1>5. ~(Before(preferred, x, y) /\ Before(preferred, y, x))
  BY <1>1, <1>2, <1>3 DEF Before
<1>6. Before(preferred, x, y) /\ Before(preferred, y, z) => Before(preferred, x, z)
  BY <1>1, <1>2, <1>3 DEF Before
<1> QED BY <1>4, <1>5, <1>6

\* The version the order puts first is the one a resource should be taken
\* from: an entry no other entry of its name goes before is the best.
THEOREM FirstIsBest ==
  ASSUME NEW doc \in Documents, NEW x \in Entries,
         Lists(doc, x.version, x.name),
         \A y \in Entries :
           (y.name = x.name /\ y # x /\ Lists(doc, y.version, y.name))
             => Before(doc.preferred, x, y)
  PROVE  IsBest(doc, x.version, x.name)
<1> SUFFICES ASSUME NEW u \in GroupVersions \ {x.version}, Lists(doc, u, x.name)
    PROVE  x.version = doc.preferred
             \/ (u # doc.preferred /\ VersionRank[x.version] > VersionRank[u])
  BY DEF IsBest
<1> DEFINE y == [name |-> x.name, version |-> u]
<1>1. y \in Entries /\ y.name = x.name /\ y.version = u /\ y # x
  BY DEF Entries
<1> HIDE DEF y
<1>2. Before(doc.preferred, x, y)
  BY <1>1
<1> QED BY <1>1, <1>2 DEF Before

-------------------------------------------------------------------------------
(* Collecting: the entries of all versions, one version after the other.   *)

\* flatten is the function of FlattenSeq: flatten[i] is what the first i
\* sequences make together.
Flattens(s, n, f) ==
  f = [i \in 1..n |-> IF i = 1 THEN s[i] ELSE f[i - 1] \o s[i]]

LEMMA FlattenExists ==
  ASSUME NEW s
  PROVE  \A n \in Nat : \E f : Flattens(s, n, f)
<1> DEFINE T == {n \in Nat : \E f : Flattens(s, n, f)}
<1>1. 0 \in T
  <2>1. \A i \in 1..0 : FALSE
    OBVIOUS
  <2>2. Flattens(s, 0, [i \in 1..0 |-> i])
    BY <2>1 DEF Flattens
  <2> QED BY <2>2
<1>2. ASSUME NEW n \in T PROVE n + 1 \in T
  <2>1. PICK f : Flattens(s, n, f)
    BY <1>2
  <2> DEFINE next(i) == IF i = 1 THEN s[i] ELSE f[i - 1] \o s[i]
             g == [i \in 1..(n + 1) |-> next(i)]
  <2>2. \A i \in 1..n : f[i] = next(i)
    BY <2>1 DEF Flattens
  <2>3. \A i \in 1..n : i \in 1..(n + 1)
    OBVIOUS
  <2>4. \A i \in 1..n : g[i] = f[i]
    BY <2>2, <2>3
  <2>5. ASSUME NEW i \in 1..(n + 1)
        PROVE  g[i] = IF i = 1 THEN s[i] ELSE g[i - 1] \o s[i]
    <3>1. g[i] = next(i)
      OBVIOUS
    <3>2. CASE i = 1
      BY <3>1, <3>2
    <3>3. CASE i # 1
      <4>1. i - 1 \in 1..n
        BY <3>3
      <4>2. g[i - 1] = f[i - 1]
        BY <2>4, <4>1
      <4> HIDE DEF g
      <4> QED BY <3>1, <3>3, <4>2
    <3> QED BY <3>2, <3>3
  <2>6. Flattens(s, n + 1, g)
    <3>1. DOMAIN g = 1..(n + 1) /\ g = [i \in 1..(n + 1) |-> g[i]]
      OBVIOUS
    <3> HIDE DEF g
    <3> QED BY <2>5, <3>1 DEF Flattens
  <2>7. \E h : Flattens(s, n + 1, h)
    BY <2>6
  <2> QED BY <2>7
<1> HIDE DEF T
<1>3. \A n \in Nat : n \in T
  <2>1. T \subseteq Nat
    BY DEF T
  <2> QED BY <1>1, <1>2, <2>1, Induction
<1> QED BY <1>3 DEF T

\* What occurs in a sequence made of others is what occurs in one of them.
LEMMA FlattenRange ==
  ASSUME NEW S, NEW s \in Seq(Seq(S))
  PROVE  /\ FlattenSeq(s) \in Seq(S)
         /\ Range(FlattenSeq(s)) = {x \in S : \E i \in DOMAIN s : x \in Range(s[i])}
<1> DEFINE N == Len(s)
<1>1. N \in Nat /\ DOMAIN s = 1..N /\ \A i \in 1..N : s[i] \in Seq(S)
  BY LenProperties, ElementOfSeq
<1>2. CASE N = 0
  <2>1. FlattenSeq(s) = s /\ s = << >>
    BY <1>2, EmptySeq DEF FlattenSeq
  <2>2. << >> \in Seq(S) /\ DOMAIN << >> = {}
    OBVIOUS
  <2> QED BY <2>1, <2>2 DEF Range
<1>3. CASE N # 0
  <2> DEFINE f == CHOOSE g : Flattens(s, N, g)
  <2>1. Flattens(s, N, f)
    BY <1>1, FlattenExists
  <2>2. FlattenSeq(s) = f[N]
    BY <1>3 DEF FlattenSeq, Flattens
  <2> HIDE DEF f
  <2>3. f[1] = s[1]
    BY <1>1, <1>3, <2>1 DEF Flattens
  <2>4. \A i \in 1..N : i # 1 => f[i] = f[i - 1] \o s[i]
    BY <2>1 DEF Flattens
  <2> DEFINE Upto(i) == {x \in S : \E j \in 1..i : x \in Range(s[j])}
             T == {i \in Nat : i + 1 <= N =>
                     f[i + 1] \in Seq(S) /\ Range(f[i + 1]) = Upto(i + 1)}
  <2>5. 0 \in T
    <3>1. s[1] \in Seq(S) /\ 0 + 1 = 1
      BY <1>1, <1>3
    <3>2. Range(s[1]) \subseteq S
      BY <3>1, LenProperties, ElementOfSeq DEF Range
    <3>3. Upto(1) = Range(s[1])
      BY <3>2
    <3> QED BY <2>3, <3>1, <3>3
  <2>6. ASSUME NEW n \in T PROVE n + 1 \in T
    <3> n \in Nat
      OBVIOUS
    <3> SUFFICES ASSUME n + 1 + 1 <= N
        PROVE  f[n + 1 + 1] \in Seq(S) /\ Range(f[n + 1 + 1]) = Upto(n + 1 + 1)
      <4>1. n + 1 \in Nat
        OBVIOUS
      <4> HIDE DEF N, Upto
      <4> QED BY <4>1
    <3> DEFINE m == n + 1
    <3>1. m \in Nat /\ m >= 1 /\ m + 1 <= N /\ m <= N /\ m + 1 \in 1..N
      BY <1>1, <2>6
    <3>2. f[m] \in Seq(S) /\ Range(f[m]) = Upto(m)
      BY <2>6, <3>1
    <3>3. f[m + 1] = f[m] \o s[m + 1] /\ s[m + 1] \in Seq(S)
      <4>1. m + 1 # 1 /\ m + 1 - 1 = m
        BY <3>1
      <4> HIDE DEF m
      <4> DEFINE k == m + 1
      <4>2. k \in 1..N /\ k # 1 /\ k - 1 = m
        BY <3>1, <4>1
      <4> HIDE DEF k, N
      <4>3. f[k] = f[k - 1] \o s[k]
        BY <2>4, <4>2
      <4> QED BY <1>1, <3>1, <4>2, <4>3 DEF k
    <3> HIDE DEF m, Upto, T
    <3>4. f[m + 1] \in Seq(S) /\ Range(f[m + 1]) = Range(f[m]) \cup Range(s[m + 1])
      BY <3>2, <3>3, RangeConcatenation
    <3>5. Range(s[m + 1]) \subseteq S
      BY <3>3, LenProperties, ElementOfSeq DEF Range
    <3>6. Upto(m + 1) = Upto(m) \cup Range(s[m + 1])
      <4>1. \A j : j \in 1..(m + 1) <=> j \in 1..m \/ j = m + 1
        BY <3>1
      <4> QED BY <3>5, <4>1, Zenon DEF Upto
    <3> QED BY <3>2, <3>4, <3>6 DEF m
  <2>7. N - 1 \in T
    <3>1. T \subseteq Nat /\ N - 1 \in Nat
      BY <1>1, <1>3
    <3> HIDE DEF T
    <3> QED BY <2>5, <2>6, <3>1, Induction
  <2>8. f[N] \in Seq(S) /\ Range(f[N]) = Upto(N)
    <3>1. N - 1 + 1 = N /\ N <= N
      BY <1>1
    <3> QED BY <2>7, <3>1
  <2> QED BY <1>1, <2>2, <2>8
<1> QED BY <1>2, <1>3

\* In any order of all versions, what is collected are the entries of the
\* document.
LEMMA CollectsAll ==
  ASSUME NEW doc \in Documents, NEW walk \in Seq(GroupVersions), Range(walk) = GroupVersions
  PROVE  /\ Collect(doc, walk) \in Seq(Entries)
         /\ Range(Collect(doc, walk)) = {e \in Entries : Lists(doc, e.version, e.name)}
<1> DEFINE entry(v, j) == [name |-> doc.listed[v][j], version |-> v]
           part(v) == [j \in DOMAIN doc.listed[v] |-> entry(v, j)]
           s == [i \in DOMAIN walk |-> part(walk[i])]
<1>1. \A v \in GroupVersions : doc.listed[v] \in Seq(ResourceNames)
  BY DEF Documents
<1>2. ASSUME NEW v \in GroupVersions
      PROVE  /\ part(v) \in Seq(Entries)
             /\ \A e \in Entries : e \in Range(part(v)) <=> e.version = v /\ Lists(doc, v, e.name)
  <2>1. /\ DOMAIN doc.listed[v] = 1..Len(doc.listed[v]) /\ Len(doc.listed[v]) \in Nat
        /\ \A j \in DOMAIN doc.listed[v] : doc.listed[v][j] \in ResourceNames
    BY <1>1, LenProperties, ElementOfSeq
  <2>2. \A j \in DOMAIN doc.listed[v] : entry(v, j) \in Entries
    BY <2>1 DEF Entries
  <2>3. part(v) \in Seq(Entries)
    BY <2>1, <2>2
  <2>4. ASSUME NEW e \in Entries
        PROVE  e \in Range(part(v)) <=> e.version = v /\ Lists(doc, v, e.name)
    <3>1. e = [name |-> e.name, version |-> e.version]
      BY DEF Entries
    <3>2. e \in Range(part(v)) <=> \E j \in DOMAIN doc.listed[v] : e = entry(v, j)
      BY DEF Range
    <3> QED BY <3>1, <3>2 DEF Lists
  <2> QED BY <2>3, <2>4
<1>3. Collect(doc, walk) = FlattenSeq(s)
  BY DEF Collect
<1>4. DOMAIN walk = 1..Len(walk) /\ Len(walk) \in Nat /\ \A i \in DOMAIN walk : walk[i] \in GroupVersions
  BY LenProperties, ElementOfSeq
<1> HIDE DEF part
<1>5. s \in Seq(Seq(Entries)) /\ DOMAIN s = DOMAIN walk
  BY <1>2, <1>4
<1>6. \A i \in DOMAIN s : s[i] = part(walk[i]) /\ walk[i] \in GroupVersions
  BY <1>4, <1>5
<1>7. \A v \in GroupVersions : \E i \in DOMAIN s : walk[i] = v
  BY <1>5 DEF Range
<1> HIDE DEF s
<1>8. /\ FlattenSeq(s) \in Seq(Entries)
      /\ Range(FlattenSeq(s)) = {x \in Entries : \E i \in DOMAIN s : x \in Range(s[i])}
  BY <1>5, FlattenRange
<1>9. ASSUME NEW e \in Entries
      PROVE  (\E i \in DOMAIN s : e \in Range(s[i])) <=> Lists(doc, e.version, e.name)
  <2>1. e.version \in GroupVersions
    BY DEF Entries
  <2> QED BY <1>2, <1>6, <1>7, <2>1
<1> QED BY <1>3, <1>8, <1>9

-------------------------------------------------------------------------------
(* Sorting and picking.                                                    *)

\* Every entry is left in the list, and of two entries the one on the left
\* goes before the other or is the same.
InOrder(preferred, s) ==
  \A m, n \in DOMAIN s : m < n => s[m] = s[n] \/ Before(preferred, s[m], s[n])

LEMMA SortedRight ==
  ASSUME NEW preferred \in GroupVersions, NEW s \in Seq(Entries)
  PROVE  /\ Sorted(s, preferred) \in Seq(Entries)
         /\ Range(Sorted(s, preferred)) = Range(s)
         /\ InOrder(preferred, Sorted(s, preferred))
<1> DEFINE I == DOMAIN s
           D == [i \in I |-> {j \in I : \/ Before(preferred, s[j], s[i])
                                        \/ j <= i /\ ~Before(preferred, s[i], s[j])}]
           at(n) == CHOOSE i \in I : Place(s, preferred)[i] = n
           t == [n \in I |-> s[at(n)]]
<1>1. /\ I = 1..Len(s) /\ Len(s) \in Nat /\ I \subseteq Nat
      /\ \A i \in I : s[i] \in Entries
  BY LenProperties, ElementOfSeq
<1>2. ASSUME NEW i \in I, NEW j \in I
      PROVE  j \in D[i] <=> Before(preferred, s[j], s[i]) \/ (s[j] = s[i] /\ j <= i)
  <2>1. /\ s[i] \in Entries /\ s[j] \in Entries
        /\ s[i] # s[j] => Before(preferred, s[i], s[j]) \/ Before(preferred, s[j], s[i])
        /\ ~(Before(preferred, s[i], s[j]) /\ Before(preferred, s[j], s[i]))
    BY <1>1, OneOrder
  <2>2. j \in D[i] <=> \/ Before(preferred, s[j], s[i])
                       \/ j <= i /\ ~Before(preferred, s[i], s[j])
    OBVIOUS
  <2> QED BY <2>1, <2>2
<1>3. Place(s, preferred) = [i \in I |-> Cardinality(D[i])]
  BY DEF Place
<1>4. IsFiniteSet(I) /\ Cardinality(I) = Len(s)
  BY <1>1, FS_Interval
<1>5. D \in [I -> SUBSET I]
  OBVIOUS
<1>6. Sorted(s, preferred) = t
  BY DEF Sorted
<1> HIDE DEF I, D
<1>7. Linear(I, D)
  <2>1. ASSUME NEW i \in I PROVE i \in D[i]
    BY <1>1, <1>2
  <2>2. ASSUME NEW i \in I, NEW j \in I, j \in D[i], NEW k \in I, k \in D[j] PROVE k \in D[i]
    <3>1. /\ s[i] \in Entries /\ s[j] \in Entries /\ s[k] \in Entries
          /\ i \in Nat /\ j \in Nat /\ k \in Nat
      BY <1>1
    <3>2. /\ Before(preferred, s[j], s[i]) \/ (s[j] = s[i] /\ j <= i)
          /\ Before(preferred, s[k], s[j]) \/ (s[k] = s[j] /\ k <= j)
      BY <1>2, <2>2
    <3>3. Before(preferred, s[k], s[j]) /\ Before(preferred, s[j], s[i])
            => Before(preferred, s[k], s[i])
      BY <3>1, OneOrder
    <3>4. Before(preferred, s[k], s[i]) \/ (s[k] = s[i] /\ k <= i)
      BY <3>1, <3>2, <3>3
    <3> QED BY <1>2, <3>4
  <2>3. ASSUME NEW i \in I, NEW j \in I, i # j PROVE i \in D[j] <=> j \notin D[i]
    <3>1. /\ s[i] \in Entries /\ s[j] \in Entries /\ i \in Nat /\ j \in Nat
      BY <1>1
    <3>2. /\ s[i] # s[j] => Before(preferred, s[i], s[j]) \/ Before(preferred, s[j], s[i])
          /\ ~(Before(preferred, s[i], s[j]) /\ Before(preferred, s[j], s[i]))
          /\ s[i] = s[j] => ~Before(preferred, s[i], s[j])
      BY <3>1, OneOrder
    <3> QED BY <1>2, <2>3, <3>1, <3>2
  <2>4. \A i, j \in I : j \in D[i] => D[j] \subseteq D[i]
    BY <1>5, <2>2
  <2> QED BY <1>4, <1>5, <2>1, <2>3, <2>4 DEF Linear
<1>8. ASSUME NEW n \in I
      PROVE  at(n) \in I /\ Cardinality(D[at(n)]) = n
  <2>1. \E i \in I : Cardinality(D[i]) = n
    BY <1>1, <1>4, <1>7, Places
  <2>2. \E i \in I : Place(s, preferred)[i] = n
    BY <1>3, <2>1
  <2>3. at(n) \in I /\ Place(s, preferred)[at(n)] = n
    BY <2>2
  <2> HIDE DEF at
  <2> QED BY <1>3, <2>3
<1>9. t \in Seq(Entries) /\ DOMAIN t = I /\ \A n \in I : t[n] = s[at(n)]
  BY <1>1, <1>8
<1>10. Range(t) = Range(s)
  <2>1. ASSUME NEW i \in I PROVE \E n \in I : at(n) = i
    <3>1. Cardinality(D[i]) \in I
      BY <1>1, <1>4, <1>7, Places
    <3>2. at(Cardinality(D[i])) \in I /\ Cardinality(D[at(Cardinality(D[i]))]) = Cardinality(D[i])
      BY <1>8, <3>1
    <3>3. at(Cardinality(D[i])) = i
      BY <1>7, <3>2, Places
    <3> QED BY <3>1, <3>3
  <2> HIDE DEF at, t
  <2>2. DOMAIN s = I
    BY DEF I
  <2> QED BY <1>8, <1>9, <2>1, <2>2 DEF Range
<1>11. InOrder(preferred, t)
  <2> SUFFICES ASSUME NEW m \in I, NEW n \in I, m < n
      PROVE  t[m] = t[n] \/ Before(preferred, t[m], t[n])
    BY <1>9 DEF InOrder
  <2> HIDE DEF at, t
  <2>1. /\ at(m) \in I /\ Cardinality(D[at(m)]) = m
        /\ at(n) \in I /\ Cardinality(D[at(n)]) = n
    BY <1>8
  <2>2. Cardinality(D[at(m)]) < Cardinality(D[at(n)])
    BY <2>1
  <2>3. at(m) \in D[at(n)]
    BY <1>7, <2>1, <2>2, Places
  <2> QED BY <1>2, <1>9, <2>1, <2>3
<1> HIDE DEF t
<1> QED BY <1>6, <1>9, <1>10, <1>11

\* PickFirsts lists the first entries of every name, in their order.
LEMMA PickRight ==
  ASSUME NEW s \in Seq(Entries)
  PROVE  /\ PickFirsts(s) \in Seq(Entries)
         /\ \E at \in [DOMAIN PickFirsts(s) -> DOMAIN s] :
              /\ \A n \in DOMAIN PickFirsts(s) :
                   PickFirsts(s)[n] = s[at[n]] /\ FirstOfName(s, at[n])
              /\ \A m, n \in DOMAIN PickFirsts(s) : m < n => at[m] < at[n]
              /\ \A i \in DOMAIN s :
                   FirstOfName(s, i) => \E n \in DOMAIN PickFirsts(s) : at[n] = i
<1> DEFINE I == {i \in DOMAIN s : FirstOfName(s, i)}
           D == [i \in I |-> I \cap 1..i]
           N == Cardinality(I)
           atN(n) == CHOOSE i \in I : Cardinality(I \cap 1..i) = n
           at == [n \in 1..N |-> atN(n)]
           r == [n \in 1..N |-> s[atN(n)]]
<1>1. /\ DOMAIN s = 1..Len(s) /\ Len(s) \in Nat /\ \A i \in I : i \in Nat /\ i >= 1
      /\ \A i \in DOMAIN s : s[i] \in Entries
  BY LenProperties, ElementOfSeq
<1>2. I \subseteq DOMAIN s /\ \A i \in DOMAIN s : i \in I <=> FirstOfName(s, i)
  OBVIOUS
<1>3. PickFirsts(s) = r
  BY DEF PickFirsts
<1> HIDE DEF I
<1>4. Linear(I, D)
  <2>1. IsFiniteSet(I)
    <3>1. IsFiniteSet(1..Len(s))
      BY <1>1, FS_Interval
    <3>2. I \in SUBSET (1..Len(s))
      BY <1>1, <1>2
    <3> HIDE DEF D
    <3> QED BY <3>1, <3>2, FS_Subset
  <2>2. \A i, j \in I : j \in D[i] <=> j <= i
    BY <1>1
  <2>3. D \in [I -> SUBSET I]
    OBVIOUS
  <2> HIDE DEF D
  <2>4. \A i \in I : i \in D[i]
    BY <1>1, <2>2
  <2>5. ASSUME NEW i \in I, NEW j \in I, j \in D[i] PROVE D[j] \subseteq D[i]
    <3>1. ASSUME NEW k \in D[j] PROVE k \in D[i]
      <4>1. k \in I /\ k \in Nat /\ j \in Nat /\ i \in Nat
        BY <1>1, <2>3
      <4>2. k <= j /\ j <= i
        BY <2>2, <2>5, <3>1, <4>1
      <4> QED BY <2>2, <4>1, <4>2
    <3> QED BY <3>1
  <2>6. ASSUME NEW i \in I, NEW j \in I, i # j PROVE i \in D[j] <=> j \notin D[i]
    <3>1. j \in Nat /\ i \in Nat
      BY <1>1
    <3> QED BY <2>2, <2>6, <3>1
  <2> QED BY <2>1, <2>3, <2>4, <2>5, <2>6 DEF Linear
<1>5. /\ N \in Nat
      /\ \A i \in I : Cardinality(I \cap 1..i) \in 1..N
      /\ \A i, j \in I : Cardinality(I \cap 1..i) = Cardinality(I \cap 1..j) => i = j
      /\ \A i, j \in I : Cardinality(I \cap 1..j) < Cardinality(I \cap 1..i) => j < i
      /\ \A n \in 1..N : \E i \in I : Cardinality(I \cap 1..i) = n
  <2>1. \A i \in I : D[i] = I \cap 1..i
    OBVIOUS
  <2>2. \A i, j \in I : j \in D[i] /\ j # i => j < i
    BY <1>1
  <2> HIDE DEF D
  <2>3. /\ N \in Nat
        /\ \A i \in I : Cardinality(D[i]) \in 1..N
        /\ \A i, j \in I : Cardinality(D[i]) = Cardinality(D[j]) => i = j
        /\ \A i, j \in I : Cardinality(D[j]) < Cardinality(D[i]) => j \in D[i] /\ j # i
        /\ \A n \in 1..N : \E i \in I : Cardinality(D[i]) = n
    BY <1>4, Places
  <2> HIDE DEF N
  <2> QED BY <2>1, <2>2, <2>3
<1> HIDE DEF N
<1>6. ASSUME NEW n \in 1..N PROVE atN(n) \in I /\ Cardinality(I \cap 1..atN(n)) = n
  BY <1>5
<1>7. /\ r \in Seq(Entries) /\ DOMAIN r = 1..N /\ DOMAIN at = 1..N
      /\ \A n \in 1..N : r[n] = s[at[n]] /\ at[n] = atN(n)
  <2>1. \A n \in 1..N : s[atN(n)] \in Entries
    BY <1>1, <1>2, <1>6
  <2> HIDE DEF atN
  <2>2. r \in [1..N -> Entries]
    BY <2>1
  <2> QED BY <1>5, <2>2
<1>8. at \in [1..N -> DOMAIN s]
  BY <1>2, <1>6
<1> HIDE DEF at, r, atN
<1>9. \A n \in 1..N : FirstOfName(s, at[n])
  BY <1>2, <1>6, <1>7
<1>10. ASSUME NEW m \in 1..N, NEW n \in 1..N, m < n PROVE at[m] < at[n]
  <2>1. /\ at[m] \in I /\ Cardinality(I \cap 1..at[m]) = m
        /\ at[n] \in I /\ Cardinality(I \cap 1..at[n]) = n
    BY <1>6, <1>7
  <2>2. Cardinality(I \cap 1..at[m]) < Cardinality(I \cap 1..at[n])
    BY <1>10, <2>1
  <2> QED BY <1>5, <2>1, <2>2
<1>11. ASSUME NEW i \in DOMAIN s, FirstOfName(s, i) PROVE \E n \in 1..N : at[n] = i
  <2>1. i \in I /\ Cardinality(I \cap 1..i) \in 1..N
    BY <1>2, <1>5, <1>11
  <2>2. at[Cardinality(I \cap 1..i)] = i
    BY <1>5, <1>6, <1>7, <2>1
  <2> QED BY <2>1, <2>2
<1>12. /\ DOMAIN r = 1..N
       /\ \A n \in 1..N : r[n] = s[at[n]] /\ FirstOfName(s, at[n])
       /\ \A m, n \in 1..N : m < n => at[m] < at[n]
       /\ \A i \in DOMAIN s : FirstOfName(s, i) => \E n \in 1..N : at[n] = i
  BY <1>7, <1>9, <1>10, <1>11
<1>13. /\ r \in Seq(Entries)
       /\ \E a \in [DOMAIN r -> DOMAIN s] :
            /\ \A n \in DOMAIN r : r[n] = s[a[n]] /\ FirstOfName(s, a[n])
            /\ \A m, n \in DOMAIN r : m < n => a[m] < a[n]
            /\ \A i \in DOMAIN s : FirstOfName(s, i) => \E n \in DOMAIN r : a[n] = i
  <2>1. at \in [DOMAIN r -> DOMAIN s]
    BY <1>8, <1>12
  <2>2. /\ \A n \in DOMAIN r : r[n] = s[at[n]] /\ FirstOfName(s, at[n])
        /\ \A m, n \in DOMAIN r : m < n => at[m] < at[n]
        /\ \A i \in DOMAIN s : FirstOfName(s, i) => \E n \in DOMAIN r : at[n] = i
    BY <1>12
  <2> QED BY <1>7, <2>1, <2>2, Zenon
<1> QED BY <1>3, <1>13, Zenon

\* An entry of every name in a sequence is the first of it.
LEMMA FirstExists ==
  ASSUME NEW s \in Seq(Entries), NEW i \in DOMAIN s
  PROVE  \E k \in DOMAIN s : s[k].name = s[i].name /\ FirstOfName(s, k)
<1> DEFINE T == {k \in DOMAIN s : s[k].name = s[i].name}
<1>1. DOMAIN s = 1..Len(s) /\ Len(s) \in Nat
  BY LenProperties
<1>2. T \in SUBSET Nat /\ T # {}
  BY <1>1
<1>3. PICK k \in T : \A j \in T : k <= j
  <2> HIDE DEF T
  <2> QED BY <1>2, NatMin
<1>4. ASSUME NEW j \in 1..(k - 1) PROVE s[j].name # s[k].name
  <2>1. j \in DOMAIN s /\ ~(k <= j)
    BY <1>1, <1>4
  <2> QED BY <1>3, <2>1
<1> QED BY <1>3, <1>4 DEF FirstOfName

\* The list with each name once, in the order of the sort, and each name under
\* the version it should be taken from.
Normal(doc, r) ==
  /\ r \in Seq(Entries)
  /\ \A n \in DOMAIN r : IsBest(doc, r[n].version, r[n].name)
  /\ \A m, n \in DOMAIN r : r[m].name = r[n].name => m = n
  /\ \A name \in ResourceNames :
       (\E v \in GroupVersions : Lists(doc, v, name)) => \E n \in DOMAIN r : r[n].name = name
  /\ \A m, n \in DOMAIN r : m < n => Before(doc.preferred, r[m], r[n])

\* Of any document and whatever the order in which the map of its versions is
\* walked, NormalizeAPIGroupResources (apiresource.go:22) makes a list of all
\* its resources with each one once, under the preferred version if that lists
\* it and else under the highest that does, sorted.
THEOREM NormalizedRight ==
  ASSUME NEW doc \in Documents, NEW walk \in Seq(GroupVersions), Range(walk) = GroupVersions
  PROVE  Normal(doc, NormalizeAPIGroupResources(doc, walk))
<1> DEFINE c == Collect(doc, walk)
           s == Sorted(c, doc.preferred)
           r == PickFirsts(s)
<1>1. /\ c \in Seq(Entries)
      /\ Range(c) = {e \in Entries : Lists(doc, e.version, e.name)}
  BY CollectsAll
<1>2. doc.preferred \in GroupVersions
  BY DEF Documents
<1> HIDE DEF c
<1>3. s \in Seq(Entries) /\ Range(s) = Range(c) /\ InOrder(doc.preferred, s)
  BY <1>1, <1>2, SortedRight
<1> HIDE DEF s
<1>4. /\ DOMAIN s = 1..Len(s) /\ Len(s) \in Nat
      /\ \A i \in DOMAIN s : s[i] \in Entries /\ Lists(doc, s[i].version, s[i].name)
      /\ \A e \in Entries : Lists(doc, e.version, e.name) => \E i \in DOMAIN s : s[i] = e
  BY <1>1, <1>3, LenProperties DEF Range
<1>5. /\ r \in Seq(Entries)
      /\ \E at \in [DOMAIN r -> DOMAIN s] :
           /\ \A n \in DOMAIN r : r[n] = s[at[n]] /\ FirstOfName(s, at[n])
           /\ \A m, n \in DOMAIN r : m < n => at[m] < at[n]
           /\ \A i \in DOMAIN s : FirstOfName(s, i) => \E n \in DOMAIN r : at[n] = i
  BY <1>3, PickRight
<1> HIDE DEF r
<1>6. PICK at \in [DOMAIN r -> DOMAIN s] :
        /\ \A n \in DOMAIN r : r[n] = s[at[n]] /\ FirstOfName(s, at[n])
        /\ \A m, n \in DOMAIN r : m < n => at[m] < at[n]
        /\ \A i \in DOMAIN s : FirstOfName(s, i) => \E n \in DOMAIN r : at[n] = i
  BY <1>5
<1>7. DOMAIN r = 1..Len(r) /\ Len(r) \in Nat
  BY <1>5, LenProperties
<1>8. ASSUME NEW n \in DOMAIN r PROVE IsBest(doc, r[n].version, r[n].name)
  <2>1. /\ at[n] \in DOMAIN s /\ at[n] \in Nat
        /\ r[n] = s[at[n]] /\ FirstOfName(s, at[n])
        /\ r[n] \in Entries /\ Lists(doc, r[n].version, r[n].name)
    BY <1>4, <1>6
  <2>2. ASSUME NEW y \in Entries, y.name = r[n].name, y # r[n], Lists(doc, y.version, y.name)
        PROVE  Before(doc.preferred, r[n], y)
    <3>1. PICK j \in DOMAIN s : s[j] = y
      BY <1>4, <2>2
    <3>2. j \notin 1..(at[n] - 1)
      BY <2>1, <2>2, <3>1 DEF FirstOfName
    <3>3. at[n] < j
      <4>1. j # at[n]
        BY <2>1, <2>2, <3>1
      <4> QED BY <1>4, <2>1, <3>2, <4>1
    <3> QED BY <1>3, <2>1, <2>2, <3>1, <3>3 DEF InOrder
  <2> QED BY <2>1, <2>2, FirstIsBest
<1>9. ASSUME NEW m \in DOMAIN r, NEW n \in DOMAIN r, m < n
      PROVE  r[m].name # r[n].name /\ Before(doc.preferred, r[m], r[n])
  <2>1. /\ at[m] \in DOMAIN s /\ at[n] \in DOMAIN s /\ at[m] < at[n]
        /\ r[m] = s[at[m]] /\ r[n] = s[at[n]] /\ FirstOfName(s, at[n])
    BY <1>6, <1>9
  <2>2. at[m] \in 1..(at[n] - 1)
    BY <1>4, <2>1
  <2>3. r[m].name # r[n].name
    BY <2>1, <2>2 DEF FirstOfName
  <2>4. s[at[m]] = s[at[n]] \/ Before(doc.preferred, s[at[m]], s[at[n]])
    BY <1>3, <2>1 DEF InOrder
  <2> QED BY <2>1, <2>3, <2>4
<1>10. ASSUME NEW m \in DOMAIN r, NEW n \in DOMAIN r, r[m].name = r[n].name PROVE m = n
  BY <1>7, <1>9, <1>10
<1>11. ASSUME NEW name \in ResourceNames, NEW v \in GroupVersions, Lists(doc, v, name)
       PROVE  \E n \in DOMAIN r : r[n].name = name
  <2> DEFINE e == [name |-> name, version |-> v]
  <2>1. e \in Entries /\ e.name = name /\ e.version = v
    BY DEF Entries
  <2> HIDE DEF e
  <2>2. PICK i \in DOMAIN s : s[i] = e
    BY <1>4, <1>11, <2>1
  <2>3. PICK k \in DOMAIN s : s[k].name = s[i].name /\ FirstOfName(s, k)
    BY <1>3, FirstExists
  <2>4. PICK n \in DOMAIN r : at[n] = k
    BY <1>6, <2>3
  <2> QED BY <1>6, <2>1, <2>2, <2>3, <2>4
<1>12. Normal(doc, r)
  BY <1>5, <1>8, <1>9, <1>10, <1>11 DEF Normal
<1> QED BY <1>12 DEF NormalizeAPIGroupResources, r, s, c

\* Where two lists of the same entries agree below a place, they agree at it.
LEMMA SameAt ==
  ASSUME NEW preferred \in GroupVersions, NEW p \in Seq(Entries), NEW q \in Seq(Entries),
         Range(p) = Range(q),
         \A m, n \in DOMAIN p : m < n => Before(preferred, p[m], p[n]),
         \A m, n \in DOMAIN q : m < n => Before(preferred, q[m], q[n]),
         NEW k \in DOMAIN p,
         \A j \in 1..(k - 1) : (j \in DOMAIN p <=> j \in DOMAIN q) /\ p[j] = q[j]
  PROVE  k \in DOMAIN q /\ p[k] = q[k]
<1>1. /\ DOMAIN p = 1..Len(p) /\ Len(p) \in Nat
      /\ DOMAIN q = 1..Len(q) /\ Len(q) \in Nat
      /\ \A j \in DOMAIN p : p[j] \in Entries
      /\ \A j \in DOMAIN q : q[j] \in Entries
  BY LenProperties, ElementOfSeq
<1>2. \A x, y \in Entries : ~(Before(preferred, x, y) /\ Before(preferred, y, x))
  BY OneOrder
<1>3. PICK i \in DOMAIN q : q[i] = p[k]
  BY DEF Range
<1>4. ~(i < k)
  <2> SUFFICES ASSUME i < k PROVE FALSE
    OBVIOUS
  <2>1. i \in 1..(k - 1) /\ i \in DOMAIN p
    BY <1>1
  <2>2. p[i] = p[k] /\ Before(preferred, p[i], p[k])
    BY <1>3, <2>1
  <2> QED BY <1>1, <1>2, <2>1, <2>2
<1>5. k \in DOMAIN q
  BY <1>1, <1>4
<1>6. PICK j \in DOMAIN p : p[j] = q[k]
  BY <1>5 DEF Range
<1>7. ~(j < k)
  <2> SUFFICES ASSUME j < k PROVE FALSE
    OBVIOUS
  <2>1. j \in 1..(k - 1) /\ j \in DOMAIN q
    BY <1>1
  <2>2. q[j] = q[k] /\ Before(preferred, q[j], q[k])
    BY <1>5, <1>6, <2>1
  <2> QED BY <1>1, <1>2, <1>5, <2>1, <2>2
<1>8. i = k \/ j = k
  <2> SUFFICES ASSUME i > k, j > k PROVE FALSE
    BY <1>1, <1>4, <1>7
  <2>1. Before(preferred, p[k], p[j]) /\ Before(preferred, q[k], q[i])
    BY <1>5
  <2> QED BY <1>1, <1>2, <1>3, <1>5, <1>6, <2>1
<1> QED BY <1>3, <1>5, <1>6, <1>8

LEMMA SameList ==
  ASSUME NEW preferred \in GroupVersions, NEW p \in Seq(Entries), NEW q \in Seq(Entries),
         Range(p) = Range(q),
         \A m, n \in DOMAIN p : m < n => Before(preferred, p[m], p[n]),
         \A m, n \in DOMAIN q : m < n => Before(preferred, q[m], q[n])
  PROVE  p = q
<1> DEFINE Same(j) == (j \in DOMAIN p <=> j \in DOMAIN q) /\ (j \in DOMAIN p => p[j] = q[j])
           T == {k \in Nat : ~Same(k)}
<1>1. /\ DOMAIN p = 1..Len(p) /\ Len(p) \in Nat
      /\ DOMAIN q = 1..Len(q) /\ Len(q) \in Nat
  BY LenProperties
<1>2. T = {}
  <2> SUFFICES ASSUME T # {} PROVE FALSE
    OBVIOUS
  <2>1. PICK k \in T : \A j \in T : k <= j
    <3>1. T \in SUBSET Nat
      OBVIOUS
    <3> HIDE DEF T
    <3> QED BY <3>1, NatMin
  <2>2. k \in Nat /\ ~Same(k)
    OBVIOUS
  <2>3. ASSUME NEW j \in 1..(k - 1) PROVE Same(j)
    <3>1. j \in Nat /\ ~(k <= j)
      BY <2>2
    <3> HIDE DEF Same
    <3> QED BY <2>1, <3>1
  <2>4. k \in DOMAIN p \/ k \in DOMAIN q
    BY <2>2
  <2>5. \A j \in 1..(k - 1) : j \in DOMAIN p \/ j \in DOMAIN q
    BY <1>1, <2>2, <2>4
  <2>6. \A j \in 1..(k - 1) : (j \in DOMAIN p <=> j \in DOMAIN q) /\ p[j] = q[j]
    BY <2>3, <2>5
  <2>7. CASE k \in DOMAIN p
    BY <2>2, <2>6, <2>7, SameAt
  <2>8. CASE k \in DOMAIN q
    <3>1. k \in DOMAIN p /\ q[k] = p[k]
      <4>1. \A j \in 1..(k - 1) : (j \in DOMAIN q <=> j \in DOMAIN p) /\ q[j] = p[j]
        BY <2>6
      <4> HIDE DEF T
      <4> QED BY <2>8, <4>1, SameAt
    <3> QED BY <2>2, <2>8, <3>1
  <2> QED BY <2>4, <2>7, <2>8
<1>3. \A j \in Nat : Same(j)
  BY <1>2
<1>4. Len(p) = Len(q)
  <2>1. ~(Len(p) < Len(q))
    <3> SUFFICES ASSUME Len(p) < Len(q) PROVE FALSE
      OBVIOUS
    <3>1. Len(q) \in DOMAIN q /\ Len(q) \in Nat /\ Len(q) \notin DOMAIN p
      BY <1>1
    <3> QED BY <1>3, <3>1
  <2>2. ~(Len(q) < Len(p))
    <3> SUFFICES ASSUME Len(q) < Len(p) PROVE FALSE
      OBVIOUS
    <3>1. Len(p) \in DOMAIN p /\ Len(p) \in Nat /\ Len(p) \notin DOMAIN q
      BY <1>1
    <3> QED BY <1>3, <3>1
  <2>3. \A a, b \in Nat : ~(a < b) /\ ~(b < a) => a = b
    OBVIOUS
  <2> QED BY <1>1, <2>1, <2>2, <2>3, Zenon
<1>5. \A j \in 1..Len(p) : p[j] = q[j]
  BY <1>1, <1>3
<1> HIDE DEF T, Same
<1> QED BY <1>4, <1>5, SeqEqual

\* The list is the same in whatever order the versions are walked ("Ensure
\* deterministic output", apiresource.go:39): the sort and the pick leave
\* nothing of the order of the map.
THEOREM OrderForgotten ==
  ASSUME NEW doc \in Documents,
         NEW walk \in Seq(GroupVersions), Range(walk) = GroupVersions,
         NEW other \in Seq(GroupVersions), Range(other) = GroupVersions
  PROVE  NormalizeAPIGroupResources(doc, walk) = NormalizeAPIGroupResources(doc, other)
<1> DEFINE p == NormalizeAPIGroupResources(doc, walk)
           q == NormalizeAPIGroupResources(doc, other)
<1>1. Normal(doc, p) /\ Normal(doc, q)
  BY NormalizedRight
<1>2. doc.preferred \in GroupVersions
  BY DEF Documents
<1>3. ASSUME NEW r, Normal(doc, r)
      PROVE  Range(r) = {e \in Entries : IsBest(doc, e.version, e.name)}
  <2>1. /\ DOMAIN r = 1..Len(r)
        /\ \A n \in DOMAIN r : r[n] \in Entries
    BY <1>3, LenProperties, ElementOfSeq DEF Normal
  <2>2. ASSUME NEW e \in Entries, IsBest(doc, e.version, e.name) PROVE e \in Range(r)
    <3>1. e.name \in ResourceNames /\ e.version \in GroupVersions /\ Lists(doc, e.version, e.name)
      BY <2>2 DEF Entries, IsBest
    <3>2. PICK n \in DOMAIN r : r[n].name = e.name
      BY <1>3, <3>1 DEF Normal
    <3>3. /\ IsBest(doc, r[n].version, e.name)
          /\ r[n].version \in GroupVersions /\ r[n] \in Entries
      BY <1>3, <2>1, <3>2 DEF Normal, Entries
    <3>4. VersionRank[e.version] \in Nat /\ VersionRank[r[n].version] \in Nat
      BY <3>1, <3>3, RanksAssumption
    <3>5. r[n].version = e.version
      BY <2>2, <3>1, <3>3, <3>4 DEF IsBest
    <3>6. r[n] = e
      BY <3>2, <3>3, <3>5 DEF Entries
    <3> QED BY <3>6 DEF Range
  <2>3. \A n \in DOMAIN r : IsBest(doc, r[n].version, r[n].name)
    BY <1>3 DEF Normal
  <2> QED BY <2>1, <2>2, <2>3 DEF Range
<1>4. Range(p) = Range(q)
  BY <1>1, <1>3
<1> HIDE DEF p, q
<1>5. p = q
  BY <1>1, <1>2, <1>4, SameList DEF Normal
<1> QED BY <1>5 DEF p, q

LEMMA StarterBounds == 0 \in 0..StarterDone /\ 1 \in 0..StarterDone
<1>1. Len(StarterDuties) = 8
  BY DEF StarterDuties
<1> QED BY <1>1 DEF StarterDone

LEMMA StarterTakes ==
  ASSUME starter \in DOMAIN StarterDuties
  PROVE  starter + 1 \in 0..StarterDone
BY DEF StarterDuties, StarterDone

\* Pending signals are counted one by one.
LEMMA PendingCounted ==
  ASSUME NEW S, S \subseteq Signals
  PROVE  /\ Cardinality(S) \in Nat
         /\ \A s \in Signals : /\ s \notin S => Cardinality(S \cup {s}) = Cardinality(S) + 1
                              /\ s \in S => Cardinality(S \ {s}) = Cardinality(S) - 1
<1>1. IsFiniteSet(Signals)
  <2>1. IsFiniteSet({"SIGTERM"})
    BY FS_Singleton
  <2>2. IsFiniteSet({"SIGTERM"} \cup {"SIGINT"})
    BY <2>1, FS_AddElement
  <2>3. Signals = {"SIGTERM"} \cup {"SIGINT"}
    BY DEF Signals
  <2> QED BY <2>2, <2>3
<1>2. IsFiniteSet(S)
  BY <1>1, FS_Subset
<1>3. Cardinality(S) \in Nat
  BY <1>2, FS_CardinalityType
<1>4. ASSUME NEW s \in Signals, s \notin S
      PROVE  Cardinality(S \cup {s}) = Cardinality(S) + 1
  BY <1>2, <1>4, FS_AddElement
<1>5. ASSUME NEW s \in Signals, s \in S
      PROVE  Cardinality(S \ {s}) = Cardinality(S) - 1
  BY <1>2, <1>5, FS_RemoveElement
<1> QED BY <1>3, <1>4, <1>5

LEMMA InitInv == Init => IInv
<1> SUFFICES ASSUME Init PROVE IInv
  OBVIOUS
<1>1. TypeOK
  BY StarterBounds DEF Init, TypeOK, Fates, MainPhases, Phases
<1>2. InformersNest /\ WaitsForCRDs /\ HandlersHaveService
  BY DEF Init, InformersNest, WaitsForCRDs, HandlersHaveService
<1>3. SignalsKept
  BY FS_EmptySet DEF Init, SignalsKept, SignalRoom, Kept
<1> QED BY <1>1, <1>2, <1>3 DEF IInv

LEMMA NextInv == IInv /\ [Next]_vars => IInv'
<1> SUFFICES ASSUME IInv, [Next]_vars PROVE IInv'
  OBVIOUS
<1> USE DEF IInv, TypeOK, InformersNest, SignalsKept, Kept, WaitsForCRDs,
            HandlersHaveService, Fates, MainPhases, Phases, Running
<1>1. CASE CompleteOptions
  BY <1>1 DEF CompleteOptions, Proceed, mainVars, hookVars, apiVars, crdVars, signalVars
<1>2. CASE NewOverlayServer
  BY <1>2 DEF NewOverlayServer, Proceed, mainVars, hookVars, apiVars, crdVars, signalVars
<1>3. CASE Config
  BY <1>3 DEF Config, Proceed, mainVars, hookVars, apiVars, crdVars, signalVars
<1>4. CASE New
  BY <1>4 DEF New, Proceed, mainVars, hookVars, apiVars, crdVars, signalVars, InformerFor, Informers
<1>5. CASE Run
  BY <1>5, StarterBounds DEF Run, Proceed, mainVars, hookVars, apiVars, crdVars, signalVars
<1>6. CASE BootFails
  BY <1>6 DEF BootFails, mainVars, hookVars, informerVars, apiVars, crdVars, signalVars
<1>7. CASE NewOverlayAPIServer
  BY <1>7 DEF NewOverlayAPIServer, Install, mainVars, apiVars, crdVars, signalVars, InformerFor
<1>8. CASE StartCRDFactory
  BY <1>8 DEF StartCRDFactory, Install, mainVars, apiVars, crdVars, signalVars, Start
<1>9. CASE CRDsSynced
  BY <1>9 DEF CRDsSynced, Install, mainVars, apiVars, crdVars, signalVars, Stopping
<1>10. ASSUME NEW doc, NEW walk, Discover(doc, walk) PROVE IInv'
  BY <1>10 DEF Discover, Install, mainVars, apiVars, crdVars, signalVars
<1>11. CASE DiscoveryFails
  BY <1>11 DEF DiscoveryFails, mainVars, hookVars, informerVars, apiVars, crdVars, signalVars
<1>11a. CASE InstallFails
  BY <1>11a DEF InstallFails, mainVars, hookVars, informerVars, apiVars, crdVars, signalVars
<1>12. CASE InstallOverlayAPIGroups
  BY <1>12 DEF InstallOverlayAPIGroups, Install, mainVars, apiVars, crdVars, signalVars
<1>13. CASE SetRootWebService
  BY <1>13 DEF SetRootWebService, Install, mainVars, apiVars, crdVars, signalVars
<1>14. ASSUME NEW f, StartFactory(f) PROVE IInv'
  BY <1>14, StarterTakes DEF StartFactory, Duty, mainVars, apiVars, crdVars, signalVars, Start
<1>15. ASSUME NEW f, AwaitFactory(f) PROVE IInv'
  BY <1>15, StarterTakes DEF AwaitFactory, Duty, mainVars, apiVars, crdVars, signalVars
<1>16. CASE BlockUntilStop
  BY <1>16, StarterTakes DEF BlockUntilStop, Duty, mainVars, apiVars, crdVars, signalVars
<1>17. ASSUME NEW i \in Informers, Sync(i) PROVE IInv'
  BY <1>17 DEF Sync, Inform, mainVars, hookVars, apiVars, signalVars
<1>18. ASSUME NEW d \in CRDs, CreateCRD(d) PROVE IInv'
  BY <1>18 DEF CreateCRD, Inform, mainVars, hookVars, apiVars, signalVars
<1>19. ASSUME NEW d \in CRDs, WatchCRD(d) PROVE IInv'
  BY <1>19 DEF WatchCRD, Inform, mainVars, hookVars, apiVars, signalVars
<1>20. ASSUME NEW d \in CRDs, NotifyHandler(d) PROVE IInv'
  BY <1>20 DEF NotifyHandler, Inform, mainVars, hookVars, apiVars, signalVars
<1>21. ASSUME NEW s \in Signals, Signal(s) PROVE IInv'
  <2>1. /\ pending' = pending \cup {s} /\ s \notin pending /\ pending' \subseteq Signals
        /\ sent' = sent + 1 /\ queued' = queued /\ caught' = caught
    BY <1>21 DEF Signal
  <2>2. Kept' = Kept + 1
    BY <2>1, PendingCounted
  <2>3. SignalsKept'
    BY <2>1, <2>2, PendingCounted DEF SignalRoom, Kept
  <2> QED
    BY <1>21, <2>1, <2>3 DEF Signal, mainVars, hookVars, informerVars, apiVars, crdVars
<1>21a. ASSUME NEW s \in Signals, Deliver(s) PROVE IInv'
  <2>1. /\ pending' = pending \ {s} /\ s \in pending /\ pending' \subseteq Signals
        /\ queued' = IF queued < SignalRoom THEN queued + 1 ELSE queued
        /\ sent' = sent /\ caught' = caught
    BY <1>21a DEF Deliver
  <2>2. Cardinality(pending') = Cardinality(pending) - 1
    BY <2>1, PendingCounted
  <2>3. SignalsKept'
    BY <2>1, <2>2, PendingCounted DEF SignalRoom, Kept
  <2> QED
    BY <1>21a, <2>1, <2>3 DEF Deliver, SignalRoom, mainVars, hookVars, informerVars, apiVars, crdVars
<1>22. CASE CatchSignal
  <2>1. SignalsKept'
    BY <1>22, PendingCounted DEF CatchSignal, Kept
  <2> QED
    BY <1>22, <2>1 DEF CatchSignal, mainVars, hookVars, informerVars, apiVars, crdVars
<1>23. CASE Drained
  BY <1>23 DEF Drained, mainVars, hookVars, informerVars, apiVars, crdVars, signalVars
<1>24. CASE UNCHANGED vars
  BY <1>24 DEF vars, mainVars, hookVars, informerVars, apiVars, crdVars, signalVars
<1> QED
  BY <1>1, <1>2, <1>3, <1>4, <1>5, <1>6, <1>7, <1>8, <1>9, <1>10, <1>11, <1>11a, <1>12,
      <1>13, <1>14, <1>15, <1>16, <1>17, <1>18, <1>19, <1>20, <1>21, <1>21a, <1>22, <1>23, <1>24
      DEF Next, Boot, Installer, Starter

\* TypeOK, InformersNest, SignalsKept, WaitsForCRDs and HandlersHaveService
\* hold in every state of the process.
THEOREM StartupInvariant == Spec => []IInv
BY InitInv, NextInv, PTL DEF Spec


\* What the installer hook is about to install was made of a document of the
\* core group.
Normalized ==
  installer = "install" =>
    /\ document \in CoreDocuments
    /\ \E walk \in Walks : resources = NormalizeAPIGroupResources(document, walk)

LEMMA NextNormalized == Normalized /\ [Next]_vars => Normalized'
<1> SUFFICES ASSUME Normalized, [Next]_vars PROVE Normalized'
  OBVIOUS
<1>1. ASSUME NEW doc \in CoreDocuments, NEW walk \in Walks, Discover(doc, walk) PROVE Normalized'
  <2>1. document' = doc /\ resources' = NormalizeAPIGroupResources(doc, walk)
    BY <1>1 DEF Discover
  <2> QED BY <2>1 DEF Normalized
<1>2. ASSUME NEW from, NEW to, to # "install", Install(from, to) PROVE Normalized'
  BY <1>2 DEF Install, Normalized
<1>3. CASE UNCHANGED <<installer, document, resources>>
  BY <1>3 DEF Normalized
<1>4. CASE Boot
  BY <1>4, <1>3 DEF Boot, CompleteOptions, NewOverlayServer, Config, New, Run, BootFails,
    Proceed, hookVars, apiVars, Normalized
<1>5. CASE Installer
  BY <1>1, <1>2, <1>3, <1>5 DEF Installer, NewOverlayAPIServer, StartCRDFactory, CRDsSynced,
    DiscoveryFails, InstallFails, InstallOverlayAPIGroups, SetRootWebService, hookVars, apiVars
<1>6. CASE Starter
  BY <1>3, <1>6 DEF Starter, StartFactory, AwaitFactory, BlockUntilStop, Duty, apiVars
<1>7. CASE \/ \E i \in Informers : Sync(i)
           \/ \E d \in CRDs : CreateCRD(d) \/ WatchCRD(d) \/ NotifyHandler(d)
  BY <1>3, <1>7 DEF Sync, CreateCRD, WatchCRD, NotifyHandler, Inform, hookVars, apiVars
<1>8. CASE (\E s \in Signals : Signal(s) \/ Deliver(s)) \/ CatchSignal \/ Drained
  BY <1>3, <1>8 DEF Signal, Deliver, CatchSignal, Drained, hookVars, apiVars
<1>9. CASE UNCHANGED vars
  BY <1>3, <1>9 DEF vars, hookVars, apiVars
<1> QED BY <1>4, <1>5, <1>6, <1>7, <1>8, <1>9 DEF Next

\* In every life of the process, what the installer hook installs is each
\* resource of the core group once and under the right version, and the order
\* of the map it was made from is forgotten.
THEOREM ResourcesNormalized == Spec => []NormalizedBest
<1>1. Init => Normalized
  BY DEF Init, Normalized
<1>2. Normalized => NormalizedBest
  <2> SUFFICES ASSUME Normalized, installer = "install" PROVE NormalizedBest
    BY DEF NormalizedBest
  <2>1. PICK walk \in Walks : resources = NormalizeAPIGroupResources(document, walk)
    BY DEF Normalized
  <2>2. document \in Documents /\ \A w \in Walks : w \in Seq(GroupVersions) /\ Range(w) = GroupVersions
    BY StartupAssumption DEF Normalized
  <2>3. Normal(document, resources)
    BY <2>1, <2>2, NormalizedRight
  <2>4. \A w \in Walks : resources = NormalizeAPIGroupResources(document, w)
    BY <2>1, <2>2, OrderForgotten
  <2> QED BY <2>3, <2>4 DEF Normal, NormalizedBest
<1> QED BY <1>1, <1>2, NextNormalized, PTL DEF Spec

===============================================================================
