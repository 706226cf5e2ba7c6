---------------------------- MODULE ApiResources ----------------------------
(***************************************************************************)
(* Which version of a resource the overlay server takes from the discovery *)
(* document of the host (pkg/utils/apiresource.go).  A group has versions, *)
(* one of them preferred; each version lists resources.  The versions are  *)
(* kept in a Go map and are walked in any order.                           *)
(***************************************************************************)
EXTENDS Naturals, Sequences, FiniteSets, SequencesExt

CONSTANTS
  GroupVersions,    \* the versions of the group
  ResourceNames,    \* the names of its resources
  NameRank,         \* alphabetical order of names
  VersionRank       \* CompareKubeAwareVersionStrings: higher is better

ASSUME RanksAssumption ==
  /\ NameRank \in [ResourceNames -> Nat]
  /\ VersionRank \in [GroupVersions -> Nat]
  /\ \A n, m \in ResourceNames : NameRank[n] = NameRank[m] => n = m
  /\ \A u, v \in GroupVersions : VersionRank[u] = VersionRank[v] => u = v

Entries == [name : ResourceNames, version : GroupVersions]

\* A discovery document of the group: listed[v] are the names version v lists.
Documents == [preferred : GroupVersions, listed : [GroupVersions -> Seq(ResourceNames)]]

Collect(doc, walk) ==
  FlattenSeq([i \in DOMAIN walk |->
    [j \in DOMAIN doc.listed[walk[i]] |->
       [name |-> doc.listed[walk[i]][j], version |-> walk[i]]]])

\* Mutation: the preferred version counts for nothing.
BeforeByVersion(preferred, x, y) ==
  IF x.version = y.version THEN NameRank[x.name] < NameRank[y.name]
  ELSE VersionRank[x.version] > VersionRank[y.version]

\* The order of the sort: the preferred version, then the higher one; by
\* name inside a version.
Before(preferred, x, y) ==
  IF x.version = y.version THEN NameRank[x.name] < NameRank[y.name]
  ELSE \/ x.version = preferred
       \/ y.version # preferred /\ VersionRank[x.version] > VersionRank[y.version]

\* A stable sort puts s[i] behind what goes before it and what is equal to
\* it and stood on its left.
Place(s, preferred) ==
  [i \in DOMAIN s |->
     Cardinality({j \in DOMAIN s : \/ Before(preferred, s[j], s[i])
                                   \/ j <= i /\ ~Before(preferred, s[i], s[j])})]
Sorted(s, preferred) ==
  LET place == Place(s, preferred)
  IN [n \in DOMAIN s |-> s[CHOOSE i \in DOMAIN s : place[i] = n]]

\* The first entry of every name.
FirstOfName(s, i) == \A j \in 1..(i - 1) : s[j].name # s[i].name
PickFirsts(s) ==
  LET firsts == {i \in DOMAIN s : FirstOfName(s, i)}
  IN [n \in 1..Cardinality(firsts) |->
        s[CHOOSE i \in firsts : Cardinality(firsts \cap 1..i) = n]]

NormalizeAPIGroupResources(doc, walk) ==
  PickFirsts(Sorted(Collect(doc, walk), doc.preferred))

\* The version that a resource should be taken from: the preferred one if it
\* lists the resource, otherwise the highest that does.
Lists(doc, v, n) == \E j \in DOMAIN doc.listed[v] : doc.listed[v][j] = n
IsBest(doc, v, n) ==
  /\ Lists(doc, v, n)
  /\ \A u \in GroupVersions \ {v} :
       Lists(doc, u, n) =>
         v = doc.preferred \/ (u # doc.preferred /\ VersionRank[v] > VersionRank[u])
=============================================================================
