------------------------------ MODULE UserNames ------------------------------
(***************************************************************************)
(* User names and manifest names (pkg/apiserver/overlay/rest.go), as       *)
(* sequences of characters.  A client is a service account made by         *)
(* manifests/business-authorization/create-business.sh for one business    *)
(* cluster and namespace; the storage cuts both out of its user name.      *)
(***************************************************************************)
EXTENDS Naturals, Sequences

CONSTANTS
  Chars,         \* characters of names
  Prefix,        \* "system:serviceaccount:external-crd-system:biz-"
  Hyphen, Dot,
  RandomLength   \* UsernameRandomDelimiterLength

ASSUME UserNamesAssumption ==
  /\ Prefix \in Seq(Chars) \ {<< >>}
  /\ Hyphen \in Chars /\ Dot \in Chars
  /\ RandomLength \in Nat \ {0}

Strings == Seq(Chars)
\* The random string of a service account (create-business.sh, [a-z0-9]) has
\* no hyphen; a DNS label has no dot.
Without(s, c) == \A i \in DOMAIN s : s[i] # c

\* The user name of the account made for a cluster and a namespace.
Account(random, cluster, ns) ==
  Prefix \o random \o <<Hyphen>> \o cluster \o <<Hyphen>>
         \o random \o <<Hyphen>> \o ns

-------------------------------------------------------------------------------
\* part stands in s at position i.
At(s, part, i) ==
  /\ i + Len(part) <= Len(s) + 1
  /\ \A j \in DOMAIN part : s[i + j - 1] = part[j]
Occurs(s, part) == \E i \in 1..Len(s) : At(s, part, i)
IsLastIndex(s, part, i) == At(s, part, i) /\ \A j \in 1..Len(s) : j > i => ~At(s, part, j)

Slice(s, from, to) == [i \in 1..(to - from) |-> s[from + i - 1]]

\* Positions count from 1, ends are exclusive.
First     == Len(Prefix) + 1
Delimiter(user) == Slice(user, First, First + RandomLength + 1)
\* Mutation: the second delimiter, not the last.
NextDelimiter(user) ==
  CHOOSE i \in (First + 1)..Len(user) :
    /\ At(user, Delimiter(user), i)
    /\ \A j \in (First + 1)..(i - 1) : ~At(user, Delimiter(user), j)
LastDelimiter(user) ==
  CHOOSE i \in First..Len(user) : IsLastIndex(user, Delimiter(user), i)
ClusterStart == First + RandomLength + 1

HasPrefix(user) == At(user, Prefix, 1)
HasDelimiter(user) == Len(user) >= First + RandomLength
\* The delimiter occurs once only.
SingleDelimiter(user) == LastDelimiter(user) = First
\* The delimiters overlap or leave no place for the hyphen between them.
TooClose(user) == LastDelimiter(user) - 1 < ClusterStart

\* User names that are cut in two; those that make a slice of the code end
\* before it starts, or beyond the name, which panics; the others are refused.
Accepted(user) ==
  HasPrefix(user) /\ HasDelimiter(user) /\ ~SingleDelimiter(user) /\ ~TooClose(user)
Panics(user) ==
  /\ HasPrefix(user)
  /\ HasDelimiter(user) => ~SingleDelimiter(user) /\ TooClose(user)

getClusterNamespace(user) ==
  [cluster |-> Slice(user, ClusterStart, LastDelimiter(user) - 1),
   ns      |-> Slice(user, LastDelimiter(user) + RandomLength + 1, Len(user) + 1)]

-------------------------------------------------------------------------------
getNormalizedManifestName(plural, cluster, ns, name) ==
  plural \o <<Dot>> \o cluster \o <<Dot>> \o ns \o <<Dot>> \o name
===============================================================================
