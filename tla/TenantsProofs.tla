---------------------------- MODULE TenantsProofs ----------------------------
(***************************************************************************)
(* The storage reads from the user name of every account what the account  *)
(* was made for, so the business clusters and namespaces of the accounts   *)
(* are kept apart; and it is known which objects can have manifests of one  *)
(* name.                                                                   *)
(***************************************************************************)
EXTENDS Tenants, OverlayRESTTenancy

LEMMA Concat ==
  ASSUME NEW s \in Strings, NEW t \in Strings
  PROVE  /\ s \o t \in Strings
         /\ Len(s \o t) = Len(s) + Len(t) /\ Len(s) \in Nat /\ Len(t) \in Nat
         /\ \A i \in 1..Len(s) : (s \o t)[i] = s[i]
         /\ \A i \in 1..Len(t) : (s \o t)[Len(s) + i] = t[i]
BY DEF Strings

LEMMA ConcatOne ==
  ASSUME NEW s \in Strings, NEW c \in Chars
  PROVE  /\ s \o <<c>> \in Strings
         /\ Len(s \o <<c>>) = Len(s) + 1 /\ Len(s) \in Nat
         /\ \A i \in 1..Len(s) : (s \o <<c>>)[i] = s[i]
         /\ (s \o <<c>>)[Len(s) + 1] = c
BY DEF Strings

LEMMA Associative ==
  ASSUME NEW s \in Strings, NEW t \in Strings, NEW u \in Strings
  PROVE  (s \o t) \o u = s \o (t \o u)
BY ConcatAssociative DEF Strings

LEMMA SliceChars ==
  ASSUME NEW s, NEW from \in Nat, NEW to \in Nat, from <= to,
         \A i \in 1..(to - from) : s[from + i - 1] \in Chars
  PROVE  /\ Slice(s, from, to) \in Strings
         /\ Len(Slice(s, from, to)) = to - from
         /\ DOMAIN Slice(s, from, to) = 1..(to - from)
         /\ \A i \in 1..(to - from) : Slice(s, from, to)[i] = s[from + i - 1]
<1>1. Slice(s, from, to) \in [1..(to - from) -> Chars] /\ to - from \in Nat
  BY DEF Slice
<1>2. \A i \in 1..(to - from) : Slice(s, from, to)[i] = s[from + i - 1]
  BY DEF Slice
<1> QED BY <1>1, <1>2 DEF Strings

LEMMA SliceEquals ==
  ASSUME NEW s, NEW from \in Nat, NEW to \in Nat, NEW t \in Strings,
         to = from + Len(t), \A i \in 1..Len(t) : s[from + i - 1] = t[i]
  PROVE  Slice(s, from, to) = t
<1>1. t = [i \in 1..Len(t) |-> t[i]] /\ to - from = Len(t)
  BY DEF Strings
<1>2. Slice(s, from, to) = [i \in 1..Len(t) |-> t[i]]
  BY <1>1 DEF Slice
<1> QED BY <1>1, <1>2

-------------------------------------------------------------------------------
(* The characters of an account's user name, by their positions.           *)

AccountShape(user, random, cluster, ns, p, n, m, q) ==
  /\ p \in Nat /\ n \in Nat /\ m \in Nat /\ q \in Nat
  /\ user \in Strings
  /\ Len(user) = p + n + m + n + q + 3
  /\ \A i \in 1..p : user[i] = Prefix[i]
  /\ \A i \in 1..n : user[p + i] = random[i]
  /\ user[p + n + 1] = Hyphen
  /\ \A i \in 1..m : user[p + n + 1 + i] = cluster[i]
  /\ user[p + n + m + 2] = Hyphen
  /\ \A i \in 1..n : user[p + n + m + 2 + i] = random[i]
  /\ user[p + n + m + n + 3] = Hyphen
  /\ \A i \in 1..q : user[p + n + m + n + 3 + i] = ns[i]

LEMMA AccountChars ==
  ASSUME NEW random \in Strings, NEW cluster \in Strings, NEW ns \in Strings,
         NEW p, p = Len(Prefix), NEW n, n = Len(random),
         NEW m, m = Len(cluster), NEW q, q = Len(ns),
         NEW user, user = Account(random, cluster, ns)
  PROVE  AccountShape(user, random, cluster, ns, p, n, m, q)
<1> DEFINE a == Prefix \o random
           d == a \o <<Hyphen>>
           e == d \o cluster
           f == e \o <<Hyphen>>
           g == f \o random
           h == g \o <<Hyphen>>
<1>1. user = h \o ns
  BY DEF Account
<1>2. Prefix \in Strings /\ Hyphen \in Chars
  BY UserNamesAssumption DEF Strings
<1>3. /\ a \in Strings /\ Len(a) = p + n /\ p \in Nat /\ n \in Nat
      /\ \A i \in 1..p : a[i] = Prefix[i]
      /\ \A i \in 1..n : a[p + i] = random[i]
  BY <1>2, Concat
<1> HIDE DEF a
<1>4. /\ d \in Strings /\ Len(d) = p + n + 1
      /\ \A i \in 1..(p + n) : d[i] = a[i]
      /\ d[p + n + 1] = Hyphen
  <2>1. /\ d \in Strings /\ Len(d) = Len(a) + 1
        /\ \A i \in 1..Len(a) : d[i] = a[i]
        /\ d[Len(a) + 1] = Hyphen
    BY ONLY <1>2, <1>3, ConcatOne DEF d
  <2> QED BY ONLY <1>3, <2>1
<1> HIDE DEF d
<1>5. /\ e \in Strings /\ Len(e) = p + n + 1 + m /\ m \in Nat
      /\ \A i \in 1..(p + n + 1) : e[i] = d[i]
      /\ \A i \in 1..m : e[p + n + 1 + i] = cluster[i]
  <2> HIDE DEF f, g, h
  <2>1. /\ e \in Strings /\ Len(e) = Len(d) + m /\ m \in Nat
        /\ \A i \in 1..Len(d) : e[i] = d[i]
        /\ \A i \in 1..m : e[Len(d) + i] = cluster[i]
    BY <1>4, Concat
  <2> QED BY ONLY <1>4, <2>1
<1> HIDE DEF e
<1>6. /\ f \in Strings /\ Len(f) = p + n + m + 2
      /\ \A i \in 1..(p + n + m + 1) : f[i] = e[i]
      /\ f[p + n + m + 2] = Hyphen
  <2>1. Len(e) = p + n + m + 1
    BY <1>3, <1>5
  <2>2. Len(e) + 1 = p + n + m + 2
    BY <1>3, <1>5, <2>1
  <2>3. /\ f \in Strings /\ Len(f) = Len(e) + 1
        /\ \A i \in 1..Len(e) : f[i] = e[i]
        /\ f[Len(e) + 1] = Hyphen
    BY ONLY <1>2, <1>5, ConcatOne DEF f
  <2> QED BY ONLY <2>1, <2>2, <2>3
<1> HIDE DEF f
<1>7. /\ g \in Strings /\ Len(g) = p + n + m + 2 + n
      /\ \A i \in 1..(p + n + m + 2) : g[i] = f[i]
      /\ \A i \in 1..n : g[p + n + m + 2 + i] = random[i]
  <2>1. /\ g \in Strings /\ Len(g) = Len(f) + n
        /\ \A i \in 1..Len(f) : g[i] = f[i]
        /\ \A i \in 1..n : g[Len(f) + i] = random[i]
    BY <1>6, Concat
  <2> QED BY ONLY <1>6, <2>1
<1> HIDE DEF g
<1>8. /\ h \in Strings /\ Len(h) = p + n + m + n + 3
      /\ \A i \in 1..(p + n + m + n + 2) : h[i] = g[i]
      /\ h[p + n + m + n + 3] = Hyphen
  <2>1. Len(g) = p + n + m + n + 2
    BY <1>3, <1>5, <1>7
  <2>2. Len(g) + 1 = p + n + m + n + 3
    BY <1>3, <1>5, <2>1
  <2>3. /\ h \in Strings /\ Len(h) = Len(g) + 1
        /\ \A i \in 1..Len(g) : h[i] = g[i]
        /\ h[Len(g) + 1] = Hyphen
    BY ONLY <1>2, <1>7, ConcatOne DEF h
  <2> QED BY ONLY <2>1, <2>2, <2>3
<1> HIDE DEF h
<1>9. /\ user \in Strings /\ Len(user) = p + n + m + n + 3 + q /\ q \in Nat
      /\ \A i \in 1..(p + n + m + n + 3) : user[i] = h[i]
      /\ \A i \in 1..q : user[p + n + m + n + 3 + i] = ns[i]
  <2>1. /\ user \in Strings /\ Len(user) = Len(h) + q /\ q \in Nat
        /\ \A i \in 1..Len(h) : user[i] = h[i]
        /\ \A i \in 1..q : user[Len(h) + i] = ns[i]
    <3>1. /\ h \o ns \in Strings /\ Len(h \o ns) = Len(h) + Len(ns) /\ Len(ns) \in Nat
          /\ \A i \in 1..Len(h) : (h \o ns)[i] = h[i]
          /\ \A i \in 1..Len(ns) : (h \o ns)[Len(h) + i] = ns[i]
      BY <1>8, Concat
    <3> QED BY <1>1, <3>1
  <2> QED BY ONLY <1>8, <2>1
<1>10. \A i \in 1..p : user[i] = Prefix[i]
  <2> TAKE i \in 1..p
  <2>1. user[i] = h[i] /\ h[i] = g[i] /\ g[i] = f[i] /\ f[i] = e[i]
    BY <1>3, <1>5, <1>6, <1>7, <1>8, <1>9
  <2>2. e[i] = d[i] /\ d[i] = a[i] /\ a[i] = Prefix[i]
    BY <1>3, <1>4, <1>5
  <2> QED BY <2>1, <2>2
<1>11. \A i \in 1..n : user[p + i] = random[i]
  <2> TAKE i \in 1..n
  <2> DEFINE j == p + i
  <2>1. j \in Nat /\ 1 <= j /\ j <= p + n
    BY <1>3
  <2>2. a[j] = random[i]
    BY <1>3
  <2> HIDE DEF j
  <2>3. user[j] = h[j] /\ h[j] = g[j] /\ g[j] = f[j] /\ f[j] = e[j]
    BY <1>3, <1>5, <1>6, <1>7, <1>8, <1>9, <2>1
  <2>4. j \in 1..(p + n) /\ j \in 1..(p + n + 1)
    BY ONLY <1>3, <2>1
  <2>5. e[j] = d[j] /\ d[j] = a[j]
    BY ONLY <1>4, <1>5, <2>4
  <2> QED BY <2>2, <2>3, <2>5 DEF j
<1>12. user[p + n + 1] = Hyphen
  <2> DEFINE j == p + n + 1
  <2>1. j \in Nat /\ 1 <= j /\ j <= p + n + 1 /\ d[j] = Hyphen
    BY <1>3, <1>4
  <2> HIDE DEF j
  <2>2. user[j] = h[j] /\ h[j] = g[j] /\ g[j] = f[j] /\ f[j] = e[j] /\ e[j] = d[j]
    BY <1>3, <1>5, <1>6, <1>7, <1>8, <1>9, <2>1
  <2> QED BY <2>1, <2>2 DEF j
<1>13. \A i \in 1..m : user[p + n + 1 + i] = cluster[i]
  <2> TAKE i \in 1..m
  <2> DEFINE j == p + n + 1 + i
  <2>1. j \in Nat /\ 1 <= j /\ j <= p + n + m + 1 /\ e[j] = cluster[i]
    BY <1>3, <1>5
  <2> HIDE DEF j
  <2>2. user[j] = h[j] /\ h[j] = g[j] /\ g[j] = f[j] /\ f[j] = e[j]
    BY <1>3, <1>5, <1>6, <1>7, <1>8, <1>9, <2>1
  <2> QED BY <2>1, <2>2 DEF j
<1>14. user[p + n + m + 2] = Hyphen
  <2> DEFINE j == p + n + m + 2
  <2>1. j \in Nat /\ 1 <= j /\ j <= p + n + m + 2 /\ f[j] = Hyphen
    BY <1>3, <1>5, <1>6
  <2> HIDE DEF j
  <2>2. user[j] = h[j] /\ h[j] = g[j] /\ g[j] = f[j]
    BY <1>3, <1>5, <1>7, <1>8, <1>9, <2>1
  <2> QED BY <2>1, <2>2 DEF j
<1>15. \A i \in 1..n : user[p + n + m + 2 + i] = random[i]
  <2> TAKE i \in 1..n
  <2> DEFINE j == p + n + m + 2 + i
  <2>1. j \in Nat /\ 1 <= j /\ j <= p + n + m + n + 2 /\ g[j] = random[i]
    BY <1>3, <1>5, <1>7
  <2> HIDE DEF j
  <2>2. user[j] = h[j] /\ h[j] = g[j]
    BY <1>3, <1>5, <1>8, <1>9, <2>1
  <2> QED BY <2>1, <2>2 DEF j
<1>16. user[p + n + m + n + 3] = Hyphen
  <2>1. p + n + m + n + 3 \in 1..(p + n + m + n + 3)
    BY <1>3, <1>5
  <2> QED BY <1>8, <1>9, <2>1
<1>17. Len(user) = p + n + m + n + q + 3
  BY <1>3, <1>5, <1>9
<1> QED BY <1>3, <1>5, <1>9, <1>10, <1>11, <1>12, <1>13, <1>14, <1>15, <1>16, <1>17
  DEF AccountShape

-------------------------------------------------------------------------------
\* What the accounts of create-business.sh have to keep for their names to be
\* read back: the random string has its length and no hyphen, and the
\* namespace does not hold the delimiter.
GoodAccount(random, cluster, ns) ==
  /\ random \in Strings /\ cluster \in Strings /\ ns \in Strings
  /\ Len(random) = RandomLength
  /\ Without(random, Hyphen)
  /\ ~Occurs(ns, random \o <<Hyphen>>)

\* The delimiter is the random string and a hyphen, and its last occurrence
\* is the one behind the cluster.
LEMMA AccountDelimiter ==
  ASSUME NEW random, NEW cluster, NEW ns, GoodAccount(random, cluster, ns),
         NEW user, user = Account(random, cluster, ns)
  PROVE  LastDelimiter(user) = Len(Prefix) + RandomLength + Len(cluster) + 3
<1> DEFINE p == Len(Prefix)
           n == Len(random)
           m == Len(cluster)
           q == Len(ns)
           L == p + n + m + 3
           del == Delimiter(user)
<1>1. /\ random \in Strings /\ cluster \in Strings /\ ns \in Strings
      /\ n = RandomLength /\ n > 0 /\ Len(random) = n
  BY UserNamesAssumption DEF GoodAccount
<1>2. /\ p \in Nat /\ n \in Nat /\ m \in Nat /\ q \in Nat
      /\ user \in Strings
      /\ Len(user) = p + n + m + n + q + 3
      /\ \A i \in 1..n : user[p + i] = random[i]
      /\ user[p + n + 1] = Hyphen
      /\ \A i \in 1..n : user[p + n + m + 2 + i] = random[i]
      /\ user[p + n + m + n + 3] = Hyphen
      /\ \A i \in 1..q : user[p + n + m + n + 3 + i] = ns[i]
  <2>1. AccountShape(user, random, cluster, ns, p, n, m, q)
    BY <1>1, AccountChars
  <2> QED BY ONLY <2>1 DEF AccountShape
<1>nat. p \in Nat /\ n \in Nat /\ m \in Nat /\ q \in Nat
  BY ONLY <1>2
<1>3. /\ \A i \in 1..(n + 1) : del[i] = user[p + i]
      /\ Len(del) = n + 1 /\ DOMAIN del = 1..(n + 1)
  <2> DEFINE to == First + n + 1
  <2>1. First \in Nat /\ to \in Nat /\ First <= to /\ to - First = n + 1
    BY <1>2 DEF First
  <2>2. \A i \in 1..(n + 1) : First + i - 1 = p + i /\ p + i \in 1..Len(user)
    BY <1>2 DEF First
  <2>3. del = Slice(user, First, to)
    BY <1>1 DEF Delimiter
  <2> HIDE DEF n, p, to, del
  <2>4. \A i \in 1..(n + 1) : user[First + i - 1] \in Chars
    BY <1>2, <2>2 DEF Strings
  <2>5. /\ Len(del) = n + 1 /\ DOMAIN del = 1..(n + 1)
        /\ \A i \in 1..(n + 1) : del[i] = user[First + i - 1]
    <3>1. del = [i \in 1..(n + 1) |-> user[First + i - 1]]
      BY ONLY <2>1, <2>3 DEF Slice
    <3>2. del \in [1..(n + 1) -> Chars] /\ n + 1 \in Nat
      BY ONLY <1>nat, <2>4, <3>1
    <3>3. DOMAIN del = 1..(n + 1) /\ \A i \in 1..(n + 1) : del[i] = user[First + i - 1]
      BY ONLY <3>1
    <3>4. del \in Seq(Chars) /\ Len(del) = n + 1
      BY ONLY <3>2
    <3> QED BY ONLY <3>3, <3>4
  <2> QED BY ONLY <2>2, <2>5
<1> HIDE DEF del
<1>4. /\ \A j \in 1..n : del[j] = random[j]
      /\ del[n + 1] = Hyphen
      /\ \A j \in 1..n : random[j] # Hyphen
  <2>1. DOMAIN random = 1..n
    BY <1>1 DEF Strings
  <2>2. \A j \in 1..n : random[j] # Hyphen
    BY <2>1 DEF GoodAccount, Without
  <2> HIDE DEF n, p, m, q
  <2>3. \A j \in 1..n : j \in 1..(n + 1) /\ n + 1 \in 1..(n + 1)
    BY ONLY <1>nat
  <2>4. n + 1 \in 1..(n + 1) /\ p + (n + 1) = p + n + 1
    BY ONLY <1>nat
  <2>5. del[n + 1] = user[p + (n + 1)]
    BY ONLY <1>3, <2>4
  <2>6. \A j \in 1..n : del[j] = user[p + j]
    BY ONLY <1>3, <2>3
  <2> QED BY ONLY <1>2, <2>2, <2>4, <2>5, <2>6
<1> HIDE DEF p, n, m, q
<1>5. At(user, del, L)
  <2>1. L + Len(del) <= Len(user) + 1
    <3>1. Len(user) = p + n + m + n + q + 3 /\ Len(del) = n + 1
      BY ONLY <1>2, <1>3
    <3> QED BY ONLY <1>nat, <3>1 DEF L
  <2>2. ASSUME NEW j \in 1..(n + 1)
        PROVE  user[L + j - 1] = del[j]
    <3>1. CASE j \in 1..n
      <4>1. L + j - 1 = p + n + m + 2 + j
        BY <1>2
      <4> QED BY <1>2, <1>4, <3>1, <4>1
    <3>2. CASE j = n + 1
      <4>1. L + j - 1 = p + n + m + n + 3
        BY <1>2, <3>2
      <4> QED BY <1>2, <1>4, <3>2, <4>1
    <3> QED BY <1>2, <3>1, <3>2
  <2> QED BY <1>3, <2>1, <2>2 DEF At
<1>6. ASSUME NEW i \in 1..Len(user), i > L, At(user, del, i)
      PROVE  FALSE
  <2>1. /\ i \in Nat
        /\ i + n + 1 <= p + n + m + n + q + 4
        /\ \A j \in 1..(n + 1) : user[i + j - 1] = del[j]
    <3>1. i \in Nat /\ i + Len(del) <= Len(user) + 1
      BY <1>2, <1>6 DEF At
    <3>2. i + n + 1 <= p + n + m + n + q + 4
      BY ONLY <1>2, <1>3, <3>1
    <3> QED BY <1>3, <1>6, <3>1, <3>2 DEF At
  <2>2. CASE i <= L + n
    <3> DEFINE j == L + n - i + 1
    <3>1. j \in 1..n /\ i + j - 1 = p + n + m + n + 3
      BY <1>2, <1>6, <2>1, <2>2
    <3> HIDE DEF j
    <3>2. user[i + j - 1] = del[j]
      BY <1>2, <2>1, <3>1
    <3> QED BY <1>2, <1>4, <3>1, <3>2
  <2>3. CASE i > L + n
    <3> DEFINE k == i - (p + n + m + n + 3)
               sought == random \o <<Hyphen>>
    <3>1. /\ sought \in Strings /\ Len(sought) = n + 1
          /\ \A j \in 1..n : sought[j] = random[j]
          /\ sought[n + 1] = Hyphen
      <4>1. random \in Strings /\ Hyphen \in Chars
        BY <1>1, UserNamesAssumption
      <4>2. /\ sought \in Strings /\ Len(sought) = Len(random) + 1
            /\ \A j \in 1..Len(random) : sought[j] = random[j]
            /\ sought[Len(random) + 1] = Hyphen
        BY ONLY <4>1, ConcatOne
      <4> QED BY ONLY <1>1, <4>2
    <3>2. DOMAIN sought = 1..(n + 1)
      BY <3>1 DEF Strings
    <3> HIDE DEF sought
    <3>3. k \in 1..q /\ k + n + 1 <= q + 1 /\ i = p + n + m + n + 3 + k
      BY <1>2, <1>6, <2>1, <2>3
    <3> HIDE DEF k
    <3>4. ASSUME NEW j \in 1..(n + 1)
          PROVE  ns[k + j - 1] = sought[j]
      <4>1. k \in Nat /\ k >= 1 /\ k + n <= q /\ j \in Nat /\ 1 <= j /\ j <= n + 1
        <5>1. k \in 1..q /\ k + n + 1 <= q + 1 /\ j \in 1..(n + 1)
          BY ONLY <3>3, <3>4
        <5> QED BY ONLY <1>nat, <5>1
      <4>2. k + j - 1 \in 1..q
        BY ONLY <1>nat, <4>1
      <4>3. i + j - 1 = p + n + m + n + 3 + (k + j - 1)
        BY ONLY <1>nat, <3>3, <4>1
      <4>4. user[i + j - 1] = ns[k + j - 1]
        BY <1>2, <4>2, <4>3
      <4>5. del[j] = sought[j]
        BY <1>2, <1>4, <3>1
      <4> QED BY <2>1, <4>4, <4>5
    <3>5. k + Len(sought) <= q + 1
      <4>1. k + n + 1 <= q + 1 /\ k \in Nat
        BY ONLY <1>nat, <3>3
      <4> QED BY ONLY <1>nat, <3>1, <4>1
    <3>6. At(ns, sought, k)
      BY <3>2, <3>4, <3>5 DEF At, q
    <3> QED BY <3>3, <3>6 DEF GoodAccount, Occurs, sought, q
  <2> QED BY <1>2, <2>1, <2>2, <2>3
<1>7. L \in First..Len(user) /\ IsLastIndex(user, del, L)
  <2>1. L \in First..Len(user)
    <3>1. First = p + 1
      BY ONLY DEF First, p
    <3>2. L \in Nat /\ p + 1 <= L /\ L <= Len(user) /\ Len(user) \in Nat
      <4>1. Len(user) = p + n + m + n + q + 3
        BY ONLY <1>2
      <4> QED BY ONLY <1>nat, <4>1
    <3> HIDE DEF L
    <3> QED BY ONLY <1>nat, <3>1, <3>2
  <2> HIDE DEF L
  <2> QED BY <1>5, <1>6, <2>1 DEF IsLastIndex
<1>8. ASSUME NEW i \in First..Len(user), IsLastIndex(user, del, i)
      PROVE  i = L
  <2>1. i \in 1..Len(user) /\ L \in 1..Len(user) /\ i \in Nat /\ L \in Nat
    <3>1. Len(user) \in Nat /\ First \in Nat \ {0}
      <4>1. First = p + 1
        BY ONLY DEF First, p
      <4>2. Len(user) \in Nat
        BY ONLY <1>2
      <4> QED BY ONLY <1>nat, <4>1, <4>2
    <3>2. i \in First..Len(user) /\ L \in First..Len(user)
      BY ONLY <1>7, <1>8
    <3> QED BY ONLY <3>1, <3>2
  <2> HIDE DEF L
  <2>2. ~(i > L)
    BY <1>6, <1>8, <2>1 DEF IsLastIndex
  <2>3. ~(L > i)
    BY <1>5, <1>8, <2>1 DEF IsLastIndex
  <2> QED BY <2>1, <2>2, <2>3
<1> HIDE DEF L
<1>9. LastDelimiter(user) = L
  BY <1>7, <1>8 DEF LastDelimiter, del
<1> QED BY <1>1, <1>9 DEF L, p, n, m

\* The storage accepts the user name of an account and reads from it the
\* cluster and the namespace it was made for (getClusterNamespace).
THEOREM AccountRead ==
  ASSUME NEW random, NEW cluster, NEW ns, GoodAccount(random, cluster, ns)
  PROVE  LET user == Account(random, cluster, ns)
         IN /\ Accepted(user) /\ ~Panics(user)
            /\ getClusterNamespace(user) = [cluster |-> cluster, ns |-> ns]
<1> DEFINE user == Account(random, cluster, ns)
           p == Len(Prefix)
           n == Len(random)
           m == Len(cluster)
           q == Len(ns)
           L == p + n + m + 3
<1>1. /\ random \in Strings /\ cluster \in Strings /\ ns \in Strings
      /\ n = RandomLength /\ Prefix \in Strings
  BY UserNamesAssumption DEF GoodAccount, Strings
<1>2. LastDelimiter(user) = L
  BY <1>1, AccountDelimiter
<1>3. /\ p \in Nat /\ n \in Nat /\ m \in Nat /\ q \in Nat
      /\ user \in Strings
      /\ Len(user) = p + n + m + n + q + 3
      /\ \A i \in 1..p : user[i] = Prefix[i]
      /\ \A i \in 1..m : user[p + n + 1 + i] = cluster[i]
      /\ \A i \in 1..q : user[p + n + m + n + 3 + i] = ns[i]
  <2>1. AccountShape(user, random, cluster, ns, p, n, m, q)
    BY <1>1, AccountChars
  <2> QED BY ONLY <2>1 DEF AccountShape
<1>nat. p \in Nat /\ n \in Nat /\ m \in Nat /\ q \in Nat /\ n = RandomLength
  BY ONLY <1>1, <1>3
<1> HIDE DEF user
<1>4. HasPrefix(user)
  <2>1. DOMAIN Prefix = 1..p
    BY <1>1 DEF Strings
  <2>2. \A j \in 1..p : 1 + j - 1 = j
    BY <1>3
  <2> QED BY <1>3, <2>1, <2>2 DEF HasPrefix, At
<1>5. HasDelimiter(user) /\ ~SingleDelimiter(user) /\ ~TooClose(user)
  BY <1>1, <1>2, <1>3 DEF HasDelimiter, SingleDelimiter, TooClose, First, ClusterStart
<1>6. Slice(user, ClusterStart, LastDelimiter(user) - 1) = cluster
  <2>1. /\ ClusterStart \in Nat /\ LastDelimiter(user) - 1 \in Nat
        /\ LastDelimiter(user) - 1 = ClusterStart + m
    BY ONLY <1>2, <1>nat DEF ClusterStart, First, L, p, n
  <2>2. \A i \in 1..m : ClusterStart + i - 1 = p + n + 1 + i
    BY ONLY <1>nat DEF ClusterStart, First, p, n
  <2> HIDE DEF n, p, L
  <2>3. \A i \in 1..m : user[ClusterStart + i - 1] = cluster[i]
    BY <1>3, <2>2
  <2> QED BY <1>1, <2>1, <2>3, SliceEquals
<1>7. Slice(user, LastDelimiter(user) + RandomLength + 1, Len(user) + 1) = ns
  <2> DEFINE start == LastDelimiter(user) + RandomLength + 1
  <2> HIDE DEF m, n, p, q
  <2>1. start \in Nat /\ Len(user) + 1 \in Nat /\ Len(user) + 1 = start + q
    <3>1. Len(user) = p + n + m + n + q + 3
      BY ONLY <1>3
    <3> QED BY ONLY <1>2, <1>nat, <3>1 DEF start, L
  <2>2. \A i \in 1..q : start + i - 1 = p + n + m + n + 3 + i
    BY ONLY <1>2, <1>nat DEF start, L
  <2> HIDE DEF L, start
  <2>3. \A i \in 1..q : user[start + i - 1] = ns[i]
    BY <1>3, <2>2
  <2>4. Slice(user, start, Len(user) + 1) = ns
    <3>1. /\ ns \in Strings /\ Len(user) + 1 = start + Len(ns)
          /\ \A i \in 1..Len(ns) : user[start + i - 1] = ns[i]
      BY <1>1, <2>1, <2>3 DEF q
    <3> DEFINE end == Len(user) + 1
    <3>2. end \in Nat /\ start \in Nat /\ end = start + Len(ns)
      BY <2>1, <3>1
    <3> HIDE DEF user, end
    <3>3. Slice(user, start, end) = ns
      BY ONLY <3>1, <3>2, SliceEquals
    <3> QED BY <3>3 DEF end
  <2> QED BY <2>4 DEF start
<1> QED BY <1>4, <1>5, <1>6, <1>7 DEF Accepted, Panics, getClusterNamespace, user

-------------------------------------------------------------------------------
(* Manifest names.                                                         *)

\* What stands before the first dot can be told from what stands behind it.
LEMMA CutAtDot ==
  ASSUME NEW s \in Strings, NEW t \in Strings, NEW u \in Strings, NEW v \in Strings,
         Without(s, Dot), Without(u, Dot),
         s \o <<Dot>> \o t = u \o <<Dot>> \o v
  PROVE  s = u /\ t = v
<1> DEFINE a == s \o <<Dot>>
           b == u \o <<Dot>>
           w == a \o t
<1>1. /\ a \in Strings /\ Len(a) = Len(s) + 1 /\ Len(s) \in Nat
      /\ \A i \in 1..Len(s) : a[i] = s[i]
      /\ a[Len(s) + 1] = Dot
  BY ConcatOne, UserNamesAssumption
<1>2. /\ b \in Strings /\ Len(b) = Len(u) + 1 /\ Len(u) \in Nat
      /\ \A i \in 1..Len(u) : b[i] = u[i]
      /\ b[Len(u) + 1] = Dot
  BY ConcatOne, UserNamesAssumption
<1>3. w = b \o v
  OBVIOUS
<1> HIDE DEF a, b
<1>4. \A i \in 1..Len(a) : w[i] = a[i]
  BY <1>1, Concat
<1>5. \A i \in 1..Len(b) : w[i] = b[i]
  BY <1>2, <1>3, Concat
<1>6. DOMAIN s = 1..Len(s) /\ DOMAIN u = 1..Len(u)
  BY DEF Strings
<1> HIDE DEF w
<1>7. ~(Len(s) < Len(u))
  <2> SUFFICES ASSUME Len(s) < Len(u) PROVE FALSE
    OBVIOUS
  <2>1. Len(s) + 1 \in 1..Len(a) /\ Len(s) + 1 \in 1..Len(u) /\ Len(s) + 1 \in 1..Len(b)
    BY <1>1, <1>2
  <2>2. u[Len(s) + 1] = Dot
    BY <1>1, <1>2, <1>4, <1>5, <2>1
  <2> QED BY <1>6, <2>1, <2>2 DEF Without
<1>8. ~(Len(u) < Len(s))
  <2> SUFFICES ASSUME Len(u) < Len(s) PROVE FALSE
    OBVIOUS
  <2>1. Len(u) + 1 \in 1..Len(a) /\ Len(u) + 1 \in 1..Len(s) /\ Len(u) + 1 \in 1..Len(b)
    BY <1>1, <1>2
  <2>2. s[Len(u) + 1] = Dot
    BY <1>1, <1>2, <1>4, <1>5, <2>1
  <2> QED BY <1>6, <2>1, <2>2 DEF Without
<1>9. Len(s) = Len(u)
  BY <1>1, <1>2, <1>7, <1>8
<1>10. s = u
  <2>1. \A i \in 1..Len(s) : i \in 1..Len(a) /\ i \in 1..Len(b)
    BY <1>1, <1>2, <1>9
  <2>2. \A i \in 1..Len(s) : s[i] = u[i]
    BY <1>1, <1>2, <1>4, <1>5, <1>9, <2>1
  <2> QED BY <1>9, <2>2, SeqEqual DEF Strings
<1>11. t = v
  <2>1. a = b
    BY <1>10 DEF a, b
  <2> QED BY <1>1, <1>3, <2>1, ConcatSimplifications DEF w, Strings
<1> QED BY <1>10, <1>11

Flat(p, c, n, d, x) == p \o c \o d \o n \o d \o x
Nested(p, c, n, d, x) == p \o ((c \o d) \o ((n \o d) \o x))

\* Concatenation under a name of its own, of which the next proof needs no more
\* than that it is associative.
Cat(s, t) == s \o t

LEMMA CatLaws ==
  /\ \A s, t \in Strings : Cat(s, t) \in Strings
  /\ \A s, t, u \in Strings : Cat(Cat(s, t), u) = Cat(s, Cat(t, u))
<1>1. ASSUME NEW s \in Strings, NEW t \in Strings
      PROVE  Cat(s, t) \in Strings
  BY Concat DEF Cat
<1>2. ASSUME NEW s \in Strings, NEW t \in Strings, NEW u \in Strings
      PROVE  Cat(Cat(s, t), u) = Cat(s, Cat(t, u))
  BY Associative, Zenon DEF Cat
<1> QED BY <1>1, <1>2, Zenon

LEMMA Nests ==
  ASSUME NEW p \in Strings, NEW c \in Strings, NEW n \in Strings,
         NEW d \in Strings, NEW x \in Strings
  PROVE  /\ n \o d \o x \in Strings
         /\ c \o d \o (n \o d \o x) \in Strings
         /\ Flat(p, c, n, d, x) = Nested(p, c, n, d, x)
<1>1. /\ Cat(Cat(n, d), x) \in Strings
      /\ Cat(Cat(c, d), Cat(Cat(n, d), x)) \in Strings
  BY CatLaws
<1>2. Cat(Cat(Cat(Cat(Cat(p, c), d), n), d), x)
        = Cat(p, Cat(Cat(c, d), Cat(Cat(n, d), x)))
  <2>1. /\ Cat(c, d) \in Strings /\ Cat(n, d) \in Strings
        /\ Cat(p, Cat(c, d)) \in Strings
    BY CatLaws
  <2>2. Cat(Cat(p, c), d) = Cat(p, Cat(c, d))
    BY CatLaws
  <2>3. Cat(Cat(Cat(p, Cat(c, d)), n), d) = Cat(Cat(p, Cat(c, d)), Cat(n, d))
    BY <2>1, CatLaws
  <2>4. Cat(Cat(Cat(p, Cat(c, d)), Cat(n, d)), x)
          = Cat(Cat(p, Cat(c, d)), Cat(Cat(n, d), x))
    BY <2>1, CatLaws
  <2>5. Cat(Cat(p, Cat(c, d)), Cat(Cat(n, d), x))
          = Cat(p, Cat(Cat(c, d), Cat(Cat(n, d), x)))
    BY <1>1, <2>1, CatLaws
  <2> QED BY ONLY <2>2, <2>3, <2>4, <2>5
<1> QED BY ONLY <1>1, <1>2, Zenon DEF Cat, Flat, Nested

\* The parts of manifest names: plurals and namespaces have no dots, clusters
\* and names may have some.
Parts ==
  {p \in [plural : Strings, cluster : Strings, ns : Strings, name : Strings] :
     Without(p.plural, Dot) /\ Without(p.ns, Dot)}
NameOf(p) == getNormalizedManifestName(p.plural, p.cluster, p.ns, p.name)

\* A manifest's name behind the cluster's dot, and behind the plural's.
Dotted(s, t) == s \o <<Dot>> \o t
Inner(p) == Dotted(p.ns, p.name)
Outer(p) == Dotted(p.cluster, Inner(p))

LEMMA DottedChars ==
  ASSUME NEW s \in Strings, NEW t \in Strings
  PROVE  /\ Dotted(s, t) \in Strings
         /\ Len(Dotted(s, t)) = Len(s) + 1 + Len(t)
         /\ Len(s) \in Nat /\ Len(t) \in Nat
         /\ \A i \in 1..Len(s) : Dotted(s, t)[i] = s[i]
         /\ Dotted(s, t)[Len(s) + 1] = Dot
         /\ \A i \in 1..Len(t) : Dotted(s, t)[Len(s) + 1 + i] = t[i]
<1> DEFINE a == s \o <<Dot>>
<1>1. /\ a \in Strings /\ Len(a) = Len(s) + 1 /\ Len(s) \in Nat
      /\ \A i \in 1..Len(s) : a[i] = s[i]
      /\ a[Len(s) + 1] = Dot
  BY ConcatOne, UserNamesAssumption
<1>2. Dotted(s, t) = a \o t
  BY DEF Dotted
<1> HIDE DEF a
<1>3. /\ a \o t \in Strings /\ Len(a \o t) = Len(a) + Len(t) /\ Len(t) \in Nat
      /\ \A i \in 1..Len(a) : (a \o t)[i] = a[i]
      /\ \A i \in 1..Len(t) : (a \o t)[Len(a) + i] = t[i]
  BY <1>1, Concat
<1> QED BY <1>1, <1>2, <1>3

\* What stands behind the first dot is determined by what stands before it.
LEMMA SameHead ==
  ASSUME NEW s \in Strings, NEW t \in Strings, NEW u \in Strings,
         Dotted(s, t) = Dotted(s, u)
  PROVE  t = u
<1> DEFINE a == s \o <<Dot>>
<1>1. a \in Strings
  BY ConcatOne, UserNamesAssumption
<1>2. a \o t = a \o u
  BY DEF Dotted
<1> HIDE DEF a
<1> QED BY <1>1, <1>2, ConcatSimplifications DEF Strings

LEMMA CutDotted ==
  ASSUME NEW s \in Strings, NEW t \in Strings, NEW u \in Strings, NEW v \in Strings,
         Without(s, Dot), Without(u, Dot), Dotted(s, t) = Dotted(u, v)
  PROVE  s = u /\ t = v
BY CutAtDot, Zenon DEF Dotted

LEMMA NameNests ==
  ASSUME NEW p \in Parts
  PROVE  /\ p.plural \in Strings /\ p.cluster \in Strings /\ p.ns \in Strings
         /\ p.name \in Strings /\ Inner(p) \in Strings /\ Outer(p) \in Strings
         /\ Without(p.plural, Dot) /\ Without(p.ns, Dot)
         /\ NameOf(p) = Dotted(p.plural, Outer(p))
<1> DEFINE d == <<Dot>>
           plural  == p.plural
           cluster == p.cluster
           ns      == p.ns
           name    == p.name
<1>1. /\ plural \in Strings /\ cluster \in Strings /\ ns \in Strings /\ name \in Strings
      /\ Without(plural, Dot) /\ Without(ns, Dot)
  BY DEF Parts
<1>2. d \in Strings
  BY UserNamesAssumption DEF Strings
<1>3. plural \o d \in Strings
  BY <1>1, <1>2, Concat
<1>4. /\ Inner(p) = ns \o d \o name
      /\ Outer(p) = cluster \o d \o (ns \o d \o name)
      /\ NameOf(p) = plural \o d \o cluster \o d \o ns \o d \o name
  BY DEF Inner, Outer, Dotted, NameOf, getNormalizedManifestName
<1> HIDE DEF d, plural, cluster, ns, name
<1>5. /\ ns \o d \o name \in Strings
      /\ cluster \o d \o (ns \o d \o name) \in Strings
      /\ Flat(plural \o d, cluster, ns, d, name) = Nested(plural \o d, cluster, ns, d, name)
  <2> DEFINE start == plural \o d
  <2>1. start \in Strings
    BY ONLY <1>3
  <2> HIDE DEF start
  <2>2. /\ ns \o d \o name \in Strings
        /\ cluster \o d \o (ns \o d \o name) \in Strings
        /\ Flat(start, cluster, ns, d, name) = Nested(start, cluster, ns, d, name)
    BY ONLY <1>1, <1>2, <2>1, Nests
  <2> QED BY ONLY <2>2 DEF start
<1>6. NameOf(p) = plural \o d \o Outer(p)
  BY ONLY <1>4, <1>5, Zenon DEF Flat, Nested
<1>7. Inner(p) \in Strings /\ Outer(p) \in Strings
  BY ONLY <1>4, <1>5
<1> QED BY ONLY <1>1, <1>6, <1>7 DEF d, plural, cluster, ns, name, Dotted

LEMMA SameOuter ==
  ASSUME NEW p \in Parts, NEW q \in Parts, NameOf(p) = NameOf(q)
  PROVE  p.plural = q.plural /\ Outer(p) = Outer(q)
<1>1. /\ p.plural \in Strings /\ Outer(p) \in Strings /\ Without(p.plural, Dot)
      /\ NameOf(p) = Dotted(p.plural, Outer(p))
  BY NameNests, Zenon
<1>2. /\ q.plural \in Strings /\ Outer(q) \in Strings /\ Without(q.plural, Dot)
      /\ NameOf(q) = Dotted(q.plural, Outer(q))
  BY NameNests, Zenon
<1>3. Dotted(p.plural, Outer(p)) = Dotted(q.plural, Outer(q))
  BY ONLY <1>1, <1>2, NameOf(p) = NameOf(q), Zenon
<1> QED BY ONLY <1>1, <1>2, <1>3, CutDotted

\* Within a business cluster different objects have manifests of different
\* names, whatever dots the cluster and the objects' names have ("so we use
\* '.' for concatenation", getNormalizedManifestName).
THEOREM ManifestNamesDiffer ==
  ASSUME NEW p \in Parts, NEW q \in Parts, p.cluster = q.cluster,
         NameOf(p) = NameOf(q)
  PROVE  p = q
<1>1. /\ p.cluster \in Strings /\ p.ns \in Strings /\ p.name \in Strings
      /\ Inner(p) \in Strings /\ Without(p.ns, Dot)
  BY NameNests, Zenon
<1>2. /\ q.ns \in Strings /\ q.name \in Strings
      /\ Inner(q) \in Strings /\ Without(q.ns, Dot)
  BY NameNests, Zenon
<1>3. p.plural = q.plural /\ Outer(p) = Outer(q)
  BY SameOuter
<1>4. Dotted(p.cluster, Inner(p)) = Dotted(p.cluster, Inner(q))
  BY <1>3, Zenon DEF Outer
<1>5. Inner(p) = Inner(q)
  BY ONLY <1>1, <1>2, <1>4, SameHead
<1>6. p.ns = q.ns /\ p.name = q.name
  BY ONLY <1>1, <1>2, <1>5, CutDotted DEF Inner
<1> QED BY <1>3, <1>6 DEF Parts

\* The cluster of q, a dot after it, begins with the cluster and the namespace
\* of p, a dot after each.
Covers(q, p) ==
  At(q.cluster \o <<Dot>>, p.cluster \o <<Dot>> \o p.ns \o <<Dot>>, 1)

\* A string that is cut at two of its dots, d being the longer of the heads: a
\* word n without dots behind the shorter head, and its dot, are part of d and
\* the dot behind d.
LEMMA LongerHead ==
  ASSUME NEW c \in Strings, NEW n \in Strings, NEW x \in Strings,
         NEW d \in Strings, NEW t \in Strings, Without(n, Dot),
         Dotted(c, Dotted(n, x)) = Dotted(d, t), Len(c) < Len(d)
  PROVE  At(d \o <<Dot>>, c \o <<Dot>> \o n \o <<Dot>>, 1)
<1> DEFINE r == Dotted(n, x)
           w == Dotted(d, t)
           a == Len(c)
           b == Len(n)
           l == Len(d)
           u == c \o <<Dot>>
           v == u \o n
           part  == v \o <<Dot>>
           whole == d \o <<Dot>>
<1>1. /\ r \in Strings /\ Len(r) = b + 1 + Len(x) /\ b \in Nat /\ Len(x) \in Nat
      /\ \A i \in 1..b : r[i] = n[i]
      /\ r[b + 1] = Dot
  BY DottedChars
<1>2. w = Dotted(c, r)
  OBVIOUS
<1>3. /\ \A i \in 1..l : w[i] = d[i]
      /\ w[l + 1] = Dot /\ l \in Nat
  BY DottedChars
<1>4. a < l
  OBVIOUS
<1>5. /\ u \in Strings /\ Len(u) = a + 1 /\ a \in Nat
      /\ \A i \in 1..a : u[i] = c[i]
      /\ u[a + 1] = Dot
  BY ConcatOne, UserNamesAssumption
<1>6. /\ whole \in Strings /\ Len(whole) = l + 1
      /\ \A i \in 1..l : whole[i] = d[i]
      /\ whole[l + 1] = Dot
  BY ConcatOne, UserNamesAssumption
<1>7. DOMAIN n = 1..b
  BY DEF Strings
<1> HIDE DEF r, w, u, whole
<1>8. /\ \A i \in 1..a : w[i] = c[i]
      /\ w[a + 1] = Dot
      /\ \A i \in 1..Len(r) : w[a + 1 + i] = r[i]
  <2>1. /\ \A i \in 1..a : Dotted(c, r)[i] = c[i]
        /\ Dotted(c, r)[a + 1] = Dot
        /\ \A i \in 1..Len(r) : Dotted(c, r)[a + 1 + i] = r[i]
    BY ONLY <1>1, c \in Strings, DottedChars
  <2> QED BY ONLY <1>2, <2>1
<1>9. /\ v \in Strings /\ Len(v) = Len(u) + b
      /\ \A i \in 1..Len(u) : v[i] = u[i]
      /\ \A i \in 1..b : v[Len(u) + i] = n[i]
  BY <1>5, Concat
<1> HIDE DEF v, a, b, l
<1>10. /\ part \in Strings /\ Len(part) = Len(v) + 1
       /\ \A i \in 1..Len(v) : part[i] = v[i]
       /\ part[Len(v) + 1] = Dot
  BY <1>9, ConcatOne, UserNamesAssumption
<1> HIDE DEF part
<1>11. \A j \in 1..b : w[a + 1 + j] = n[j]
  <2> SUFFICES ASSUME NEW j \in 1..b PROVE w[a + 1 + j] = n[j]
    OBVIOUS
  <2>1. j \in 1..Len(r)
    BY ONLY <1>1
  <2> QED BY ONLY <1>1, <1>8, <2>1
<1>12. w[a + b + 2] = Dot
  <2>1. b + 1 \in 1..Len(r) /\ a + 1 + (b + 1) = a + b + 2
    BY ONLY <1>1, <1>5
  <2> QED BY ONLY <1>1, <1>8, <2>1
<1>13. a + b + 2 <= l + 1
  <2> SUFFICES ASSUME l + 1 < a + b + 2 PROVE FALSE
    BY <1>1, <1>3, <1>5
  <2>0. a \in Nat /\ b \in Nat /\ l \in Nat
    BY ONLY <1>1, <1>3, <1>5
  <2>1. l - a \in 1..b /\ l + 1 = a + 1 + (l - a)
    BY ONLY <1>4, <2>0, l + 1 < a + b + 2
  <2>2. w[l + 1] = n[l - a]
    BY ONLY <1>11, <2>1
  <2> QED BY <1>3, <1>7, <2>1, <2>2 DEF Without
<1>14. \A i \in 1..(a + b + 2) : part[i] = w[i]
  <2> SUFFICES ASSUME NEW i \in 1..(a + b + 2) PROVE part[i] = w[i]
    OBVIOUS
  <2>1. CASE i <= a + 1
    <3>1. i \in 1..Len(v) /\ i \in 1..Len(u)
      BY ONLY <1>1, <1>5, <1>9, <2>1
    <3>2. part[i] = u[i]
      BY ONLY <1>9, <1>10, <3>1
    <3> QED BY ONLY <1>5, <1>8, <2>1, <3>2
  <2>2. CASE a + 1 < i /\ i < a + b + 2
    <3>1. /\ i - (a + 1) \in 1..b /\ i = Len(u) + (i - (a + 1))
          /\ i = a + 1 + (i - (a + 1)) /\ i \in 1..Len(v)
      BY ONLY <1>1, <1>5, <1>9, <2>2
    <3>2. part[i] = n[i - (a + 1)]
      BY ONLY <1>9, <1>10, <3>1
    <3>3. w[i] = n[i - (a + 1)]
      BY ONLY <1>11, <3>1
    <3> QED BY ONLY <3>2, <3>3
  <2>3. CASE i = a + b + 2
    <3>1. i = Len(v) + 1
      BY ONLY <1>1, <1>5, <1>9, <2>3
    <3> QED BY ONLY <1>10, <1>12, <2>3, <3>1
  <2> QED BY ONLY <1>1, <1>5, <2>1, <2>2, <2>3
<1>15. \A i \in 1..(l + 1) : whole[i] = w[i]
  BY ONLY <1>3, <1>6
<1>16. At(whole, part, 1)
  <2>1. Len(part) = a + b + 2
    BY ONLY <1>1, <1>5, <1>9, <1>10
  <2>2. DOMAIN part = 1..(a + b + 2)
    BY ONLY <1>10, <2>1 DEF Strings
  <2>3. \A j \in 1..(a + b + 2) : whole[1 + j - 1] = part[j]
    BY ONLY <1>1, <1>3, <1>5, <1>13, <1>14, <1>15
  <2>4. 1 + Len(part) <= Len(whole) + 1
    BY ONLY <1>1, <1>3, <1>5, <1>6, <1>13, <2>1
  <2> QED BY ONLY <2>2, <2>3, <2>4 DEF At
<1> QED BY <1>16 DEF u, v, part, whole

\* Heads of one length before the same characters are the same.
LEMMA SameLength ==
  ASSUME NEW s \in Strings, NEW t \in Strings, NEW u \in Strings, NEW v \in Strings,
         Dotted(s, t) = Dotted(u, v), Len(s) = Len(u)
  PROVE  s = u
<1> DEFINE w == Dotted(u, v)
<1>1. w = Dotted(s, t)
  OBVIOUS
<1>2. \A i \in 1..Len(u) : w[i] = u[i]
  BY DottedChars
<1> HIDE DEF w
<1>3. \A i \in 1..Len(s) : w[i] = s[i]
  <2>1. \A i \in 1..Len(s) : Dotted(s, t)[i] = s[i]
    BY ONLY s \in Strings, t \in Strings, DottedChars
  <2> QED
    BY ONLY <1>1, <2>1
<1> QED BY <1>2, <1>3, SeqEqual DEF Strings

LEMMA LongerCovers ==
  ASSUME NEW p \in Parts, NEW q \in Parts, Outer(p) = Outer(q),
         Len(p.cluster) < Len(q.cluster)
  PROVE  Covers(q, p)
<1>1. /\ p.cluster \in Strings /\ p.ns \in Strings /\ p.name \in Strings
      /\ Without(p.ns, Dot) /\ q.cluster \in Strings /\ Inner(q) \in Strings
  BY NameNests, Zenon
<1>2. Dotted(p.cluster, Dotted(p.ns, p.name)) = Dotted(q.cluster, Inner(q))
  BY Zenon DEF Outer, Inner
<1>3. At(q.cluster \o <<Dot>>, p.cluster \o <<Dot>> \o p.ns \o <<Dot>>, 1)
  BY ONLY <1>1, <1>2, Len(p.cluster) < Len(q.cluster), LongerHead
<1> QED BY <1>3, Zenon DEF Covers

\* Two objects share a manifest only if they are of one resource and one's
\* cluster has a dot behind the whole of the other's cluster, and a dot behind
\* the other's namespace: nothing else can make their names meet, and no code
\* keeps clusters from having dots (getUser, getNormalizedManifestName).
THEOREM ManifestNamesMeet ==
  ASSUME NEW p \in Parts, NEW q \in Parts, NameOf(p) = NameOf(q), p # q
  PROVE  p.plural = q.plural /\ (Covers(p, q) \/ Covers(q, p))
<1>1. p.plural = q.plural /\ Outer(p) = Outer(q)
  BY SameOuter
<1>2. p.cluster # q.cluster
  BY ManifestNamesDiffer
<1>3. Len(p.cluster) # Len(q.cluster)
  <2> SUFFICES ASSUME Len(p.cluster) = Len(q.cluster) PROVE FALSE
    OBVIOUS
  <2>1. /\ p.cluster \in Strings /\ Inner(p) \in Strings
        /\ q.cluster \in Strings /\ Inner(q) \in Strings
    BY NameNests, Zenon
  <2>2. Dotted(p.cluster, Inner(p)) = Dotted(q.cluster, Inner(q))
    BY <1>1, Zenon DEF Outer
  <2>3. p.cluster = q.cluster
    BY ONLY <2>1, <2>2, Len(p.cluster) = Len(q.cluster), SameLength
  <2> QED BY <1>2, <2>3
<1>4. Len(p.cluster) \in Nat /\ Len(q.cluster) \in Nat
  <2>1. p.cluster \in Strings /\ q.cluster \in Strings
    BY NameNests, Zenon
  <2> QED BY <2>1, LenProperties DEF Strings
<1>5. CASE Len(p.cluster) < Len(q.cluster)
  BY <1>1, <1>5, LongerCovers
<1>6. CASE Len(q.cluster) < Len(p.cluster)
  BY <1>1, <1>6, LongerCovers
<1> QED BY <1>1, <1>3, <1>4, <1>5, <1>6

-------------------------------------------------------------------------------
(* Names in the storage.                                                   *)

\* The storage takes every client for what its account was made for.
LEMMA ReadsRight ==
  ASSUME NEW c \in Clients
  PROVE  /\ MadeFor[c].cluster \in Clusters /\ MadeFor[c].ns \in Namespaces
         /\ ClusterOf[c] = MadeFor[c].cluster
         /\ AllowedNs[c] = MadeFor[c].ns
<1> DEFINE cluster == MadeFor[c].cluster
           ns      == MadeFor[c].ns
<1>1. /\ cluster \in Clusters /\ ns \in Namespaces /\ MadeFor[c].random \in Strings
      /\ cluster \in DOMAIN Spelling /\ ns \in DOMAIN Spelling
      /\ Clusters \subseteq DOMAIN Spelling /\ Namespaces \subseteq DOMAIN Spelling
      /\ Spelling[cluster] \in Strings /\ Spelling[ns] \in Strings
  BY TenantsAssumption
<1>2. GoodAccount(MadeFor[c].random, Spelling[cluster], Spelling[ns])
  BY <1>1, TenantsAssumption DEF GoodAccount
<1>3. getClusterNamespace(UserName(c)) =
        [cluster |-> Spelling[cluster], ns |-> Spelling[ns]]
  BY <1>2, AccountRead DEF UserName
<1>4. \A cl \in Clusters : Spelling[cl] = Spelling[cluster] => cl = cluster
  BY <1>1, TenantsAssumption
<1>5. \A n \in Namespaces : Spelling[n] = Spelling[ns] => n = ns
  BY <1>1, TenantsAssumption
<1>6. ReadCluster(c) = cluster
  BY <1>1, <1>3, <1>4 DEF ReadCluster
<1>7. ReadNs(c) = ns
  BY <1>1, <1>3, <1>5 DEF ReadNs
<1> QED BY <1>1, <1>6, <1>7, ReadAssumption

\* Every state of a manifest is due to a client whose account was made for the
\* manifest's cluster and namespace, whatever the names, as long as an
\* account's delimiter does not occur in its namespace (getUser, getClusterNamespace).
THEOREM AccountsApart == Spec => []AccountsKeepApart
<1>1. TypeOK /\ TInv => AccountsKeepApart
  <2> SUFFICES ASSUME TypeOK, TInv, NEW k \in Keys, NEW i \in DOMAIN hist[k],
                      hist[k][i].by # 0
               PROVE  /\ MadeFor[issued[hist[k][i].by]].cluster = k.cluster
                      /\ MadeFor[issued[hist[k][i].by]].ns = k.ns
    BY DEF AccountsKeepApart
  <2> DEFINE t == hist[k][i].by
  <2>1. t \in DOMAIN issued
    <3>1. t \in DOMAIN answer
      BY DEF TInv, HInv, AuthorsKnown
    <3>2. DOMAIN answer = DOMAIN issued
      BY LenProperties DEF TypeOK
    <3> QED BY <3>1, <3>2
  <2>2. issued[t] \in Clients
    BY <2>1, ElementOfSeq DEF TypeOK
  <2>3. ClusterOf[issued[t]] = k.cluster /\ AllowedNs[issued[t]] = k.ns
    BY DEF TInv, HInv, WritesStayHome
  <2> QED BY <2>2, <2>3, ReadsRight
<1> QED BY <1>1, Provenance, TypeCorrect, PTL
==============================================================================
