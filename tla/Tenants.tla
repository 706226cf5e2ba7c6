------------------------------- MODULE Tenants -------------------------------
(***************************************************************************)
(* The overlay REST storage with the clients' real user names: what        *)
(* cluster and namespace a client has is read from the name of the service *)
(* account that was made for it, and manifests have the names the storage  *)
(* builds.                                                                 *)
(***************************************************************************)
EXTENDS OverlayREST, UserNames

CONSTANTS
  Spelling,   \* the characters of plurals, clusters, namespaces and names
  MadeFor     \* MadeFor[c]: random string, cluster and namespace of c's account

UserName(c) ==
  Account(MadeFor[c].random, Spelling[MadeFor[c].cluster], Spelling[MadeFor[c].ns])

\* getUser: what the storage takes c to be.
ReadCluster(c) == CHOOSE cl \in Clusters :
  Spelling[cl] = getClusterNamespace(UserName(c)).cluster
ReadNs(c) == CHOOSE ns \in Namespaces :
  Spelling[ns] = getClusterNamespace(UserName(c)).ns

ManifestName(k) ==
  getNormalizedManifestName(Spelling[k.plural], Spelling[k.cluster],
                            Spelling[k.ns], Spelling[k.name])

\* Different words are spelled differently.  An account's random string,
\* a hyphen after it, does not occur in its namespace.
ASSUME TenantsAssumption ==
  /\ Spelling \in [Plurals \cup Clusters \cup Namespaces \cup Names -> Strings]
  /\ \A s, t \in DOMAIN Spelling : Spelling[s] = Spelling[t] => s = t
  /\ MadeFor \in [Clients -> [random : Strings, cluster : Clusters, ns : Namespaces]]
  /\ \A c \in Clients :
       /\ Len(MadeFor[c].random) = RandomLength
       /\ Without(MadeFor[c].random, Hyphen)
       /\ ~Occurs(Spelling[MadeFor[c].ns], MadeFor[c].random \o <<Hyphen>>)

\* A key stands for a manifest, so different keys must have different names.
\* Clusters with dots can break that: TenantsProofs!ManifestNamesMeet says
\* which, and objects with such keys share a manifest, which is not modelled.
ASSUME KeysAssumption ==
  \A k, l \in Keys : ManifestName(k) = ManifestName(l) => k = l

\* What the storage uses as a client's cluster and namespace is what it reads
\* from the client's user name.
ASSUME ReadAssumption ==
  \A c \in Clients : ClusterOf[c] = ReadCluster(c) /\ AllowedNs[c] = ReadNs(c)

-------------------------------------------------------------------------------
\* Whatever hyphens clusters and namespaces contain, the other part's random
\* string included, every state of a manifest is due to a client whose account
\* was made for the manifest's cluster and namespace (getClusterNamespace).
AccountsKeepApart ==
  \A k \in Keys : \A i \in DOMAIN hist[k] :
    LET t == hist[k][i].by IN
    t # 0 => /\ MadeFor[issued[t]].cluster = k.cluster
             /\ MadeFor[issued[t]].ns = k.ns
==============================================================================
