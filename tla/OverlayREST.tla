----------------------------- MODULE OverlayREST -----------------------------
(***************************************************************************)
(* The overlay REST storage (pkg/apiserver/overlay/rest.go).               *)
(*                                                                         *)
(* Clients are users of business clusters.  Each object they write is kept *)
(* as one KubernetesCrd manifest in the reserved namespace of the host     *)
(* kube-apiserver, under a name built from the resource, the business      *)
(* cluster, the namespace and the object's name.  The storage reads        *)
(* manifests from an informer cache that lags behind the host, and writes  *)
(* them to the host, which checks resource versions.                       *)
(*                                                                         *)
(* The host is modelled by the history of every manifest name; the cache   *)
(* by the position in that history it has reached.                         *)
(***************************************************************************)
EXTENDS Naturals, Sequences, FiniteSets

CONSTANTS
  Clients,        \* users of the overlay API
  ClusterOf,      \* ClusterOf[c]: business cluster in c's user name
  AllowedNs,      \* AllowedNs[c]: namespace in c's user name, or NoNamespace
  Resources,      \* the resources served, one REST storage each
  PluralOf,       \* PluralOf[r]: the plural name of resource r
  KindOf,         \* KindOf[r]: the kind of resource r
  Clusters, Namespaces, Names,
  NoNamespace,    \* a request for no namespace; a user name that allows none
  UserKeys,       \* label keys other than the config labels
  UserLabels,     \* the labels an object may carry when it is written
  LabelValues,    \* the values of labels
  NoLabel,        \* "the label is not set"
  Nothing,        \* no request, no object read
  Uses,           \* bound: the verbs the clients use
  MaxWrites,      \* bound: calls made to the storage
  MaxRestarts     \* bound: restarts of the server

ConfigKeys == {"kind", "namespace", "cluster", "name"}
LabelKeys  == ConfigKeys \cup UserKeys
Labels     == [LabelKeys -> LabelValues \cup {NoLabel}]

ASSUME ClientsAssumption ==
  /\ ClusterOf \in [Clients -> Clusters]
  /\ AllowedNs \in [Clients -> Namespaces \cup {NoNamespace}]
  /\ NoNamespace \notin Namespaces
ASSUME ResourcesAssumption ==
  /\ KindOf \in [Resources -> LabelValues]
  /\ DOMAIN PluralOf = Resources
ASSUME LabelsAssumption ==
  /\ UserLabels \subseteq Labels
  /\ UserKeys \cap ConfigKeys = {}
  /\ Clusters \cup Namespaces \cup Names \subseteq LabelValues
  /\ NoLabel \notin LabelValues
ASSUME BoundsAssumption ==
  /\ MaxWrites \in Nat /\ MaxRestarts \in Nat
  /\ Uses \subseteq {"get", "create", "patch", "put", "delete"}

Plurals == {PluralOf[r] : r \in Resources}
Verbs   == {"create", "patch", "put", "delete"}
Tokens  == 1..MaxWrites

\* Manifest names (getNormalizedManifestName).
Keys == [plural : Plurals, cluster : Clusters, ns : Namespaces, name : Names]

\* One state of a manifest at the host: `data' stands for the object in
\* manifest.Raw, as the edits it is made of, `meta' for the labels in that
\* object, `labels' for those of the manifest, `by' for the write that left
\* this state.
Edits    == Verbs \X Tokens
Versions == [by : Nat, rev : Nat, live : BOOLEAN, data : Seq(Edits),
             meta : Labels, labels : Labels]

ASSUME NothingAssumption == Nothing \notin Seq(Edits)

Unlabelled == [l \in LabelKeys |-> NoLabel]
Missing(t, n) == [by |-> t, rev |-> n, live |-> FALSE, data |-> << >>,
                  meta |-> Unlabelled, labels |-> Unlabelled]

\* A call inside the storage: `body' is the content a put carries, `read'
\* the resourceVersion in that body (0: none), `base' the cached manifest an
\* update starts from.
Requests == [verb : Verbs, res : Resources, key : Keys, token : Tokens,
             meta : Labels, body : Seq(Edits), read : Nat,
             base : Versions]

Answers == {"pending", "ok", "forbidden", "refused", "exists", "notfound",
            "conflict", "unknown"}
Stages  == {"idle", "dryrun", "lookup", "store"}

VARIABLES
  hist,     \* hist[k]: every state manifest k has had at the host
  rev,      \* the host's last resourceVersion
  seen,     \* seen[k]: the state of k in the lister's cache
  issued,   \* issued[t]: the client that made write t
  answer,   \* answer[t]: what it has been told
  stage,    \* stage[c]: where c's call is
  req,      \* req[c]: c's call
  view,     \* view[c]: the object c read last
  adrift,   \* writes given up by their caller that the host may still execute
  restarts  \* restarts so far

vars == <<hist, rev, seen, issued, answer, stage, req, view, adrift,
          restarts>>

-------------------------------------------------------------------------------
(* Reading manifests.                                                      *)

Latest(k) == hist[k][Len(hist[k])]
Cached(k) == hist[k][seen[k]]

KeyOf(c, r, ns, name) ==
  [plural |-> PluralOf[r], cluster |-> ClusterOf[c], ns |-> ns, name |-> name]

\* Mutation: any namespace will do.
PermittedAnywhere(c, ns) == ns # NoNamespace /\ AllowedNs[c] # NoNamespace

\* getUser: the cluster is taken from the user name, the namespace of the
\* request must be there and be the one the user name allows.
Permitted(c, ns) == ns # NoNamespace /\ ns = AllowedNs[c]

\* The labels the storage puts on a manifest of resource r.
ConfigLabel(r, k, l) ==
  CASE l = "kind"      -> KindOf[r]
    [] l = "namespace" -> k.ns
    [] l = "cluster"   -> k.cluster
    [] l = "name"      -> k.name

WithConfig(labels, r, k) ==
  [l \in LabelKeys |-> IF l \in ConfigKeys THEN ConfigLabel(r, k, l) ELSE labels[l]]

\* Update: the object's labels are added to those the manifest has.
Merged(old, new) ==
  [l \in LabelKeys |-> IF new[l] # NoLabel THEN new[l] ELSE old[l]]

\* List with a selector `l = v' (l = Nothing: no selector of the user's).
Selects(k, r, cluster, ns, l, v) ==
  /\ Latest(k).live
  /\ Latest(k).labels["kind"] = KindOf[r]
  /\ Latest(k).labels["namespace"] = ns
  /\ Latest(k).labels["cluster"] = cluster
  /\ l = Nothing \/ Latest(k).labels[l] = v
List(r, cluster, ns, l, v) == {k \in Keys : Selects(k, r, cluster, ns, l, v)}

-------------------------------------------------------------------------------
(* Calls.                                                                  *)

FirstStage(verb) ==
  CASE verb = "create"           -> "dryrun"
    [] verb \in {"patch", "put"} -> "lookup"
    [] verb = "delete"           -> "store"

\* A put carries the object its client read since its last call, edited, or
\* an object made from nothing (and then no resourceVersion).
PutBody(c, k, t) ==
  IF view[c] # Nothing /\ view[c].key = k /\ view[c].state.live
  THEN [edits |-> Append(view[c].state.data, <<"put", t>>),
        read  |-> view[c].state.rev]
  ELSE [edits |-> << <<"put", t>> >>, read |-> 0]

Begin(c, verb, r, ns, name, meta) ==
  LET t == Len(issued) + 1
      k == KeyOf(c, r, ns, name)
      put == PutBody(c, k, t)
  IN /\ stage[c] = "idle"
     /\ t <= MaxWrites
     /\ Permitted(c, ns)
     /\ issued' = Append(issued, c)
     /\ answer' = Append(answer, "pending")
     /\ stage'  = [stage EXCEPT ![c] = FirstStage(verb)]
     /\ req'    = [req EXCEPT ![c] =
                     [verb |-> verb, res |-> r, key |-> k, token |-> t,
                      meta |-> meta, body |-> put.edits, read |-> put.read,
                      base |-> Missing(0, 0)]]
     /\ view'   = [view EXCEPT ![c] = Nothing]
     /\ UNCHANGED <<hist, rev, seen, adrift, restarts>>

Forbid(c, ns) ==
  /\ stage[c] = "idle"
  /\ Len(issued) < MaxWrites
  /\ ~Permitted(c, ns)
  /\ issued' = Append(issued, c)
  /\ answer' = Append(answer, "forbidden")
  /\ UNCHANGED <<hist, rev, seen, stage, req, view, adrift, restarts>>

\* Get: without a resourceVersion from the cache, with one from the host.
Get(c, r, ns, name) ==
  /\ "get" \in Uses
  /\ stage[c] = "idle"
  /\ Permitted(c, ns)
  /\ LET k == KeyOf(c, r, ns, name) IN
     \E state \in {Cached(k), Latest(k)} :
        view' = [view EXCEPT ![c] =
                   IF state.live THEN [key |-> k, state |-> state] ELSE Nothing]
  /\ UNCHANGED <<hist, rev, seen, issued, answer, stage, req, adrift,
                 restarts>>

-------------------------------------------------------------------------------
(* Steps of a call.                                                        *)

Finish(c, a) ==
  /\ answer' = [answer EXCEPT ![req[c].token] = a]
  /\ stage'  = [stage EXCEPT ![c] = "idle"]
  /\ req'    = [req EXCEPT ![c] = Nothing]

DryRunPasses(c) ==
  /\ stage[c] = "dryrun"
  /\ stage' = [stage EXCEPT ![c] = "store"]
  /\ UNCHANGED <<hist, rev, seen, issued, answer, req, view, adrift,
                 restarts>>

\* The host refuses the object, or cannot be reached.
DryRunFails(c) ==
  /\ stage[c] = "dryrun"
  /\ Finish(c, "refused")
  /\ UNCHANGED <<hist, rev, seen, issued, view, adrift, restarts>>

\* Update reads the manifest it will change from the cache.
LookUp(c) ==
  /\ stage[c] = "lookup"
  /\ Cached(req[c].key).live
  /\ req'   = [req EXCEPT ![c].base = Cached(req[c].key)]
  /\ stage' = [stage EXCEPT ![c] = "store"]
  /\ UNCHANGED <<hist, rev, seen, issued, answer, view, adrift, restarts>>

LookUpMisses(c) ==
  /\ stage[c] = "lookup"
  /\ ~Cached(req[c].key).live
  /\ Finish(c, "notfound")
  /\ UNCHANGED <<hist, rev, seen, issued, view, adrift, restarts>>

\* The patch cannot be applied or the validators refuse the new object.
UpdateInvalid(c) ==
  /\ stage[c] = "lookup"
  /\ Cached(req[c].key).live
  /\ Finish(c, "refused")
  /\ UNCHANGED <<hist, rev, seen, issued, view, adrift, restarts>>

\* Mutation: the manifest is sent without its resourceVersion.
AcceptableUnversioned(q) == Latest(q.key).live = (q.verb # "create")

\* What the host demands of a write: a create must find nothing, a delete
\* something, an update the very resourceVersion it was made from.
Acceptable(q) ==
  LET cur == Latest(q.key) IN
  CASE q.verb = "create"           -> ~cur.live
    [] q.verb = "delete"           -> cur.live
    [] q.verb \in {"patch", "put"} -> cur.live /\ cur.rev = q.base.rev

\* Mutation: the object's labels overwrite those of the storage.
CreatedLabelsReversed(q) ==
  Merged(WithConfig(Unlabelled, q.res, q.key), q.meta)
\* Mutation: an update keeps the labels the manifest was created with.
UpdatedLabelsKept(q) == WithConfig(q.base.labels, q.res, q.key)

\* The state of the manifest a write asks for.
CreatedLabels(q) == WithConfig(q.meta, q.res, q.key)
UpdatedLabels(q) == WithConfig(Merged(q.base.labels, q.meta), q.res, q.key)
Content(q) ==
  CASE q.verb = "create" -> << <<"create", q.token>> >>
    [] q.verb = "patch"  -> Append(q.base.data, <<"patch", q.token>>)
    [] q.verb = "put"    -> q.body
Written(q, n) ==
  IF q.verb = "delete" THEN Missing(q.token, n)
  ELSE [by |-> q.token, rev |-> n, live |-> TRUE, data |-> Content(q),
        meta |-> q.meta,
        labels |-> IF q.verb = "create" THEN CreatedLabels(q) ELSE UpdatedLabels(q)]

\* The host executes a write.
Execute(q) ==
  /\ Acceptable(q)
  /\ hist' = [hist EXCEPT ![q.key] = Append(@, Written(q, rev + 1))]
  /\ rev'  = rev + 1

StoreWrites(c) ==
  /\ stage[c] = "store"
  /\ Execute(req[c])
  /\ Finish(c, "ok")
  /\ UNCHANGED <<seen, issued, view, adrift, restarts>>

\* The host reports a conflict, and so does the storage.
StoreConflicts(c) ==
  /\ stage[c] = "store"
  /\ req[c].verb \in {"patch", "put"}
  /\ Latest(req[c].key).live
  /\ ~Acceptable(req[c])
  /\ Finish(c, "conflict")
  /\ UNCHANGED <<hist, rev, seen, issued, view, adrift, restarts>>

StoreFindsNothing(c) ==
  /\ stage[c] = "store"
  /\ req[c].verb # "create"
  /\ ~Latest(req[c].key).live
  /\ Finish(c, "notfound")
  /\ UNCHANGED <<hist, rev, seen, issued, view, adrift, restarts>>

StoreFindsOther(c) ==
  /\ stage[c] = "store"
  /\ req[c].verb = "create"
  /\ Latest(req[c].key).live
  /\ Finish(c, "exists")
  /\ UNCHANGED <<hist, rev, seen, issued, view, adrift, restarts>>

\* Mutation: a timeout is reported as a refusal.
StoreTimesOutRefused(c) ==
  /\ stage[c] = "store"
  /\ adrift' = adrift \cup {req[c]}
  /\ Finish(c, "refused")
  /\ UNCHANGED <<hist, rev, seen, issued, view, restarts>>

\* Mutation: a write that timed out is sent again.
StoreTimesOutRetried(c) ==
  /\ stage[c] = "store"
  /\ adrift' = adrift \cup {req[c]}
  /\ UNCHANGED <<hist, rev, seen, issued, answer, stage, req, view, restarts>>

\* The call to the host times out: the caller gets an error, and the host
\* may execute the write later.
StoreTimesOut(c) ==
  /\ stage[c] = "store"
  /\ adrift' = adrift \cup {req[c]}
  /\ Finish(c, "unknown")
  /\ UNCHANGED <<hist, rev, seen, issued, view, restarts>>

-------------------------------------------------------------------------------
(* The environment.                                                        *)

LateWrite(q) ==
  /\ Execute(q)
  /\ adrift' = adrift \ {q}
  /\ UNCHANGED <<seen, issued, answer, stage, req, view, restarts>>

\* The informer delivers a later state of k; states in between may be
\* skipped when the reflector lists.  The first list after a restart may
\* itself be old: it asks for any resourceVersion (0).
CacheAdvances(k) ==
  /\ \E n \in DOMAIN hist[k] : seen[k] < n /\ seen' = [seen EXCEPT ![k] = n]
  /\ UNCHANGED <<hist, rev, issued, answer, stage, req, view, adrift, restarts>>

\* The server dies and starts again, with an empty cache: calls in progress
\* get no answer, and those that had reached the host may still be executed.
Restart ==
  /\ restarts < MaxRestarts
  /\ restarts' = restarts + 1
  /\ answer' = [t \in DOMAIN answer |->
                  IF answer[t] = "pending" THEN "unknown" ELSE answer[t]]
  /\ adrift' = adrift \cup {req[c] : c \in {d \in Clients : stage[d] = "store"}}
  /\ stage' = [c \in Clients |-> "idle"]
  /\ req'   = [c \in Clients |-> Nothing]
  /\ seen'  = [k \in Keys |-> 1]
  /\ UNCHANGED <<hist, rev, issued, view>>

-------------------------------------------------------------------------------
Init ==
  /\ hist   = [k \in Keys |-> << Missing(0, 0) >>]
  /\ rev    = 0
  /\ seen   = [k \in Keys |-> 1]
  /\ issued = << >>
  /\ answer = << >>
  /\ stage  = [c \in Clients |-> "idle"]
  /\ req    = [c \in Clients |-> Nothing]
  /\ view   = [c \in Clients |-> Nothing]
  /\ adrift = {}
  /\ restarts = 0

\* What a call does once it is inside the storage.
Step(c) ==
  \/ DryRunPasses(c) \/ DryRunFails(c)
  \/ LookUp(c) \/ LookUpMisses(c) \/ UpdateInvalid(c)
  \/ StoreWrites(c) \/ StoreConflicts(c) \/ StoreFindsNothing(c)
  \/ StoreFindsOther(c) \/ StoreTimesOut(c)

Next ==
  \/ \E c \in Clients, ns \in Namespaces \cup {NoNamespace} :
        \/ Forbid(c, ns)
        \/ \E r \in Resources, name \in Names :
              \/ Get(c, r, ns, name)
              \/ \E verb \in Verbs \cap Uses, meta \in UserLabels :
                    Begin(c, verb, r, ns, name, meta)
  \/ \E c \in Clients : Step(c)
  \/ \E q \in adrift : LateWrite(q)
  \/ \E k \in Keys : CacheAdvances(k)
  \/ Restart

Spec == Init /\ [][Next]_vars

-------------------------------------------------------------------------------
(* Properties.                                                             *)

\* Every variable has its type; caches are positions in histories.
TypeOK ==
  /\ hist \in [Keys -> Seq(Versions)]
  /\ rev \in Nat
  /\ seen \in [Keys -> Nat] /\ \A k \in Keys : seen[k] \in DOMAIN hist[k]
  /\ issued \in Seq(Clients)
  /\ answer \in Seq(Answers)
  /\ Len(answer) = Len(issued) /\ Len(issued) <= MaxWrites
  /\ stage \in [Clients -> Stages]
  /\ req \in [Clients -> Requests \cup {Nothing}]
  /\ \A c \in Clients : stage[c] # "idle" => req[c] \in Requests
  /\ view \in [Clients -> [key : Keys, state : Versions] \cup {Nothing}]
  /\ adrift \subseteq Requests
  /\ restarts \in 0..MaxRestarts

Applied == {t \in Tokens : \E k \in Keys : \E i \in DOMAIN hist[k] : hist[k][i].by = t}

\* The storage does what ObjectStore promises.  A patch made from a cached
\* manifest builds on the object that is at the host when it is stored,
\* never on a stale one; a write takes effect once, even when it was given
\* up and landed late; no write takes effect after its failure was reported
\* and none is reported done that did not.
StoredObjects ==
  [k \in Keys |-> IF Latest(k).live THEN Latest(k).data ELSE Nothing]
Store == INSTANCE ObjectStore WITH
  Absent <- Nothing, obj <- StoredObjects, applied <- Applied
ImplementsStore == Store!Spec

\* The answer to a write agrees with the history of the host: done means
\* exactly one state is due to it, failed means none ever is, unknown or
\* pending at most one (rest.go: every error of the host is returned as such).
StatesBy(t) == {p \in Keys \X (1..rev + 1) :
                  p[2] \in DOMAIN hist[p[1]] /\ hist[p[1]][p[2]].by = t}
AnswersTruthful ==
  \A t \in DOMAIN answer :
    LET states == StatesBy(t) IN
    /\ answer[t] = "ok" => Cardinality(states) = 1
    /\ answer[t] \in {"forbidden", "refused", "exists", "notfound", "conflict"}
         => states = {}
    /\ Cardinality(states) <= 1

\* List without a user's selector returns all the objects of the resource in
\* the business cluster and namespace asked for, and no others, whatever
\* labels clients put on their objects, those of the storage included
\* (Create lines 144-149, Update 237-247, convertListOptionsToLabels).
ListExact ==
  \A r \in Resources, cl \in Clusters, ns \in Namespaces :
    List(r, cl, ns, Nothing, NoLabel) =
      {k \in Keys : /\ Latest(k).live
                    /\ k.plural = PluralOf[r] /\ k.cluster = cl /\ k.ns = ns}

\* An object that carries a label is found by List with that label as the
\* selector, after any number of updates of its labels.
SelectorComplete ==
  \A r \in Resources, k \in Keys, l \in UserKeys :
    LET m == Latest(k).meta IN
    /\ Latest(k).live
    /\ k.plural = PluralOf[r]
    /\ m[l] # NoLabel
    => k \in List(r, k.cluster, k.ns, l, m[l])

\* Every state of a manifest is due to a client of the business cluster and
\* namespace in the manifest's name (getUser).
WritesStayHome ==
  \A k \in Keys : \A i \in DOMAIN hist[k] :
    LET t == hist[k][i].by IN
    t # 0 => /\ ClusterOf[issued[t]] = k.cluster
             /\ AllowedNs[issued[t]] = k.ns

\* The inductive invariant of the proofs.  The resourceVersions of a manifest
\* increase, and a write in progress or adrift starts from a state the
\* manifest really had: with equal resourceVersions the two are the same
\* state.  A write not yet answered has not taken effect, and no two writes
\* under way have the same number.
RevisionsIncrease ==
  \A k \in Keys : \A i, j \in DOMAIN hist[k] :
    i < j => hist[k][i].rev < hist[k][j].rev
RevisionsKnown == \A k \in Keys : \A i \in DOMAIN hist[k] : hist[k][i].rev <= rev
AppliedIssued  == Applied \subseteq DOMAIN answer

FromPast(q) ==
  q.verb \in {"patch", "put"} => \E i \in DOMAIN hist[q.key] : hist[q.key][i] = q.base
BodyIsOwn(q) ==
  q.verb = "put" => Len(q.body) > 0 /\ q.body[Len(q.body)] = <<"put", q.token>>

\* A write whose caller has the answer a, and which has not taken effect.
Open(q, a) ==
  /\ q.token \in DOMAIN answer
  /\ answer[q.token] = a
  /\ q.token \notin Applied

CallsOwnTheirWrites ==
  \A c \in Clients : stage[c] # "idle" =>
    /\ Open(req[c], "pending")
    /\ issued[req[c].token] = c
    /\ BodyIsOwn(req[c])
    /\ stage[c] = "store" => FromPast(req[c])
    /\ stage[c] = "dryrun" => req[c].verb = "create"

AdriftOwnTheirWrites ==
  /\ \A q \in adrift : Open(q, "unknown") /\ BodyIsOwn(q) /\ FromPast(q)
  /\ \A p, q \in adrift : p.token = q.token => p = q

IInv ==
  /\ TypeOK
  /\ RevisionsIncrease /\ RevisionsKnown /\ AppliedIssued
  /\ CallsOwnTheirWrites /\ AdriftOwnTheirWrites

\* What a client may believe of rest.go and the code does not do.

\* Only objects that carry the label are selected by it ("in case labels get
\* changed", rest.go:232).
SelectorSound ==
  \A r \in Resources, cl \in Clusters, ns \in Namespaces,
     l \in UserKeys, v \in LabelValues :
    \A k \in List(r, cl, ns, l, v) : Latest(k).meta[l] = v

\* A put replaces the state its body was made from ("performs an atomic
\* update", rest.go:184).
PutReplacesWhatItRead ==
  [][\A c \in Clients :
       (req[c] # Nothing /\ req[c].verb = "put" /\ req[c].read # 0 /\ StoreWrites(c))
         => Latest(req[c].key).rev = req[c].read]_vars
===============================================================================
