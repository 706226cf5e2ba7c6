# Verification of external-crd

external-crd is an aggregated API server.  It serves users of *business
clusters* a copy of the APIs of a *host* cluster: for every
CustomResourceDefinition of the host there is a resource of the same plural in
the group `overlay`, and each object a user writes there is kept as one
`KubernetesCrd` manifest in a reserved namespace of the host.  This directory
holds TLA+ models of its core, TLC configurations that check them, and proofs
that TLAPS checks.

Contents: [the system](#the-system) ·
[modules](#modules) · [the overlay storage](#the-overlay-storage) ·
[the CRD registry](#the-crd-registry) · [DeleteCollection](#deletecollection) ·
[the watch](#the-watch) · [user names and tenants](#user-names-and-tenants) ·
[the process](#the-process) · [runs](#runs) · [fairness](#fairness) ·
[proofs](#proofs) · [findings](#findings) ·
[not modelled](#what-is-not-modelled)

## The system

| Component | Source | State it keeps | Operations | Modelled in |
|---|---|---|---|---|
| Overlay REST storage | `overlay/rest.go` | none of its own: manifests at the host, the informer's cache of them | Create, Get, Update, Delete, List | `OverlayREST`, abstractly `ObjectStore` |
| User and manifest names | `overlay/rest.go` 90-114, 531-561 | none | getClusterNamespace, getUser, getNormalizedManifestName | `UserNames`; joined with the storage in `Tenants` |
| DeleteCollection | `overlay/rest.go` 280-363 | two channels, a wait group | distributor, workers | `DeleteCollection` |
| Watch wrapper | `utils/watch.go`, `overlay/rest.go` 365-405 | result channel, mutex | Run, Stop, ResultChan | `WatchWrapper` |
| CRD handler | `overlay/customresource_handler.go` | storages, request scopes, routes | add, update, delete of a CRD; ServeHTTP | `CRDRegistry`, abstractly `Catalog` |
| Version discovery | same, 614-725 | entries of the discovery document | updateCRD, removeCRD | `CRDRegistry` |
| Group priority | `overlay/priority.go` | resourcePriorityMap | canBeAddedToStorage | `CRDRegistry` |
| API installation | `overlay/apiserver.go` | the root web service, the CRD informer factory | the installer hook: InstallOverlayAPIGroups, SetRootWebService | `Startup` |
| API resource normalisation | `utils/apiresource.go` | none | NormalizeAPIGroupResources | `ApiResources`, used by `Startup` |
| Server and options | `apiserver/server.go`, `options.go`, `cmd/main.go` | informer factories | Config, New, Run, the two post-start hooks | `Startup` (what the options say is left out) |
| Signals | `utils/signal.go` | a channel of two signals | GracefulStopWithContext | `Startup` |
| Generated informers and listers | `pkg/generated` | which informers were asked for and run; the caches | InformerFor, Start, WaitForCacheSync; Get | `Startup`; the lister's cache in `OverlayREST` |
| Typed clients | `pkg/generated/clientset` | none | calls to the host | by the host's answers |
| Kubeconfig, flags, versions; scripts | `utils/`, `manifests/` | - | - | not modelled, but for the user names `create-business.sh` makes |

(Paths are under `src/pkg`; `overlay` is `apiserver/overlay`.)

How the parts interact:

- A request is routed by the root web service to `crdHandler.ServeHTTP`, which
  reads the request scope and the REST storage of the plural under a read lock
  and hands both to a handler of `k8s.io/apiserver`; that calls the storage.
- The storage reads manifests from the informer's cache (Get without a resource
  version, and Update) or from the host (all else), and writes to the host only.
  Two clients meet in nothing but the host and the cache.
- One goroutine of the CRD informer calls add, update and delete of the CRD
  handler, one after another.  They change the discovery document under its own
  lock, then storages and scopes under the handler's lock, then the routes.
- DeleteCollection and Watch start goroutines within a request.
- Two post-start hooks run at the same time once the server serves.  One makes
  the overlay API server, waits for the CRDs, installs the APIs and attaches the
  CRD handlers; the other starts the informers the first one reads from.

What is hard in it: writes based on a cache that lags behind; calls to the host
that time out and are executed all the same; restarts that empty the cache;
labels that serve two masters, the client and the storage; a registry whose
four tables are changed one at a time while requests read them; two CRDs with
one plural; user names and manifest names that are joined strings and have to be
taken apart again; hooks and informers that start in no fixed order; and
channels of bounded capacity between goroutines.  Each such
hazard is listed with its line in `PROJECT.json`.

What makes the components correct, in a sentence each: a write takes effect at
most once, on the current object, and callers are told the truth about it; List
returns the objects of one resource, cluster and namespace, all of them and no
others; a request sees a scope and a storage of one and the same spec; when the
handler has caught up, what is served is what the CRDs say; DeleteCollection
returns, and success means that everything was deleted; a watch passes every
event once and in order, and ends; a user name leads to the cluster and
namespace it was made for, and two objects share a manifest in no case but that
of clusters with a dot in their names; and whatever the
order of its hooks, a started process feeds every lister, brings every CRD to
the handlers, and ends at the second signal.

## Modules

| Module | What it is |
|---|---|
| `ObjectStore` | the promise of the overlay storage, abstractly |
| `OverlayREST` | the overlay storage |
| `OverlayRESTTypes`, `OverlayRESTProofs` | type correctness; the invariant and the refinement of `ObjectStore` |
| `OverlayRESTTenancy` | who wrote what, labels and lists, what callers are told: four theorems |
| `MCOverlayREST` | instances for TLC: clients, labels, clusters |
| `UserNames` | user names and manifest names as strings |
| `Tenants`, `MCTenants` | the storage with the clients' real user names; an instance for TLC |
| `TenantsProofs` | that names can be read back, that accounts are kept apart, and when manifests are not |
| `CRDRegistry` | CRD handler, discovery, priorities and requests |
| `Catalog` | the promise of the registry to requests, abstractly |
| `CRDRegistryProofs`, `MCCRDRegistry` | its invariants and the refinement of `Catalog`; instances for TLC |
| `DeleteCollection`, `DeleteCollectionProofs` | one call of DeleteCollection |
| `WatchWrapper`, `WatchWrapperProofs` | one watch |
| `ApiResources` | which version of a resource is taken from a discovery document |
| `Startup`, `StartupProofs`, `MCStartup` | one life of the process; its invariants and what normalisation computes; an instance for TLC |

Operators marked *Mutation* in the modules are plausible bugs, each defined
before the operator it would replace; no specification uses them.  For every
property of a passing run one of them makes TLC find the property violated.

### The overlay storage

`hist[k]` is the history of manifest `k` at the host: every state it has had,
each with its resource version, its content, its labels and the write that left
it.  `seen[k]` is the position in that history which the informer's cache has
reached, so the cache is always some earlier state, and can skip states.  The
first list after a restart may be of any state, an old one too: the host answers
a reflector's list at resource version 0 from a cache of its own.

A call begins with the check of the user name (`Begin`, or `Forbid`) and is
then at one of the stages *dryrun* (Create), *lookup* (Update reads the cache)
and *store* (the call to the host); `Step` is the disjunction of what can
happen at each.  Between any two of its steps other calls, the cache and the
host move.  `StoreTimesOut` gives the caller an error and leaves the write
`adrift`: `LateWrite` executes it later, if the host still accepts it, or never.
`Restart` empties the cache and loses every call in progress.  A write the host
refuses for its resource version is not tried again: `rest.go` 251-254 returns
the error, and so does the handler of patches.

The content of an object is the sequence of edits it is made of: a create starts
it, a patch appends to what it read, and a put replaces it with what its client
read, edited.  So an edit that was lost is missing from the sequence, and an
edit made on a stale object gives a sequence other than the current one
extended.  Labels are functions from label keys to values; the keys of the
storage are four of the six the code uses: `group` and `version` are fixed for a
resource and no selector mentions them.  `PutBody` drops the resource version
the client read, as `trimResult` does; `read` remembers it for the property that
is about it.

`ObjectStore` knows nothing of manifests, caches or resource versions: a map
from keys to objects, the answers, and the set of writes that took effect.  The
refinement maps the object of a key to the content of the latest state of its
manifest.  A put is left loose there on purpose: the code promises only that it
replaces an object that exists, see the finding `stale_put`.

Properties: `ImplementsStore` (patches build on the current object, a write
takes effect at most once and never after its failure was reported),
`AnswersTruthful` (the same seen from the answers and the history),
`ListExact`, `SelectorComplete`, `WritesStayHome`, and the inductive invariant
`IInv`, among whose parts are that a write under way is in no history yet and has
a number of its own: a service that repeats a write after a timeout breaks it.

### The CRD registry

`host[d]` is a CRD at the host and `known[d]` what the informer has of it;
`notes` is the queue between informer and handler.  A spec is its storage
version, whether that version is served, and whether it has the `scale` and
`status` subresources.  The handler goroutine is a program counter:
*withdraw* (discovery), *remove* and *removeScope* (under the lock),
*removeRoutes*, then *gate* (may it be added?), *add*, *addScope* (under the
lock) and *addRoutes*.  An update runs through all of them, an add through the
second half, a delete through the first.  `gone` is the CRD it removes, `new`
the CRD it adds.

`storages[p]` and `scopes[p]` record from which CRD and version they were made.
Routes are records of method, kind of path and plural; `RemoveRoutes` removes by
prefix of the path as the code does (`PathStartsWith`).  The constant
`StartsWith` tells which plurals start with which, and `BeginNamespaces` with
which of them the word `namespaces` starts: the path of a cluster-scoped CRD of
such a plural (say `names`) is a prefix of `.../namespaces/{namespace}/...`, and
with it go the namespaced routes of all CRDs.  The lock is Go's `RWMutex`:
`WaitForLock` keeps new readers out, `Lock` waits for the old ones.  The two
maps are written in two steps and read in two steps, so what the lock is for can
be seen.

`Catalog` knows nothing of locks, notifications and tables: what is served under a
plural changes in one step, and a request that asks for a plural looks up scope
and storage in one step.  `ImplementsCatalog` says the registry does nothing that
this could not do.  The catalog is `scopes`, which the handler writes last; a
request is asking from its routing on, and has looked up when it lets go of the
lock.  So it says more than `ServedPair`: the pair is not only a match but what
was served at that moment, and it is of a CRD with the plural of the request that
is not external-crd's own.

Properties: `ServedPair`, `ServedAsDefined`, `ImplementsCatalog`,
`HandlerCatchesUp`, and the inductive invariant `IInv`.  `ServedAsDefined` excepts
what the code cannot keep: a CRD whose tables or routes go when another one is
removed (`Endangering`), and the route of the list over all namespaces, which
stays when its CRD is gone.

### DeleteCollection

One call: the distributor (goroutine 0), up to `WorkersWanted` workers, the
channel of items, the channel of errors and the wait group.  `gone` is the set
of items that were away from the host at some moment since they were listed: an
error of the host may or may not mean that the item was deleted.  Any goroutine
in `MayPanic` may panic, unless it waits for a channel; as in the code `wg.Done`
then runs before the crash handler sends its error and ends the process.  In
between the call may return success although an item is left: `SuccessOrCrash`.

### The watch

One watch: the events reported by the host (`sent`), how many `Run` has taken,
the event it is about to send (`pending`), the result channel, the mutex, and
the handler of the request that reads and then calls `Stop`.  Both cases of the
`select` are taken nondeterministically when both are ready.  `sent`, `taken` and
`received` are history variables; `Forget` drops from them an event that has
arrived, so that the host may go on reporting for ever while only `MaxEvents`
events are remembered at a time.

### User names and tenants

`UserNames` has strings as sequences of characters, since here it is the
characters that matter.  An account made by `create-business.sh` is called
prefix, random string, hyphen, cluster, hyphen, the same random string, hyphen,
namespace; random string and hyphen are the *delimiter*.  `getClusterNamespace`
takes the first characters after the prefix for the delimiter, finds its last
occurrence, and slices.  Each of its conditions is a predicate (`HasPrefix`,
`HasDelimiter`, `SingleDelimiter`, `TooClose`); `Panics` holds of the names for
which the code computes a slice that ends before it starts or beyond the
string.  Positions count from 1 in the model and from 0 in the code.

`Tenants` composes this with `OverlayREST`: the constants `ClusterOf` and
`AllowedNs` of the storage are what `getClusterNamespace` reads from the user
names of the clients, and keys have the manifest names the storage builds.  So
a name cut at the wrong place leads a client to another's cluster and shows in
the histories.  `TenantsAssumption` says what is assumed of names: plurals and
namespaces have no dot, which Kubernetes guarantees, and a namespace does not
contain its account's delimiter, which the code does not check and which fails
with the chance of a random string.  Clusters may have dots: nothing in
`rest.go` 531-561 or in `create-business.sh` refuses them.  Two objects may then
share a manifest name: object `m.x` in namespace `n` of a cluster `c`, and object
`x` in namespace `m` of a cluster `c.n`.  `ManifestNamesMeet` says when.
`KeysAssumption` says that the names of the keys an instance has are different:
`OverlayREST` keeps one history per key, so it does not speak of two objects in
one manifest.

Properties: `AccountsKeepApart`, and those of `OverlayREST` about labels and
lists.

### The process

`Startup` is one life of the process: `main` goes through options, server,
configuration, `New` and `Run`; `Run` gives birth to the two hooks, whose program
counters are `installer` and `starter`.  The starter's duties are a sequence, as
in the code: start four factories, wait for three, block until the stop.  A
factory remembers which informers it was asked for (`requested`), `Start` runs
those asked for by now, and only an informer that runs syncs.  So a lister asked
for after its factory was started would never be fed - unless somebody asked
before, as `New` does.

The installer reads a document of the core group from a set of documents and
normalises it with the operators of `ApiResources`, walking the map of versions
in any order of `Walks`.  Every walk visits all versions (`StartupAssumption`),
as a Go loop over a map does; `NormalizedBest` also says that every other walk
would have made the same list.  From what is installed for `namespaces` it
depends whether there is a root web service to attach the CRD handlers to.  CRDs
are created at any moment; the informer has them in its cache by the first list
or the watch, and a handler is told of all there is in the cache when it is
attached.  Boot, discovery (`DiscoveryFails`) and installation (`InstallFails`)
may fail at every step that returns an error.  A signal that is raised is
`pending` until the Go runtime delivers it; one equal to a pending signal is
merged with it and makes no step; `Deliver` drops what finds no room in the
channel.  `Drained` is the return of the generic server's `Run`.

Abstractions: the context is cancelled and the hooks' stop channel closed in one
step; removing routes in `SetRootWebService` does not fail, since dynamic
routes are switched on before; of the discovery document the core group is
kept, the only one with a storage; and documents that are no longer needed are
dropped from the state.

Properties: `NormalizedBest`, `ListersFed`, `CRDsComeToHandlers`,
`SecondSignalEnds`, and the inductive invariant `IInv`.

## Runs

| Run | Instance | What it shows |
|---|---|---|
| `rivals` | creates, patches and deletes of 2 clients, 1 object, 4 writes, 1 restart; symmetric in the clients; 694,974 states | `IInv`, `AnswersTruthful`, `ImplementsStore` |
| `tenants` | 2 clusters, one with a dot, 2 namespaces, 2 resources, names that contain each other's delimiters, labels that collide with the storage's; 2 writes; 7,995 states | `ListExact`, `SelectorComplete`, `WritesStayHome`, `AccountsKeepApart` |
| `calls` | every kind of call, of 2 clients on 1 object, 3 writes; 238,361 states | `ImplementsStore` |
| `registry` | a namespaced CRD and one of external-crd's own group, 3 specs, 2 edits, 1 request; 788,544 states | `IInv`, `ServedPair`, `ServedAsDefined`, `ImplementsCatalog`, `HandlerCatchesUp` |
| `delete_collection` | up to 7 items, 2 workers, distributor and one worker may panic; 218,234 states | `IInv`, `ErrorsHaveRoom`, `SuccessMeansAll`, `AbandonedForGood`, `CallReturns`, `SuccessOrCrash` |
| `watch` | events of 2 kinds without end, 4 remembered, channel of 2; 6,650 states | `TypeOK`, `EventsInOrder`, `StuckForGood`, `RunReturnsWhenDone` |
| `startup` | 1 CRD, 3 versions, 2 resources, 3 documents, all 6 walks, 3 signals of 2 kinds; 51,030 states | `IInv`, `NormalizedBest`, `ListersFed`, `CRDsComeToHandlers`, `SecondSignalEnds` |
| `stale_label`, `stale_put`, `registry_priority`, `registry_prefix`, `watch_stop` | small | violations, see [findings](#findings) |

Why the bounds are enough for the interesting cases to happen:

- `rivals`: four writes suffice for create, patch, a second patch from the stale
  state, and a late delete and re-creation; two clients suffice because a call
  interacts with others only through the history of one key, and a third client
  would do nothing that a timed-out write of the first two does not.  One
  restart suffices: a second starts from states of the same kind.
- `tenants`: the cluster of one client contains its own delimiter, so that a name
  cut at the wrong one leads to the other's cluster; the name of the object
  contains the dot of manifest names; and one of the labels the clients use names
  the other's cluster and kind.  Two writes are a create and an update that
  changes the labels, or a create by each client.
- `calls`: it has the gets and puts that `rivals` leaves out, with a write less:
  a create, a foreign write, and a put of what was read before it.
- `registry`: the host starts with any CRDs, so two edits cover create, change,
  deletion in two steps, and changes back to back.  `Relists = FALSE` has the
  informer deliver every change; with `TRUE` a deletion and re-creation can
  reach the handler as an update of equal specs, which it ignores, see the
  hazards.
- `delete_collection`: seven items are one more than the channel of items (four)
  and the workers (two) hold, so the distributor blocks and may be left
  blocked; two workers are the code's number.
- `startup`: one CRD suffices, as CRDs pass through the informer one by one; it is
  there from the start or created at any later moment.  Three signals are one
  more than the channel holds, and of two kinds, as many as can be pending.  The
  preferred version is not the highest; the three documents have the namespaces
  in it, in the others only, and nowhere, and names are listed out of order.
- `watch`: four remembered events fill a channel of two and leave `Run` with one in
  hand and one more to take.
- `registry_prefix`: three CRDs, so that either of the two ways in which routes go
  with another's can happen: `foos` with `foosets`, and the cluster-scoped `names`.

Deadlock is not checked: counters of writes, edits and events are bounded, a
call of DeleteCollection ends, a watch ends, and so does a process.

## Fairness

- `HandlerCatchesUp`: weak fairness of the handler goroutine, of each request
  that is being served, and of the informer's delivery.  Nothing is assumed of
  clients, who may send requests for ever.
- `CallReturns`, `SuccessOrCrash`: weak fairness of every goroutine; a call to the
  host ends.
- `ListersFed`, `CRDsComeToHandlers`, `SecondSignalEnds`: weak fairness of
  `main`, of each hook, of the goroutine that receives signals, of the delivery
  of pending signals, and of lists, watches and notifications of the informers.
  Nothing is assumed of signals, and a server that stops need never drain; that
  is what the second signal is for.
- `RunReturnsWhenDone`, `StopReturns`: weak fairness of `Run` and of `Stop`, and of
  the handler leaving once its context is done; the handler is not obliged to
  read, nor the host to fall silent.  Strong fairness of `RunReturns`: Go's
  `select` chooses at random among the cases that are ready, so it does not pass
  over a done context for ever while events keep coming.

`OverlayREST` has no liveness property: whether its calls end is a matter of the
host and of the request's timeout, and no loop of the code is in the way.

## Proofs

All proofs are checked by TLAPS for every value of the constants, from the
assumptions named in the modules (types and disjointness of the constants; TLC
evaluates them on every run).

- `OverlayRESTTypes`: `TypeCorrect`, `Spec => []TypeOK`.
- `OverlayRESTProofs`: `Invariant`, `Spec => []IInv`.  `TypeOK` does not suffice for
  the refinement: that a patch accepted by the host builds on the current
  object follows from the equality of two resource versions only if resource
  versions never repeat in a history (`RevisionsIncrease`, and
  `RevisionsKnown`, which bounds them by the host's last one) and if what the
  patch started from is a state the manifest has had (`FromPast`).  That a write
  takes effect once needs that a write under way has not taken effect and that
  no other write has its number (`CallsOwnTheirWrites`,
  `AdriftOwnTheirWrites`); that new writes are new needs `AppliedIssued`.
- `OverlayRESTProofs`: `Refinement`, `Spec => ImplementsStore`.  Initial states
  map to initial states, and each action to an action of `ObjectStore` or to no
  change: `StoreWrites` to `Succeed`, `LateWrite` to `Land`, `StoreTimesOut` and
  `Restart` to `Lose`, the failing steps to `Fail`, `Begin` and `Forbid` to
  `Call`.
- `OverlayRESTTenancy`: `StaysHome`, `Truthful`, `SelectorsComplete` and
  `ListsExact`, the theorems of `WritesStayHome`, `AnswersTruthful`,
  `SelectorComplete` and `ListExact`.  None is inductive: what is in a history
  came from a request, perhaps one that was adrift for long.  `TInv` follows
  states back to their requests: every request under way is of its client's
  cluster and namespace (`RequestsFit`), a live state has the labels of a
  resource of its plural (`Labelled`), a write leaves one state of one manifest
  (`OneStateEach`), and an answer agrees with the writes applied (`AnswersFit`).
  It is proved on top of the `IInv` of `OverlayRESTProofs`.  `ListsExact`
  assumes that two resources have one kind just when they have one plural, for
  List selects by kind; `SelectorsComplete` that resources of one plural have
  one kind.
- `TenantsProofs`: `AccountRead`, that a user name of the convention is accepted,
  panics nowhere and gives back cluster and namespace.  Its hypotheses
  (`GoodAccount`) are that the random string has its length and no hyphen, and
  that the namespace does not contain the delimiter; the cluster may.  The
  delimiter ends in the only hyphen it has, so an occurrence that begins inside
  the last delimiter would have a hyphen where the random string has none, and
  one that begins behind it would lie in the namespace.  `ManifestNamesDiffer`:
  names of manifests of one cluster are equal only if their other parts are;
  cluster and name of the object may have dots.  `ManifestNamesMeet`: two
  different objects have one manifest name only if their plurals are equal and
  one cluster is the other followed by a dot, the other's namespace and perhaps
  more (`Covers`).  Plurals have no dot, so they end at the first one; of two
  different clusters that begin the same string one is longer, and holds what
  the other has for its namespace.
- `TenantsProofs`: `AccountsApart`, the theorem of `AccountsKeepApart`.
  `ReadAssumption` says that the storage's `ClusterOf` and `AllowedNs` are what
  `getClusterNamespace` reads from the clients' user names; by `AccountRead`
  that is what the accounts were made for (`ReadsRight`), and by `TInv` of
  `OverlayRESTTenancy` every state in a history is due to a client of the
  manifest's cluster and namespace.  So the argument goes from the characters of
  a name to the history of the host.
- `CRDRegistryProofs`: `Invariant` and `ServedByPair`.  `ServedPair` is
  about a request after it has let go of the lock; inductive is that the two
  tables agree except between the two writes (`TablesAgree`), when the handler
  holds the lock and nobody reads (`LockHeld`), and that what a reader has read
  under the lock is still in the tables (`ReadersRead`).
- `CRDRegistryProofs`: `DefinedIsServed`, `ServedAsDefined` when the informer
  tells of every state (`~Relists`).  `ServedAsDefined` speaks of the moment the
  handler has caught up; inductive (`DInv`) is what holds before.  For a CRD
  whose tables and routes no other CRD takes along when it goes (`Endangering`
  is empty), the notifications in the queue are a chain of its states (`Linked`)
  which starts from some state (`From`) and ends in the one the informer knows.
  If the handler is not at work on it, the tables are right for the state the
  chain starts from; if it is, they are as far as its program counter says
  (`Job`).  That the update handler skips a CRD with an unchanged spec is right
  only because no notification brings a terminating CRD back to life, which in
  turn needs that the informer is at most one change behind the host
  (`OneEdit`): the place where a missed state would break the argument.
- `CRDRegistryProofs`: `CatalogRefined`, `Spec => ImplementsCatalog`, step by
  step: `RemoveScope` is `Withdraw`, `AddScope` is `Offer`, routing is `Ask`,
  `RUnlock` is `LookUp`, and all other steps change nothing in the catalog.
  That `RUnlock` finds what the catalog has needs `ReadersRead` and
  `TablesAgree`; the rest needs that the handler never adds a reserved CRD
  (`OthersOnly`) and that a request keeps its plural (`PluralKept`).
- `DeleteCollectionProofs`: `Invariant` and `NobodyBlocks`.  The inductive fact
  (`RoomForAll`) counts: errors already sent and goroutines that can still send
  one are together never more than the channel's capacity.
- `DeleteCollectionProofs`: `SuccessIsTrue`, `SuccessMeansAll`.  Success is returned
  when the wait group is at zero and no error was sent.  Then the distributor has
  closed the channel, so every item was put into it (`ClosedAtEnd`); all
  workers are done (`WorkersWaitedFor`); and an item is in the channel, in
  the hands of a worker, away from the host, or in an error (`NoneLost`).
- `DeleteCollectionProofs`: `LeftBehind`, `AbandonedForGood`.  When every worker has
  left with an error, a distributor that waits for room in the channel waits for
  ever: only a worker takes items out, and none receives again.
- `WatchWrapperProofs`: `InOrder` and `TypeCorrect`.  The two together are
  inductive.
- `WatchWrapperProofs`: `StuckStays` and `StopNeverReturns`.  They say for every
  size of the channel what the run `watch_stop` shows for one: once `Run` is
  blocked and the handler is in `Stop`, no step is possible that takes either
  out of it.
- `StartupProofs`: `StartupInvariant`.  The invariant is inductive as it stands;
  that signals are kept counts those pending, in the channel and caught
  (`PendingCounted`).
- `StartupProofs`: `ResourcesNormalized`, the theorem of `NormalizedBest`.  What the
  installer holds was made by `NormalizeAPIGroupResources` from a document of the
  core group along some walk (`Normalized`); the rest is about that function, for
  any document and any walk that visits all versions:
  - collecting takes every entry, however versions and lists lie in sequence
    (`FlattenRange`, `CollectsAll`);
  - the comparison is a strict total order (`OneOrder`), so the places a stable
    sort gives are all different and fill the list (`Places`, `SortedRight`);
  - picking takes the first entry of each name, each once and in order
    (`PickRight`, `FirstExists`), and the first is of the version that should
    be taken (`FirstIsBest`).

  `NormalizedRight` puts them together.  `OrderForgotten`: two walks give one list,
  for both lists have the same entries, each once, in a strict order, and such
  lists are equal place by place (`SameAt`, `SameList`).

The library's induction theorems have an operator as a parameter and cannot be
used.  Where an argument needs induction over numbers (a flattened sequence, the
first entry of a name, two lists that agree) `StartupProofs` derives it from the
least counterexample: `NatMin`, by the well-foundedness of `<` on `Nat`, and
`Induction`, about a set in place of a predicate.

Every invariant and every safety property of the passing runs is the property of
a theorem.  Only model-checked are the liveness properties (`HandlerCatchesUp`,
`CallReturns`, `SuccessOrCrash`, `RunReturnsWhenDone`, `ListersFed`,
`CRDsComeToHandlers`, `SecondSignalEnds`), since the provers handle neither
fairness nor `ENABLED`.

## Findings

1. *Labels never go away* (`stale_label`): an update adds the new object's labels
   to the manifest's and removes none, so a removed label still selects.
2. *A put loses updates* (`stale_put`): the resource version in its body is
   dropped, and the one of the cached manifest used instead.
3. *The wrong CRD is served* (`registry_priority`): removing a CRD removes what is
   under its plural, whoever put it there; a CRD turned away is not tried
   again, and a priority on record is never taken back.
4. *Routes of others are removed* (`registry_prefix`): by a string prefix of the
   path, which takes those of plurals that start with the removed one, and all
   namespaced ones if a cluster-scoped CRD called `names` is removed.
5. *Stop can block for ever* (`watch_stop`): on the mutex that `Run` holds while it
   sends to a channel nobody reads any more.

Observed while reading, without a run: the discovery entries announce
`deletecollection`, whose route is made for PATCH (`customresource_handler.go`
469), and the entries of `scale` have no routes at all; `rest_test.go` 44 expects
the manifest name `foos.kube-system.abc`, the code makes
`foos.abcd.kube-system.abc`; a namespace that contains its account's delimiter
is cut at the wrong place by `getClusterNamespace`; and objects of a cluster with
a dot in its name can share a manifest with another cluster's.

## What is not modelled

- Preconditions of deletes, finalizers on manifests, a client's own dry run,
  and patches that change an object's name or namespace: objects have no name of
  their own in `OverlayREST`.
- Two objects that share one manifest, which clusters with dots make possible:
  `ManifestNamesMeet` says when, `OverlayREST` and `Tenants` assume it away.
- A plural that passes from one CRD to another while objects of it exist:
  `CRDRegistry` and `OverlayREST` are not composed.  What the storage does for two
  resources that share plural or kind is in the hypotheses of `ListsExact`.
- Which of the values of options and flags are valid, certificates,
  kubeconfig, authentication, admission, conversion and negotiation: input, or
  libraries.
- The data race of `SetDynamicRoutes` inside go-restful, and what its
  `RemoveRoute` does with equal routes; routes are a set here.
- Discovery entries other than those of CRDs: they never change after the start.
- Panics other than those DeleteCollection guards against and those of
  `getClusterNamespace`.
- The typed clients, registration and deep copies: generated code that keeps
  no state.  The envoy configuration and scripts under `manifests`.
