------------------------------- MODULE Startup -------------------------------
(***************************************************************************)
(* One life of the server process, from its flags to its end:              *)
(*   main (cmd/main.go, pkg/apiserver/server.go, options.go) loads the     *)
(*     configuration, builds the server and registers two post-start hooks;*)
(*   the installer hook (options.go, overlay/apiserver.go) makes the       *)
(*     overlay API server, waits for the CRDs, reads the host's discovery  *)
(*     document, installs the APIs and attaches the CRD handlers;          *)
(*   the starter hook (server.go) starts the shared informer factories     *)
(*     (pkg/generated/informers) and waits for their caches;               *)
(*   the informers list and watch the host;                                *)
(*   a goroutine catches signals (pkg/utils/signal.go).                    *)
(* Both hooks run at the same time.                                        *)
(***************************************************************************)
EXTENDS ApiResources

CONSTANTS
  CRDs,          \* CustomResourceDefinitions of the host
  NoDocument,    \* the discovery document has not been read, or is dropped
  CoreDocuments, \* discovery documents of the core group
  Walks,         \* orders in which a map of versions may be walked
  MaxSignals     \* bound: signals raised, merged ones not counted

ASSUME StartupAssumption ==
  /\ MaxSignals \in Nat
  /\ NoDocument \notin Documents
  /\ CoreDocuments \subseteq Documents
  /\ Walks \subseteq Seq(GroupVersions)
  /\ \A walk \in Walks : Range(walk) = GroupVersions
  /\ "namespaces" \in ResourceNames

\* The informers the server reads from, and the factory each belongs to.
Informers == {"KubernetesCrd", "APIService", "CRD"}
Factory   == [KubernetesCrd |-> "kcrd", APIService |-> "aggregator", CRD |-> "crd"]

\* What the starter hook does with the shared factories, in this order.
StarterDuties == <<
  <<"start", "kube">>, <<"start", "kcrd">>, <<"start", "aggregator">>,
  <<"start", "generic">>,
  <<"wait", "kube">>, <<"wait", "kcrd">>, <<"wait", "aggregator">>, <<"block", "">> >>
StarterDone == Len(StarterDuties) + 1

\* The signals that are asked for.
Signals == {"SIGTERM", "SIGINT"}
\* The capacity of gracefulStopCh.
SignalRoomOne == 1  \* Mutation: only one signal is kept.
SignalRoom == 2

MainPhases == {"options", "server", "config", "new", "hook", "serving"}
Phases     == {"unborn", "create", "start", "sync", "discover", "install", "attach", "done"}
Fates      == {"running", "failed", "killed", "exited"}

VARIABLES
  fate,       \* the process
  main,       \* what the main goroutine does next
  installer,  \* what the installer hook does next
  starter,    \* the starter hook's next duty (0: not running yet)
  requested,  \* informers asked of their factory
  started,    \* informers that run
  synced,     \* informers that have their first list
  document,   \* discovery document the installer works on
  resources,  \* the core group's resources, normalised
  namespaces, \* versions of the REST storage installed for namespaces
  attached,   \* are the CRD handlers registered with the informer?
  crds,       \* CRDs at the host
  known,      \* CRDs in the informer's cache
  handled,    \* CRDs the handlers were told of
  sent,       \* signals raised for the process, merged ones not counted
  pending,    \* those of them that are not delivered yet
  queued,     \* signals in gracefulStopCh
  caught      \* signals received from it

mainVars     == <<fate, main>>
hookVars     == <<installer, starter>>
informerVars == <<requested, started, synced>>
apiVars      == <<document, resources, namespaces, attached>>
crdVars      == <<crds, known, handled>>
signalVars   == <<sent, pending, queued, caught>>
vars == <<mainVars, hookVars, informerVars, apiVars, crdVars, signalVars>>

Running  == fate = "running"
\* The context is cancelled: StopCh of the hooks is closed.
Stopping == caught > 0

-------------------------------------------------------------------------------
(* Informer factories.                                                     *)

\* InformerFor: a factory is asked for informers; it keeps one of each type.
InformerFor(wanted) == requested' = requested \cup wanted

\* Start runs the informers the factory has been asked for by now.
Start(f) == started' = started \cup {i \in requested : Factory[i] = f}

\* WaitForCacheSync looks at the informers that run, and gives up at a stop.
CacheSynced(f) ==
  Stopping \/ \A i \in started : Factory[i] = f => i \in synced

-------------------------------------------------------------------------------
(* main.                                                                   *)

Proceed(from, to) ==
  /\ Running
  /\ main = from
  /\ main' = to
  /\ UNCHANGED <<fate, started, synced, apiVars, crdVars, signalVars>>

CompleteOptions ==
  Proceed("options", "server") /\ UNCHANGED <<hookVars, requested>>
NewOverlayServer ==
  Proceed("server", "config") /\ UNCHANGED <<hookVars, requested>>
Config ==
  Proceed("config", "new") /\ UNCHANGED <<hookVars, requested>>

\* Mutation: the informers of the shared factories are not asked for here.
NewUnregistered == Proceed("new", "hook") /\ UNCHANGED <<hookVars, requested>>

\* New asks for the informers of the shared factories before the hooks run.
New ==
  /\ Proceed("new", "hook")
  /\ InformerFor({"KubernetesCrd", "APIService"})
  /\ UNCHANGED hookVars

\* Run registers its hook and serves; the generic server runs both hooks.
Run ==
  /\ Proceed("hook", "serving")
  /\ installer' = "create"
  /\ starter' = 1
  /\ UNCHANGED requested

\* Any of this may fail, at the latest when the port is taken.
BootFails ==
  /\ Running
  /\ main # "serving"
  /\ fate' = "failed"
  /\ UNCHANGED <<main, hookVars, informerVars, apiVars, crdVars, signalVars>>

-------------------------------------------------------------------------------
(* The installer hook.                                                     *)

Install(from, to) ==
  /\ Running
  /\ installer = from
  /\ installer' = to
  /\ UNCHANGED <<fate, main, starter, synced, crdVars, signalVars>>

NewOverlayAPIServer ==
  /\ Install("create", "start")
  /\ InformerFor(Informers)
  /\ UNCHANGED <<started, apiVars>>

\* Mutation: the factory of the CRDs is started before it is asked for any.
StartCRDFactoryEmpty ==
  /\ Install("start", "sync")
  /\ UNCHANGED <<requested, started, apiVars>>

StartCRDFactory ==
  /\ Install("start", "sync")
  /\ Start("crd")
  /\ UNCHANGED <<requested, apiVars>>

\* Mutation: the CRDs are not waited for.
CRDsUnsynced == Install("sync", "discover") /\ UNCHANGED <<requested, started, apiVars>>

CRDsSynced ==
  /\ Install("sync", "discover")
  /\ "CRD" \in synced \/ Stopping
  /\ UNCHANGED <<requested, started, apiVars>>

Discover(doc, walk) ==
  /\ Install("discover", "install")
  /\ document' = doc
  /\ resources' = NormalizeAPIGroupResources(doc, walk)
  /\ UNCHANGED <<requested, started, namespaces, attached>>

\* The host gives no document: the hook returns the error, which is fatal.
DiscoveryFails ==
  /\ Running
  /\ installer = "discover"
  /\ fate' = "failed"
  /\ UNCHANGED <<main, hookVars, informerVars, apiVars, crdVars, signalVars>>

\* The storage of namespaces cannot be installed: this error, too, is returned.
InstallFails ==
  /\ Running
  /\ installer = "install"
  /\ \E n \in DOMAIN resources : resources[n].name = "namespaces"
  /\ fate' = "failed"
  /\ UNCHANGED <<main, hookVars, informerVars, apiVars, crdVars, signalVars>>

\* With a storage for namespaces the API gets a root web service, which the
\* CRD handlers need; without, it is skipped and the hook ends all the same.
InstallOverlayAPIGroups ==
  LET found == {n \in DOMAIN resources : resources[n].name = "namespaces"} IN
  /\ Install("install", IF found = {} THEN "done" ELSE "attach")
  /\ namespaces' = {resources[n].version : n \in found}
  /\ document' = NoDocument
  /\ resources' = << >>
  /\ UNCHANGED <<requested, started, attached>>

SetRootWebService ==
  /\ Install("attach", "done")
  /\ attached' = TRUE
  /\ UNCHANGED <<requested, started, document, resources, namespaces>>

-------------------------------------------------------------------------------
(* The starter hook.                                                       *)

Duty(d) ==
  /\ Running
  /\ starter \in DOMAIN StarterDuties
  /\ StarterDuties[starter] = d
  /\ starter' = starter + 1
  /\ UNCHANGED <<mainVars, installer, requested, synced, apiVars, crdVars, signalVars>>

StartFactory(f) == Duty(<<"start", f>>) /\ Start(f)
AwaitFactory(f) == Duty(<<"wait", f>>) /\ CacheSynced(f) /\ UNCHANGED started
BlockUntilStop  == Duty(<<"block", "">>) /\ Stopping /\ UNCHANGED started

-------------------------------------------------------------------------------
(* The informers and the host.                                             *)

Inform ==
  /\ Running
  /\ UNCHANGED <<mainVars, hookVars, requested, started, apiVars, signalVars>>

\* The first list of an informer that runs.
Sync(i) ==
  /\ Inform
  /\ i \in started \ synced
  /\ ~Stopping
  /\ synced' = synced \cup {i}
  /\ known' = IF i = "CRD" THEN crds ELSE known
  /\ UNCHANGED <<crds, handled>>

CreateCRD(d) ==
  /\ Inform
  /\ crds' = crds \cup {d}
  /\ UNCHANGED <<synced, known, handled>>

WatchCRD(d) ==
  /\ Inform
  /\ "CRD" \in synced
  /\ ~Stopping
  /\ d \in crds \ known
  /\ known' = known \cup {d}
  /\ UNCHANGED <<synced, crds, handled>>

\* A handler that is attached is told of all there is in the cache.
NotifyHandler(d) ==
  /\ Inform
  /\ attached
  /\ d \in known \ handled
  /\ handled' = handled \cup {d}
  /\ UNCHANGED <<synced, crds, known>>

-------------------------------------------------------------------------------
(* Signals and the end.                                                    *)

\* A signal is raised.  One that equals a signal still pending is merged with
\* it by the system, and nobody can tell: that is no step.
Signal(s) ==
  /\ Running
  /\ sent < MaxSignals
  /\ s \notin pending
  /\ sent' = sent + 1
  /\ pending' = pending \cup {s}
  /\ UNCHANGED <<mainVars, hookVars, informerVars, apiVars, crdVars, queued, caught>>

\* A pending signal is put into the channel, or lost when there is no room.
Deliver(s) ==
  /\ Running
  /\ s \in pending
  /\ pending' = pending \ {s}
  /\ queued' = IF queued < SignalRoom THEN queued + 1 ELSE queued
  /\ UNCHANGED <<mainVars, hookVars, informerVars, apiVars, crdVars, sent, caught>>

\* The first signal cancels the context, the second ends the process.
CatchSignal ==
  /\ Running
  /\ queued > 0
  /\ queued' = queued - 1
  /\ caught' = caught + 1
  /\ fate' = IF caught = 0 THEN fate ELSE "killed"
  /\ UNCHANGED <<main, hookVars, informerVars, apiVars, crdVars, sent, pending>>

\* The generic server has drained its requests and returns from Run.
Drained ==
  /\ Running
  /\ main = "serving"
  /\ Stopping
  /\ fate' = "exited"
  /\ UNCHANGED <<main, hookVars, informerVars, apiVars, crdVars, signalVars>>

-------------------------------------------------------------------------------
Init ==
  /\ fate = "running" /\ main = "options"
  /\ installer = "unborn" /\ starter = 0
  /\ requested = {} /\ started = {} /\ synced = {}
  /\ document = NoDocument /\ resources = << >> /\ namespaces = {}
  /\ attached = FALSE
  /\ crds \in SUBSET CRDs /\ known = {} /\ handled = {}
  /\ sent = 0 /\ pending = {} /\ queued = 0 /\ caught = 0

Boot == CompleteOptions \/ NewOverlayServer \/ Config \/ New \/ Run \/ BootFails

Installer ==
  \/ NewOverlayAPIServer \/ StartCRDFactory \/ CRDsSynced
  \/ \E doc \in CoreDocuments, walk \in Walks : Discover(doc, walk)
  \/ DiscoveryFails \/ InstallFails
  \/ InstallOverlayAPIGroups \/ SetRootWebService

Starter ==
  \/ \E f \in {"kube", "kcrd", "aggregator", "generic"} : StartFactory(f) \/ AwaitFactory(f)
  \/ BlockUntilStop

Next ==
  \/ Boot \/ Installer \/ Starter
  \/ \E i \in Informers : Sync(i)
  \/ \E d \in CRDs : CreateCRD(d) \/ WatchCRD(d) \/ NotifyHandler(d)
  \/ \E s \in Signals : Signal(s) \/ Deliver(s)
  \/ CatchSignal \/ Drained

Spec == Init /\ [][Next]_vars

\* Goroutines go on, the host answers lists, watches and discovery, and a
\* pending signal is delivered.  Nothing is assumed of signals being raised,
\* nor that requests ever drain.
FairSpec ==
  /\ Spec
  /\ WF_vars(Boot) /\ WF_vars(Installer) /\ WF_vars(Starter) /\ WF_vars(CatchSignal)
  /\ \A s \in Signals : WF_vars(Deliver(s))
  /\ \A i \in Informers : WF_vars(Sync(i))
  /\ \A d \in CRDs : WF_vars(WatchCRD(d)) /\ WF_vars(NotifyHandler(d))
-------------------------------------------------------------------------------
(* Properties.                                                             *)

\* Types.  Documents and resources are data the hook only hands on.
TypeOK ==
  /\ fate \in Fates /\ main \in MainPhases
  /\ installer \in Phases /\ starter \in 0..StarterDone
  /\ requested \subseteq Informers /\ started \subseteq Informers
  /\ synced \subseteq Informers
  /\ attached \in BOOLEAN
  /\ crds \subseteq CRDs /\ known \subseteq CRDs /\ handled \subseteq CRDs
  /\ sent \in Nat /\ pending \subseteq Signals /\ queued \in Nat /\ caught \in Nat

\* An informer that has synced runs, and one that runs was asked for.
InformersNest == synced \subseteq started /\ started \subseteq requested

\* Signals are lost only when there is no room for them, which is never the
\* case of the first two: they are pending, in the channel or were caught.
Kept == Cardinality(pending) + queued + caught
SignalsKept ==
  /\ Kept <= sent
  /\ sent <= SignalRoom => Kept = sent
  /\ sent > SignalRoom => Kept >= SignalRoom

\* "Wait for all CRDs to sync before installing overlay api resources"
\* (apiserver.go:136): while the process is not being stopped, nothing is
\* discovered, installed or attached before the informer of the CRDs has its
\* first list.
WaitsForCRDs ==
  (installer \in {"discover", "install", "attach", "done"} /\ caught = 0)
    => "CRD" \in synced

\* The handlers are attached to a web service that exists, one that was
\* installed with a storage for namespaces, by a hook that runs only while the
\* server serves.
HandlersHaveService ==
  /\ installer = "attach" => namespaces # {}
  /\ attached => namespaces # {} /\ installer = "done"
  /\ installer # "unborn" => main = "serving"

IInv == TypeOK /\ InformersNest /\ SignalsKept /\ WaitsForCRDs /\ HandlersHaveService

\* Each resource is listed once, under the preferred version that has it or
\* else the highest, and in whatever order the document's versions had been
\* walked, the list would be the same ("Ensure deterministic output",
\* apiresource.go:39).
NormalizedBest ==
  installer = "install" =>
    /\ \A n \in DOMAIN resources :
         IsBest(document, resources[n].version, resources[n].name)
    /\ \A n, m \in DOMAIN resources : resources[n].name = resources[m].name => n = m
    /\ \A name \in ResourceNames :
         (\E v \in GroupVersions : Lists(document, v, name))
           => \E n \in DOMAIN resources : resources[n].name = name
    /\ \A walk \in Walks : resources = NormalizeAPIGroupResources(document, walk)

Over == ~Running \/ Stopping

\* Every informer a lister of the server reads from is started and gets its
\* list, whichever hook comes first: the starter hook may be done with
\* starting the factories before the installer asks them for their listers
\* (options.go:274).
ListersFed == \A i \in Informers : <>(i \in synced \/ Over)

\* Every CRD of the host comes to the handlers, whether it was created before
\* the first list, before the handlers were attached or later, unless the
\* document had no namespaces (apiserver.go:217: a warning, and no handlers).
CRDsComeToHandlers ==
  \A d \in CRDs :
    d \in crds ~> (d \in handled \/ Over \/ (installer = "done" /\ namespaces = {}))

\* "If a second signal is caught, then the program is terminated"
\* (signal.go:33): two signals end the process, whatever its hooks and requests
\* are doing, and be the second raised before the first is delivered, when it
\* is a different one; an equal one is then no second signal (see Signal).
SecondSignalEnds == sent >= 2 ~> ~Running
===============================================================================
