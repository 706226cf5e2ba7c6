----------------------------- MODULE CRDRegistry -----------------------------
(***************************************************************************)
(* The registry of overlay APIs (pkg/apiserver/overlay/                    *)
(* customresource_handler.go and priority.go).                             *)
(*                                                                         *)
(* An informer tells one handler goroutine of the CustomResourceDefinitions*)
(* of the host.  For each it keeps an entry in the discovery document, a   *)
(* REST storage and a request scope under the plural name, and the routes  *)
(* of the web service.  Requests are served meanwhile: they are routed,    *)
(* then read scope and storage under the read lock.                        *)
(***************************************************************************)
EXTENDS Naturals, Sequences, FiniteSets

CONSTANTS
  CRDs,         \* CustomResourceDefinitions, by name
  Plurals,
  PluralOf,     \* PluralOf[d]: plural name of the resource d defines
  Namespaced,   \* those of scope Namespaced
  Reserved,     \* those of a group of external-crd itself (kcrdGroupSuffix)
  PriorityOf,   \* PriorityOf[d]: GroupPriorityMinimum of d's APIService
  StartsWith,   \* the pairs <<q, p>> of plurals such that q starts with p
  BeginNamespaces, \* the plurals that the word "namespaces" starts with
  Specs,        \* the specs a CRD may have
  Callers,      \* requests served at the same time
  Nothing,
  Listed,       \* the CRDs whose APIService the lister knows at the start
  Relists,      \* bound: may the informer miss states of a CRD?
  MaxEdits      \* bound: changes at the host

\* Of a spec: the storage version, whether that version is served and has
\* the subresources.
AllSpecs == [version : STRING, served : BOOLEAN, scale : BOOLEAN, status : BOOLEAN]

ASSUME NamesAssumption ==
  /\ PluralOf \in [CRDs -> Plurals]
  /\ PriorityOf \in [CRDs -> Nat]
  /\ Namespaced \subseteq CRDs /\ Reserved \subseteq CRDs
  /\ Listed \subseteq CRDs
  /\ StartsWith \subseteq Plurals \X Plurals
  /\ \A p \in Plurals : <<p, p>> \in StartsWith
  /\ BeginNamespaces \subseteq Plurals
  /\ Nothing \notin Plurals
ASSUME SpecsAssumption ==
  /\ Specs \subseteq AllSpecs /\ Nothing \notin AllSpecs
  /\ Nothing \notin [crd : CRDs, spec : Specs, terminating : BOOLEAN]
  /\ Nothing \notin [crd : CRDs, version : STRING]
ASSUME BoundsAssumption == Relists \in BOOLEAN /\ MaxEdits \in Nat

VARIABLES
  host,       \* host[d]: CRD d at the host, or Nothing
  known,      \* known[d]: d in the informer's store, or Nothing
  apis,       \* the CRDs whose APIService the lister knows
  edits,      \* changes made at the host
  notes,      \* notifications the handler has not taken
  pc,         \* what the handler goroutine does next
  gone,       \* the CRD it removes, or Nothing
  new,        \* the CRD it adds, or Nothing
  discovery,  \* crdAPIResources of the version discovery handler
  storages,   \* storages[p]: what the REST storage under p was made from
  scopes,     \* scopes[p]: what the request scope under p was made from
  routes,     \* routes of the root web service
  priority,   \* resourcePriorityMap
  writer,     \* the handler and the lock: "none", "waiting" or "holding"
  readers,    \* requests that hold the read lock
  call        \* call[q]: where request q is and what it has read

hostVars == <<host, known, apis, edits, notes>>
tables   == <<discovery, storages, scopes, routes, priority>>
requests == <<readers, call>>
vars     == <<hostVars, pc, gone, new, tables, writer, requests>>

-------------------------------------------------------------------------------
(* The host and the informer.                                              *)

Edit(d) ==
  /\ edits < MaxEdits
  /\ edits' = edits + 1
  /\ Relists \/ known[d] = host[d]
  /\ UNCHANGED <<known, apis, notes, pc, gone, new, tables, writer, requests>>

CreateCRD(d, s) ==
  /\ host[d] = Nothing
  /\ host' = [host EXCEPT ![d] = [spec |-> s, terminating |-> FALSE]]
  /\ Edit(d)

ChangeSpec(d, s) ==
  /\ host[d] # Nothing
  /\ host[d].spec # s
  /\ host' = [host EXCEPT ![d].spec = s]
  /\ Edit(d)

TerminateCRD(d) ==
  /\ host[d] # Nothing
  /\ ~host[d].terminating
  /\ host' = [host EXCEPT ![d].terminating = TRUE]
  /\ Edit(d)

FinalizeCRD(d) ==
  /\ host[d] # Nothing
  /\ host[d].terminating
  /\ host' = [host EXCEPT ![d] = Nothing]
  /\ Edit(d)

\* The informer delivers the state d has now.
Notify(d) ==
  /\ known[d] # host[d]
  /\ known' = [known EXCEPT ![d] = host[d]]
  /\ notes' = Append(notes, [crd |-> d, old |-> known[d], cur |-> host[d]])
  /\ UNCHANGED <<host, apis, edits, pc, gone, new, tables, writer, requests>>

\* The APIService of d's group and version comes to be known.
ListAPIService(d) ==
  /\ d \notin apis
  /\ apis' = apis \cup {d}
  /\ UNCHANGED <<host, known, edits, notes, pc, gone, new, tables, writer, requests>>

-------------------------------------------------------------------------------
(* The handler takes a notification.                                       *)

IsAdd(n)    == n.old = Nothing
IsDelete(n) == n.cur = Nothing
IsUpdate(n) == n.old # Nothing /\ n.cur # Nothing

Ignored(n) ==
  \/ IsAdd(n) /\ n.crd \in Reserved
  \/ /\ IsUpdate(n)
     /\ n.cur.terminating \/ n.old.spec = n.cur.spec \/ n.crd \in Reserved

TakeNote(next, remove, add) ==
  /\ pc = "idle"
  /\ notes # << >>
  /\ notes' = Tail(notes)
  /\ pc' = next
  /\ gone' = remove
  /\ new' = add
  /\ UNCHANGED <<host, known, apis, edits, tables, writer, requests>>

Ignore == notes # << >> /\ Ignored(Head(notes)) /\ TakeNote("idle", Nothing, Nothing)

\* The CRD of a notification as the handler uses it.
CRD(n) == [crd |-> n.crd, spec |-> n.cur.spec, terminating |-> n.cur.terminating]

addCustomResourceDefinition ==
  /\ notes # << >>
  /\ LET n == Head(notes) IN
       /\ IsAdd(n) /\ ~Ignored(n)
       /\ TakeNote("gate", Nothing, CRD(n))

updateCustomResourceDefinition ==
  /\ notes # << >>
  /\ LET n == Head(notes) IN
       /\ IsUpdate(n) /\ ~Ignored(n)
       /\ TakeNote("withdraw", n.crd, CRD(n))

deleteCustomResourceDefinition ==
  /\ notes # << >>
  /\ LET n == Head(notes) IN
       /\ IsDelete(n)
       /\ TakeNote("withdraw", n.crd, Nothing)

-------------------------------------------------------------------------------
(* The write lock, around the changes to storages and scopes.  A waiting   *)
(* writer keeps new readers out.                                           *)

WaitForLock ==
  /\ pc \in {"remove", "add"}
  /\ writer = "none"
  /\ writer' = "waiting"
  /\ UNCHANGED <<hostVars, pc, gone, new, tables, requests>>

\* Mutation: the readers at work are not waited for.
LockBarging ==
  /\ writer = "waiting"
  /\ writer' = "holding"
  /\ UNCHANGED <<hostVars, pc, gone, new, tables, requests>>

Lock ==
  /\ writer = "waiting"
  /\ readers = {}
  /\ writer' = "holding"
  /\ UNCHANGED <<hostVars, pc, gone, new, tables, requests>>

-------------------------------------------------------------------------------
(* removeStorage.                                                          *)

\* Mutation: the entries of subresources stay.
WithdrawResourceOnly ==
  /\ pc = "withdraw"
  /\ discovery' = {e \in discovery : e.plural # PluralOf[gone] \/ e.sub = "scale"}
  /\ pc' = "remove"
  /\ UNCHANGED <<hostVars, gone, new, storages, scopes, routes, priority, writer,
                 requests>>

Withdraw ==
  /\ pc = "withdraw"
  /\ discovery' = {e \in discovery : e.plural # PluralOf[gone]}
  /\ pc' = "remove"
  /\ UNCHANGED <<hostVars, gone, new, storages, scopes, routes, priority, writer,
                 requests>>

RemoveStorage ==
  /\ pc = "remove"
  /\ writer = "holding"
  /\ storages' = [storages EXCEPT ![PluralOf[gone]] = Nothing]
  /\ pc' = "removeScope"
  /\ UNCHANGED <<hostVars, gone, new, discovery, scopes, routes, priority, writer,
                 requests>>

RemoveScope ==
  /\ pc = "removeScope"
  /\ scopes' = [scopes EXCEPT ![PluralOf[gone]] = Nothing]
  /\ writer' = "none"
  /\ pc' = "removeRoutes"
  /\ UNCHANGED <<hostVars, gone, new, discovery, storages, routes, priority, requests>>

\* The path a CRD's routes start with: under namespaces/{namespace} or not.
Base(d) == IF d \in Namespaced THEN "namespace" ELSE "root"

\* The path of route r starts with that of d, character by character: its
\* plural starts with d's; or d has no namespace in its path, and the word
\* "namespaces", which stands there in r's, starts with d's plural.
PathStartsWith(r, d) ==
  \/ r.base = Base(d) /\ <<r.plural, PluralOf[d]>> \in StartsWith
  \/ r.base = "namespace" /\ d \notin Namespaced /\ PluralOf[d] \in BeginNamespaces

\* Every route goes whose path starts with that of the resource.
RemoveRoutes ==
  /\ pc = "removeRoutes"
  /\ routes' = {r \in routes : ~PathStartsWith(r, gone)}
  /\ gone' = Nothing
  /\ pc' = IF new = Nothing THEN "idle" ELSE "gate"
  /\ UNCHANGED <<hostVars, new, discovery, storages, scopes, priority, writer, requests>>

-------------------------------------------------------------------------------
(* addStorage.                                                             *)

\* Yes, unless d's APIService is known and a higher priority is on record for
\* the plural.
canBeAddedToStorage(d) ==
  d \in apis /\ priority[PluralOf[d]] # Nothing
    => priority[PluralOf[d]] <= PriorityOf[d]

Addable(n) == ~n.terminating /\ n.spec.served /\ canBeAddedToStorage(n.crd)

TurnAway ==
  /\ pc = "gate"
  /\ ~Addable(new)
  /\ new' = Nothing
  /\ pc' = "idle"
  /\ UNCHANGED <<hostVars, gone, tables, writer, requests>>

\* The entries updateCRD makes.
Entries(n) ==
  [plural : {PluralOf[n.crd]}, crd : {n.crd}, version : {n.spec.version},
   sub : IF n.spec.scale THEN {"", "scale"} ELSE {""}]

\* The priority is put on record and the resource announced; entries of the
\* same name are replaced.
Announce ==
  /\ pc = "gate"
  /\ Addable(new)
  /\ priority' = IF new.crd \in apis
                 THEN [priority EXCEPT ![PluralOf[new.crd]] = PriorityOf[new.crd]]
                 ELSE priority
  /\ discovery' = {e \in discovery : \A f \in Entries(new) :
                      <<e.plural, e.sub>> # <<f.plural, f.sub>>} \cup Entries(new)
  /\ pc' = "add"
  /\ UNCHANGED <<hostVars, gone, new, storages, scopes, routes, writer, requests>>

\* What a storage or a scope is made from.
Made(n) == [crd |-> n.crd, version |-> n.spec.version]

AddStorage ==
  /\ pc = "add"
  /\ writer = "holding"
  /\ storages' = [storages EXCEPT ![PluralOf[new.crd]] = Made(new)]
  /\ pc' = "addScope"
  /\ UNCHANGED <<hostVars, gone, new, discovery, scopes, routes, priority, writer,
                 requests>>

AddScope ==
  /\ pc = "addScope"
  /\ scopes' = [scopes EXCEPT ![PluralOf[new.crd]] = Made(new)]
  /\ writer' = "none"
  /\ pc' = "addRoutes"
  /\ UNCHANGED <<hostVars, gone, new, discovery, storages, routes, priority, requests>>

\* The routes addStorage makes for a CRD: of the resource, of its list over
\* all namespaces, and of its status.
RoutesAt(d, methods, base, tail) ==
  [method : methods, base : {base}, plural : {PluralOf[d]}, tail : {tail}]

ListForAllNamespaces(d) == RoutesAt(d, {"GET"}, "root", "")

RoutesOf(d, spec) ==
  RoutesAt(d, {"GET", "PUT", "PATCH", "DELETE"}, Base(d), "name")
  \cup RoutesAt(d, {"GET", "POST", "PATCH"}, Base(d), "")
  \cup (IF d \in Namespaced THEN ListForAllNamespaces(d) ELSE {})
  \cup (IF spec.status THEN RoutesAt(d, {"GET", "PUT", "PATCH"}, Base(d), "status")
        ELSE {})

AddRoutes ==
  /\ pc = "addRoutes"
  /\ routes' = routes \cup RoutesOf(new.crd, new.spec)
  /\ new' = Nothing
  /\ pc' = "idle"
  /\ UNCHANGED <<hostVars, gone, discovery, storages, scopes, priority, writer, requests>>

-------------------------------------------------------------------------------
(* Requests (handle, ServeHTTP).                                           *)

Idle == [at |-> "idle", plural |-> Nothing, scope |-> Nothing, storage |-> Nothing]

Move(q, at) ==
  /\ call' = [call EXCEPT ![q].at = at]
  /\ UNCHANGED <<hostVars, pc, gone, new, tables, writer>>

\* A route that leads to ServeHTTP is found; those of status do not.
Route(q, r) ==
  /\ call[q].at = "idle"
  /\ r.tail # "status"
  /\ call' = [call EXCEPT ![q] = [Idle EXCEPT !.at = "routed", !.plural = r.plural]]
  /\ UNCHANGED <<hostVars, pc, gone, new, tables, writer, readers>>

\* Mutation: the read lock does not keep the writer out.
RLockShared(q) ==
  /\ call[q].at = "routed"
  /\ readers' = readers \cup {q}
  /\ Move(q, "locked")

RLock(q) ==
  /\ call[q].at = "routed"
  /\ writer = "none"
  /\ readers' = readers \cup {q}
  /\ Move(q, "locked")

ReadScope(q) ==
  /\ call[q].at = "locked"
  /\ call' = [call EXCEPT ![q].scope = scopes[call[q].plural], ![q].at = "half"]
  /\ UNCHANGED <<hostVars, pc, gone, new, tables, writer, readers>>

ReadStorage(q) ==
  /\ call[q].at = "half"
  /\ call' = [call EXCEPT ![q].storage = storages[call[q].plural], ![q].at = "read"]
  /\ UNCHANGED <<hostVars, pc, gone, new, tables, writer, readers>>

\* Mutation: the read lock is not released.
RUnlockForgotten(q) ==
  /\ call[q].at = "read"
  /\ UNCHANGED readers
  /\ Move(q, "served")

RUnlock(q) ==
  /\ call[q].at = "read"
  /\ readers' = readers \ {q}
  /\ Move(q, "served")

Answer(q) ==
  /\ call[q].at = "served"
  /\ call' = [call EXCEPT ![q] = Idle]
  /\ UNCHANGED <<hostVars, pc, gone, new, tables, writer, readers>>

-------------------------------------------------------------------------------
States == [spec : Specs, terminating : BOOLEAN]

\* When the server starts the host may have any CRDs.
Init ==
  /\ host \in [CRDs -> States \cup {Nothing}]
  /\ known = [d \in CRDs |-> Nothing]
  /\ apis = Listed
  /\ edits = 0
  /\ notes = << >>
  /\ pc = "idle" /\ gone = Nothing /\ new = Nothing
  /\ discovery = {} /\ routes = {}
  /\ storages = [p \in Plurals |-> Nothing]
  /\ scopes   = [p \in Plurals |-> Nothing]
  /\ priority = [p \in Plurals |-> Nothing]
  /\ writer = "none" /\ readers = {}
  /\ call = [q \in Callers |-> Idle]

Handle ==
  \/ Ignore
  \/ addCustomResourceDefinition
  \/ updateCustomResourceDefinition
  \/ deleteCustomResourceDefinition
  \/ WaitForLock \/ Lock
  \/ Withdraw \/ RemoveStorage \/ RemoveScope \/ RemoveRoutes
  \/ TurnAway \/ Announce \/ AddStorage \/ AddScope \/ AddRoutes

Serve(q) == RLock(q) \/ ReadScope(q) \/ ReadStorage(q) \/ RUnlock(q) \/ Answer(q)

Next ==
  \/ \E d \in CRDs :
        \/ \E s \in Specs : CreateCRD(d, s) \/ ChangeSpec(d, s)
        \/ TerminateCRD(d) \/ FinalizeCRD(d)
        \/ Notify(d) \/ ListAPIService(d)
  \/ Handle
  \/ \E q \in Callers : Serve(q) \/ \E r \in routes : Route(q, r)

Spec == Init /\ [][Next]_vars

\* The goroutines of the handler and of every request run, and the informer
\* delivers what changes.
FairSpec ==
  /\ Spec
  /\ WF_vars(Handle)
  /\ \A q \in Callers : WF_vars(Serve(q))
  /\ \A d \in CRDs : WF_vars(Notify(d))
-------------------------------------------------------------------------------
(* Properties.                                                             *)

Makes   == [crd : CRDs, version : STRING]
Addeds  == [crd : CRDs, spec : Specs, terminating : BOOLEAN]
Notes   == {n \in [crd : CRDs, old : States \cup {Nothing}, cur : States \cup {Nothing}] :
              n.old # n.cur}
Routes  == [method : {"GET", "PUT", "PATCH", "POST", "DELETE"},
            base : {"root", "namespace"}, plural : Plurals,
            tail : {"", "name", "status"}]
Removing == {"withdraw", "remove", "removeScope", "removeRoutes"}
Adding   == {"gate", "add", "addScope", "addRoutes"}
Reading  == {"locked", "half", "read"}

\* Every variable has its type, and the handler knows what it is working on.
TypeOK ==
  /\ host \in [CRDs -> States \cup {Nothing}]
  /\ known \in [CRDs -> States \cup {Nothing}]
  /\ apis \subseteq CRDs
  /\ edits \in 0..MaxEdits
  /\ notes \in Seq(Notes)
  /\ pc \in {"idle"} \cup Removing \cup Adding
  /\ gone \in CRDs \cup {Nothing} /\ (pc \in Removing => gone \in CRDs)
  /\ new \in Addeds \cup {Nothing} /\ (pc \in Adding => new \in Addeds)
  /\ \A e \in discovery : e.plural \in Plurals /\ e.crd \in CRDs
  /\ storages \in [Plurals -> Makes \cup {Nothing}]
  /\ scopes \in [Plurals -> Makes \cup {Nothing}]
  /\ routes \subseteq Routes
  /\ priority \in [Plurals -> Nat \cup {Nothing}]
  /\ writer \in {"none", "waiting", "holding"}
  /\ readers \subseteq Callers
  /\ call \in [Callers -> [at : {"idle", "routed", "served"} \cup Reading,
                          plural : Plurals \cup {Nothing},
                          scope : Makes \cup {Nothing},
                          storage : Makes \cup {Nothing}]]

\* A request is served by a storage and a scope made from the same spec of
\* the same CRD, or finds neither, however the handler replaces them while
\* the request is under way (ServeHTTP lines 582-585).
ServedPair ==
  \A q \in Callers : call[q].at = "served" => call[q].scope = call[q].storage

\* The inductive invariant behind ServedPair: the two tables agree unless
\* the handler is between its two writes; then it has the lock, and nobody
\* reads.  What a reader has read under the lock is still in the table.
LockHeld ==
  /\ pc \in {"removeScope", "addScope"} => writer = "holding"
  /\ writer # "none" => pc \in {"remove", "removeScope", "add", "addScope"}
  /\ writer = "holding" => readers = {}
TablesAgree ==
  CASE pc = "removeScope" -> storages = [scopes EXCEPT ![PluralOf[gone]] = Nothing]
    [] pc = "addScope"    -> storages = [scopes EXCEPT ![PluralOf[new.crd]] = Made(new)]
    [] OTHER              -> storages = scopes
ReadersRead ==
  \A q \in Callers :
    /\ q \in readers <=> call[q].at \in Reading
    /\ call[q].at \in {"routed"} \cup Reading => call[q].plural \in Plurals
    /\ call[q].at \in {"half", "read"} => call[q].scope = scopes[call[q].plural]
    /\ call[q].at = "read" => call[q].storage = storages[call[q].plural]

IInv == TypeOK /\ LockHeld /\ TablesAgree /\ ReadersRead /\ ServedPair

\* The tables as requests see them: the scopes are written last, and a request
\* has found what it is served by when it lets go of the lock.
InCatalog ==
  INSTANCE Catalog WITH
    None    <- Nothing,
    Makers  <- [p \in Plurals |-> {d \in CRDs \ Reserved : PluralOf[d] = p}],
    catalog <- scopes,
    asked   <- [q \in Callers |-> call[q].plural],
    found   <- [q \in Callers |->
                  IF call[q].at = "served"
                  THEN {[scope |-> call[q].scope, storage |-> call[q].storage]}
                  ELSE {}]

\* To requests the two tables, which the handler changes one after the other,
\* are one catalog that changes in one step: what a request is served by was
\* current, all of it, at one moment of the request, and was made from a CRD
\* of that plural which is not external-crd's own (ServeHTTP lines 582-585,
\* addStorage and removeStorage under storageLock).
ImplementsCatalog == InCatalog!Spec

\* The handler has dealt with everything that happened at the host.
Settled == pc = "idle" /\ notes = << >> /\ known = host

Live(d) == host[d] # Nothing /\ ~host[d].terminating
Serving(d) == Live(d) /\ host[d].spec.served /\ d \notin Reserved

Namesakes(d)   == {e \in CRDs \ {d} : PluralOf[e] = PluralOf[d]}
\* The CRDs whose removal can take tables or routes of d along.
Endangering(d) ==
  {e \in CRDs \ {d} :
     \/ <<PluralOf[d], PluralOf[e]>> \in StartsWith
     \/ d \in Namespaced /\ e \notin Namespaced /\ PluralOf[e] \in BeginNamespaces}

EntriesFor(d) == {e \in discovery : e.plural = PluralOf[d]}
RoutesFor(d)  == {r \in routes : r.plural = PluralOf[d]}

\* Once the handler has caught up, a CRD is served by storage, scope,
\* discovery entries and routes as its spec says, and by nothing when it is
\* gone or not served - but for the route of its list over all namespaces,
\* which stays.  This is asked of CRDs whose plural no other CRD has or has a
\* prefix of and, if they are namespaced, where no cluster-scoped CRD has a
\* plural that the word "namespaces" starts with (addStorage, removeStorage).
ServedAsDefined ==
  Settled => \A d \in CRDs : Endangering(d) = {} =>
    LET p == PluralOf[d]
        n == [crd |-> d, spec |-> host[d].spec]
    IN /\ Serving(d) =>
            /\ storages[p] = Made(n) /\ scopes[p] = Made(n)
            /\ EntriesFor(d) = Entries(n)
            /\ RoutesOf(d, n.spec) \subseteq RoutesFor(d)
            /\ RoutesFor(d) \subseteq RoutesOf(d, n.spec) \cup ListForAllNamespaces(d)
       /\ host[d] = Nothing \/ (Live(d) /\ ~Serving(d)) =>
            /\ storages[p] = Nothing /\ scopes[p] = Nothing
            /\ EntriesFor(d) = {}
            /\ RoutesFor(d) \subseteq ListForAllNamespaces(d)

\* When the CRDs of the host stop changing the handler catches up, although
\* requests keep coming and take the lock it needs.
HandlerCatchesUp == <>[]Settled

\* What comments and names in the code say, and the code does not do.

\* "register this resource to storage if the priority is the highest"
\* (customresource_handler.go:278): of the CRDs that share a plural, one of
\* the highest priority is served, when none of them is terminating.
HighestServed ==
  Settled => \A p \in Plurals :
    LET rivals == {d \in CRDs : Serving(d) /\ PluralOf[d] = p} IN
    rivals # {} /\ (\A d \in CRDs : PluralOf[d] = p /\ host[d] # Nothing => Live(d)) =>
      /\ storages[p] # Nothing
      /\ storages[p].crd \in rivals
      /\ \A d \in rivals : PriorityOf[d] <= PriorityOf[storages[p].crd]

\* "will make a overlay copy for all the APIs" (apiserver.go:87): a CRD which
\* is alone in having its plural has all its routes.
AllServed ==
  Settled => \A d \in CRDs :
    Serving(d) /\ Namesakes(d) = {} => RoutesOf(d, host[d].spec) \subseteq routes
===============================================================================
