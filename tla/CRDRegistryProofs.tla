--------------------------- MODULE CRDRegistryProofs ---------------------------
(***************************************************************************)
(* Whatever the CRDs and however many requests are under way, a request is *)
(* served by a storage and a scope made from the same spec: the handler    *)
(* holds the write lock from its first write to its second, nobody reads   *)
(* meanwhile, and at all other times the two tables are equal.  And when   *)
(* the handler has caught up, a CRD with a plural of its own is served as  *)
(* its spec says: the queue of notifications is a chain of its states, and *)
(* the tables are always right for the state the chain starts from.        *)
(***************************************************************************)
EXTENDS CRDRegistry, TLAPS

USE NamesAssumption, SpecsAssumption, BoundsAssumption

-------------------------------------------------------------------------------
(* Types.                                                                  *)

\* The routes of a CRD are routes.
LEMMA RoutesTyped ==
  ASSUME NEW d \in CRDs, NEW spec
  PROVE  RoutesOf(d, spec) \subseteq Routes
<1>1. PluralOf[d] \in Plurals /\ Base(d) \in {"root", "namespace"}
  BY DEF Base
<1>2. \A ms, b, tail :
        ms \subseteq {"GET", "PUT", "PATCH", "POST", "DELETE"}
        /\ b \in {"root", "namespace"} /\ tail \in {"", "name", "status"}
        => RoutesAt(d, ms, b, tail) \subseteq Routes
  BY <1>1 DEF RoutesAt, Routes
<1>3. /\ RoutesAt(d, {"GET", "PUT", "PATCH", "DELETE"}, Base(d), "name") \subseteq Routes
      /\ RoutesAt(d, {"GET", "POST", "PATCH"}, Base(d), "") \subseteq Routes
      /\ RoutesAt(d, {"GET"}, "root", "") \subseteq Routes
      /\ RoutesAt(d, {"GET", "PUT", "PATCH"}, Base(d), "status") \subseteq Routes
  BY <1>1, <1>2
<1> QED
  BY <1>3 DEF RoutesOf, ListForAllNamespaces

\* What storages and scopes are made from is typed.
LEMMA MadeTyped == ASSUME NEW n \in Addeds PROVE Made(n) \in Makes /\ PluralOf[n.crd] \in Plurals
<1>1. n.crd \in CRDs /\ n.spec \in Specs
  BY DEF Addeds
<1>2. n.spec.version \in STRING
  BY <1>1 DEF AllSpecs
<1> QED
  BY <1>1, <1>2 DEF Made, Makes

\* A change at the host preserves the types, if the host's does.
LEMMA EditTyped ==
  ASSUME TypeOK, NEW d, Edit(d), host' \in [CRDs -> States \cup {Nothing}]
  PROVE  TypeOK'
<1>1. /\ UNCHANGED <<known, apis, notes, pc, gone, new, discovery, storages, scopes,
                     routes, priority, writer, readers, call>>
      /\ edits < MaxEdits /\ edits' = edits + 1
  BY DEF Edit, tables, requests
<1>2. edits' \in 0..MaxEdits
  BY <1>1 DEF TypeOK
<1> QED
  BY <1>1, <1>2 DEF TypeOK

\* A step of the host or the informer preserves the types.
LEMMA HostStepTyped ==
  ASSUME TypeOK, NEW d \in CRDs,
         \/ \E s \in Specs : CreateCRD(d, s) \/ ChangeSpec(d, s)
         \/ TerminateCRD(d) \/ FinalizeCRD(d) \/ Notify(d) \/ ListAPIService(d)
  PROVE  TypeOK'
<1>1. ASSUME NEW s \in Specs, CreateCRD(d, s) \/ ChangeSpec(d, s) PROVE TypeOK'
  <2>1. host' \in [CRDs -> States \cup {Nothing}]
    <3>1. CASE CreateCRD(d, s)
      <4>1. [spec |-> s, terminating |-> FALSE] \in States
        BY DEF States
      <4> QED
        BY <3>1, <4>1 DEF CreateCRD, TypeOK
    <3>2. CASE ChangeSpec(d, s)
      <4>1. [host[d] EXCEPT !.spec = s] \in States
        BY <3>2 DEF ChangeSpec, States, TypeOK
      <4>2. host' = [host EXCEPT ![d] = [host[d] EXCEPT !.spec = s]]
        BY <3>2 DEF ChangeSpec
      <4> QED
        BY <4>1, <4>2 DEF TypeOK
    <3> QED
      BY <1>1, <3>1, <3>2
  <2>2. Edit(d)
    BY <1>1 DEF CreateCRD, ChangeSpec
  <2> QED
    BY <2>1, <2>2, EditTyped
<1>2. CASE TerminateCRD(d) \/ FinalizeCRD(d)
  <2>1. host' \in [CRDs -> States \cup {Nothing}]
    <3>1. CASE TerminateCRD(d)
      <4>1. [host[d] EXCEPT !.terminating = TRUE] \in States
        <5>1. host[d] \in States
          BY <3>1 DEF TerminateCRD, TypeOK
        <5> QED
          BY <5>1 DEF States
      <4>2. host' = [host EXCEPT ![d] = [host[d] EXCEPT !.terminating = TRUE]]
        BY <3>1 DEF TerminateCRD
      <4> QED
        BY <4>1, <4>2 DEF TypeOK
    <3>2. CASE FinalizeCRD(d)
      <4>1. host' = [host EXCEPT ![d] = Nothing]
        BY <3>2 DEF FinalizeCRD
      <4> QED
        BY <4>1 DEF TypeOK
    <3> QED
      BY <1>2, <3>1, <3>2
  <2>2. Edit(d)
    BY <1>2 DEF TerminateCRD, FinalizeCRD
  <2> QED
    BY <2>1, <2>2, EditTyped
<1>3. CASE Notify(d)
  <2>1. [crd |-> d, old |-> known[d], cur |-> host[d]] \in Notes
    BY <1>3 DEF Notes, Notify, TypeOK
  <2>2. notes' \in Seq(Notes)
    BY <1>3, <2>1 DEF Notify, TypeOK
  <2> QED
    BY <1>3, <2>2 DEF Notify, TypeOK, tables, requests
<1>4. CASE ListAPIService(d)
  BY <1>4 DEF ListAPIService, TypeOK, tables, requests
<1> QED
  BY <1>1, <1>2, <1>3, <1>4

\* So does taking a notification.
LEMMA TakeNoteTyped ==
  ASSUME TypeOK,
         \/ Ignore \/ addCustomResourceDefinition
         \/ updateCustomResourceDefinition \/ deleteCustomResourceDefinition
  PROVE  TypeOK'
<1> USE DEF TypeOK, hostVars, tables, requests
<1>0. /\ notes # << >> /\ Head(notes) \in Notes /\ Tail(notes) \in Seq(Notes)
      /\ Head(notes).crd \in CRDs
      /\ Head(notes).cur # Nothing => Head(notes).cur \in States
  <2>1. notes # << >>
    BY DEF Ignore, addCustomResourceDefinition, updateCustomResourceDefinition,
           deleteCustomResourceDefinition
  <2>2. Head(notes) \in Notes /\ Tail(notes) \in Seq(Notes)
    BY <2>1
  <2> QED
    BY <2>1, <2>2 DEF Notes
<1>1. Head(notes).cur # Nothing => CRD(Head(notes)) \in Addeds
  BY <1>0 DEF CRD, Addeds, States
<1>2. CASE Ignore
  BY <1>0, <1>2 DEF Ignore, TakeNote, Removing, Adding
<1>3. CASE addCustomResourceDefinition
  <2>1. Head(notes).cur # Nothing
    BY <1>0, <1>3 DEF addCustomResourceDefinition, IsAdd, Notes
  <2> QED
    BY <1>0, <1>1, <1>3, <2>1 DEF addCustomResourceDefinition, TakeNote, Removing, Adding
<1>4. CASE updateCustomResourceDefinition
  BY <1>0, <1>1, <1>4 DEF updateCustomResourceDefinition, IsUpdate, TakeNote, Removing, Adding
<1>5. CASE deleteCustomResourceDefinition
  BY <1>0, <1>5 DEF deleteCustomResourceDefinition, TakeNote, Removing, Adding
<1> QED
  BY <1>2, <1>3, <1>4, <1>5

\* So does removing a CRD.
LEMMA RemoveTyped ==
  ASSUME TypeOK, Withdraw \/ RemoveStorage \/ RemoveScope \/ RemoveRoutes
  PROVE  TypeOK'
<1> USE DEF TypeOK, hostVars, tables, requests, Removing, Adding
<1>1. CASE Withdraw
  BY <1>1 DEF Withdraw
<1>2. CASE RemoveStorage
  BY <1>2 DEF RemoveStorage
<1>3. CASE RemoveScope
  BY <1>3 DEF RemoveScope
<1>4. CASE RemoveRoutes
  <2>1. routes' \subseteq Routes
    BY <1>4 DEF RemoveRoutes
  <2>2. pc' \in {"idle", "gate"} /\ (pc' = "gate" => new \in Addeds)
    BY <1>4 DEF RemoveRoutes
  <2> QED
    BY <1>4, <2>1, <2>2 DEF RemoveRoutes
<1> QED
  BY <1>1, <1>2, <1>3, <1>4

\* So does adding one, and waiting for the lock.
LEMMA AddTyped ==
  ASSUME TypeOK,
         TurnAway \/ Announce \/ AddStorage \/ AddScope \/ AddRoutes
         \/ WaitForLock \/ Lock
  PROVE  TypeOK'
<1> USE DEF TypeOK, hostVars, tables, requests, Removing, Adding
<1>0. new \in Addeds => /\ Made(new) \in Makes
                        /\ new.crd \in CRDs /\ PluralOf[new.crd] \in Plurals
                        /\ PriorityOf[new.crd] \in Nat
  BY MadeTyped DEF Addeds
<1>1. CASE TurnAway
  BY <1>1 DEF TurnAway
<1>2. CASE Announce
  <2>1. \A f \in Entries(new) : f.plural \in Plurals /\ f.crd \in CRDs
    BY <1>0, <1>2 DEF Entries, Announce
  <2>2. \A f \in discovery' : f.plural \in Plurals /\ f.crd \in CRDs
    BY <1>2, <2>1 DEF Announce
  <2>3. priority' \in [Plurals -> Nat \cup {Nothing}]
    BY <1>0, <1>2 DEF Announce
  <2> QED
    BY <1>2, <2>2, <2>3 DEF Announce
<1>3. CASE AddStorage
  BY <1>0, <1>3 DEF AddStorage
<1>4. CASE AddScope
  BY <1>0, <1>4 DEF AddScope
<1>5. CASE AddRoutes
  <2>1. routes' \subseteq Routes
    BY <1>0, <1>5, RoutesTyped DEF AddRoutes
  <2> QED
    BY <1>5, <2>1 DEF AddRoutes
<1>6. CASE WaitForLock \/ Lock
  BY <1>6 DEF WaitForLock, Lock
<1> QED
  BY <1>1, <1>2, <1>3, <1>4, <1>5, <1>6

Calls == [at : {"idle", "routed", "served"} \cup Reading, plural : Plurals \cup {Nothing},
          scope : Makes \cup {Nothing}, storage : Makes \cup {Nothing}]

\* What a step of a request does to its record.
LEMMA RequestStep ==
  ASSUME TypeOK, NEW q \in Callers, ReadersRead,
         Serve(q) \/ \E r \in routes : Route(q, r)
  PROVE  /\ UNCHANGED <<host, known, apis, edits, notes, pc, gone, new, discovery,
                        storages, scopes, routes, priority, writer>>
         /\ readers' \subseteq readers \cup {q}
         /\ \E c \in Calls : call' = [call EXCEPT ![q] = c]
<1> USE DEF TypeOK, Calls, Reading
<1>1. ASSUME NEW r \in routes, Route(q, r)
      PROVE  /\ UNCHANGED <<hostVars, pc, gone, new, tables, writer, readers>>
             /\ [Idle EXCEPT !.at = "routed", !.plural = r.plural] \in Calls
  BY <1>1 DEF Route, Routes, Idle
<1>2. call[q] \in Calls
  OBVIOUS
<1>3. CASE RLock(q) \/ RUnlock(q)
  <2>1. PICK at \in {"locked", "served"} : call' = [call EXCEPT ![q].at = at]
    BY <1>3 DEF RLock, RUnlock, Move
  <2>2. [call[q] EXCEPT !.at = at] \in Calls
    BY <1>2
  <2>3. call' = [call EXCEPT ![q] = [call[q] EXCEPT !.at = at]]
    BY <2>1
  <2> QED
    BY <1>3, <2>2, <2>3 DEF RLock, RUnlock, Move, hostVars, tables
<1>4. CASE ReadScope(q)
  <2>1. scopes[call[q].plural] \in Makes \cup {Nothing}
    BY <1>4 DEF ReadScope, ReadersRead
  <2>2. [call[q] EXCEPT !.scope = scopes[call[q].plural], !.at = "half"] \in Calls
    BY <1>2, <2>1
  <2>3. call' = [call EXCEPT ![q] =
                   [call[q] EXCEPT !.scope = scopes[call[q].plural], !.at = "half"]]
    BY <1>4 DEF ReadScope
  <2> QED
    BY <1>4, <2>2, <2>3 DEF ReadScope, hostVars, tables
<1>5. CASE ReadStorage(q)
  <2>1. storages[call[q].plural] \in Makes \cup {Nothing}
    BY <1>5 DEF ReadStorage, ReadersRead
  <2>2. [call[q] EXCEPT !.storage = storages[call[q].plural], !.at = "read"] \in Calls
    BY <1>2, <2>1
  <2>3. call' = [call EXCEPT ![q] =
                   [call[q] EXCEPT !.storage = storages[call[q].plural], !.at = "read"]]
    BY <1>5 DEF ReadStorage
  <2> QED
    BY <1>5, <2>2, <2>3 DEF ReadStorage, hostVars, tables
<1>6. CASE Answer(q)
  <2>1. Idle \in Calls
    BY DEF Idle
  <2> QED
    BY <1>6, <2>1 DEF Answer, hostVars, tables
<1>7. ASSUME NEW r \in routes, Route(q, r) PROVE call' = [call EXCEPT ![q] =
                  [Idle EXCEPT !.at = "routed", !.plural = r.plural]]
  BY <1>7 DEF Route
<1> QED
  BY <1>1, <1>3, <1>4, <1>5, <1>6, <1>7 DEF Serve, hostVars, tables

\* Every step preserves the types.
LEMMA TypeInductive == TypeOK /\ ReadersRead /\ [Next]_vars => TypeOK'
<1> SUFFICES ASSUME TypeOK, ReadersRead, [Next]_vars PROVE TypeOK'
  OBVIOUS
<1>1. CASE Handle
  BY <1>1, TakeNoteTyped, RemoveTyped, AddTyped DEF Handle
<1>2. ASSUME NEW d \in CRDs,
             \/ \E s \in Specs : CreateCRD(d, s) \/ ChangeSpec(d, s)
             \/ TerminateCRD(d) \/ FinalizeCRD(d) \/ Notify(d) \/ ListAPIService(d)
      PROVE  TypeOK'
  BY <1>2, HostStepTyped
<1>3. ASSUME NEW q \in Callers, Serve(q) \/ \E r \in routes : Route(q, r)
      PROVE  TypeOK'
  <2>1. /\ UNCHANGED <<host, known, apis, edits, notes, pc, gone, new, discovery,
                       storages, scopes, routes, priority, writer>>
        /\ readers' \subseteq readers \cup {q}
        /\ \E c \in Calls : call' = [call EXCEPT ![q] = c]
    BY <1>3, RequestStep
  <2>2. call' \in [Callers -> Calls]
    BY <2>1 DEF TypeOK, Calls
  <2> QED
    BY <2>1, <2>2 DEF TypeOK, Calls
<1>4. CASE UNCHANGED vars
  BY <1>4 DEF vars, TypeOK, hostVars, tables, requests
<1> QED
  BY <1>1, <1>2, <1>3, <1>4 DEF Next

-------------------------------------------------------------------------------
(* The lock.                                                               *)

\* The steps of the handler keep the lock discipline, and change the tables
\* only while nobody reads.
LEMMA HandlerKeepsLock ==
  ASSUME TypeOK, LockHeld, TablesAgree, Handle
  PROVE  /\ LockHeld' /\ TablesAgree'
         /\ UNCHANGED <<readers, call>>
         /\ readers = {} \/ UNCHANGED <<storages, scopes>>
<1> USE DEF LockHeld, TablesAgree, hostVars, tables, requests
<1>1. CASE Ignore \/ addCustomResourceDefinition
           \/ updateCustomResourceDefinition \/ deleteCustomResourceDefinition
  BY <1>1 DEF Ignore, addCustomResourceDefinition, updateCustomResourceDefinition,
              deleteCustomResourceDefinition, TakeNote
<1>2. CASE WaitForLock \/ Lock
  BY <1>2 DEF WaitForLock, Lock
<1>3. CASE Withdraw \/ RemoveRoutes \/ TurnAway \/ Announce \/ AddRoutes
  BY <1>3 DEF Withdraw, RemoveRoutes, TurnAway, Announce, AddRoutes
<1>4. CASE RemoveStorage \/ AddStorage
  BY <1>4 DEF RemoveStorage, AddStorage, Made
<1>5. CASE RemoveScope
  <2>1. /\ readers = {} /\ pc' = "removeRoutes" /\ writer' = "none"
        /\ storages' = storages /\ UNCHANGED <<readers, call>>
        /\ scopes' = [scopes EXCEPT ![PluralOf[gone]] = Nothing]
        /\ storages = [scopes EXCEPT ![PluralOf[gone]] = Nothing]
    BY <1>5 DEF RemoveScope
  <2> QED
    BY <2>1
<1>6. CASE AddScope
  <2>1. /\ readers = {} /\ pc' = "addRoutes" /\ writer' = "none"
        /\ storages' = storages /\ UNCHANGED <<readers, call>>
        /\ scopes' = [scopes EXCEPT ![PluralOf[new.crd]] = Made(new)]
        /\ storages = [scopes EXCEPT ![PluralOf[new.crd]] = Made(new)]
    BY <1>6 DEF AddScope
  <2> QED
    BY <2>1
<1> QED
  BY <1>1, <1>2, <1>3, <1>4, <1>5, <1>6 DEF Handle

\* A step of a request: it reads under the lock, so what it read first is
\* still there when it reads again.
LEMMA RequestKeepsPair ==
  ASSUME TypeOK, LockHeld, TablesAgree, ReadersRead, ServedPair,
         NEW q \in Callers, Serve(q) \/ \E r \in routes : Route(q, r)
  PROVE  LockHeld' /\ TablesAgree' /\ ReadersRead' /\ ServedPair'
<1>0. /\ UNCHANGED <<pc, gone, new, storages, scopes, writer>>
      /\ call \in [Callers -> Calls]
  BY RequestStep DEF TypeOK, Calls
<1>1. LockHeld' /\ readers' \subseteq readers \cup {q}
  <2>1. RLock(q) \/ readers' \subseteq readers
    BY DEF Serve, RLock, RUnlock, ReadScope, ReadStorage, Answer, Route
  <2>2. RLock(q) => writer = "none" /\ readers' = readers \cup {q}
    BY DEF RLock
  <2> QED
    BY <1>0, <2>1, <2>2 DEF LockHeld
<1>2. TablesAgree'
  BY <1>0 DEF TablesAgree, Made
<1> SUFFICES ReadersRead' /\ ServedPair'
  BY <1>1, <1>2
<1>3. ASSUME NEW r \in routes, Route(q, r) PROVE ReadersRead' /\ ServedPair'
  <2>1. /\ call' = [call EXCEPT ![q] = [Idle EXCEPT !.at = "routed", !.plural = r.plural]]
        /\ readers' = readers /\ q \notin readers
    BY <1>3 DEF Route, ReadersRead, Reading
  <2>2. r.plural \in Plurals
    BY <1>3 DEF TypeOK, Routes
  <2> QED
    BY <1>0, <2>1, <2>2 DEF ReadersRead, ServedPair, Reading, Idle, Calls
<1>4. CASE RLock(q)
  <2>1. /\ call' = [call EXCEPT ![q] = [call[q] EXCEPT !.at = "locked"]]
        /\ readers' = readers \cup {q} /\ call[q].at = "routed"
    BY <1>4 DEF RLock, Move
  <2> QED
    BY <1>0, <2>1 DEF ReadersRead, ServedPair, Reading, Calls
<1>5. CASE ReadScope(q)
  <2>1. /\ call' = [call EXCEPT ![q] =
                      [call[q] EXCEPT !.scope = scopes[call[q].plural], !.at = "half"]]
        /\ readers' = readers /\ call[q].at = "locked"
    BY <1>5 DEF ReadScope
  <2> QED
    BY <1>0, <2>1 DEF ReadersRead, ServedPair, Reading, Calls
<1>6. CASE ReadStorage(q)
  <2>1. /\ call' = [call EXCEPT ![q] =
                      [call[q] EXCEPT !.storage = storages[call[q].plural], !.at = "read"]]
        /\ readers' = readers /\ call[q].at = "half"
    BY <1>6 DEF ReadStorage
  <2> QED
    BY <1>0, <2>1 DEF ReadersRead, ServedPair, Reading, Calls
<1>7. CASE RUnlock(q)
  <2>1. /\ call' = [call EXCEPT ![q] = [call[q] EXCEPT !.at = "served"]]
        /\ readers' = readers \ {q} /\ call[q].at = "read"
    BY <1>7 DEF RUnlock, Move
  <2>2. storages = scopes
    <3>1. readers # {}
      BY <2>1 DEF ReadersRead, Reading
    <3> QED
      BY <3>1 DEF LockHeld, TablesAgree
  <2>3. call[q].scope = call[q].storage
    BY <2>1, <2>2 DEF ReadersRead
  <2> QED
    BY <1>0, <2>1, <2>3 DEF ReadersRead, ServedPair, Reading, Calls
<1>8. CASE Answer(q)
  <2>1. call' = [call EXCEPT ![q] = Idle] /\ readers' = readers /\ call[q].at = "served"
    BY <1>8 DEF Answer
  <2> QED
    BY <1>0, <2>1 DEF ReadersRead, ServedPair, Reading, Idle, Calls
<1> QED
  BY <1>1, <1>2, <1>3, <1>4, <1>5, <1>6, <1>7, <1>8 DEF Serve

\* Every step preserves the inductive invariant.
LEMMA Inductive == IInv /\ [Next]_vars => IInv'
<1> SUFFICES ASSUME IInv, [Next]_vars PROVE IInv'
  OBVIOUS
<1>0. TypeOK /\ LockHeld /\ TablesAgree /\ ReadersRead /\ ServedPair /\ TypeOK'
  BY TypeInductive DEF IInv
<1>same. ASSUME UNCHANGED <<pc, gone, new, storages, scopes, writer, readers, call>>
         PROVE  LockHeld' /\ TablesAgree' /\ ReadersRead' /\ ServedPair'
  BY <1>0, <1>same DEF LockHeld, TablesAgree, ReadersRead, ServedPair, Made
<1>1. CASE Handle
  <2>1. LockHeld' /\ TablesAgree' /\ UNCHANGED <<readers, call>>
        /\ (readers = {} \/ UNCHANGED <<storages, scopes>>)
    BY <1>0, <1>1, HandlerKeepsLock
  <2>2. ReadersRead'
    BY <1>0, <2>1 DEF ReadersRead, Reading
  <2>3. ServedPair'
    BY <1>0, <2>1 DEF ServedPair
  <2> QED
    BY <1>0, <2>1, <2>2, <2>3 DEF IInv
<1>2. ASSUME NEW d \in CRDs,
             \/ \E s \in Specs : CreateCRD(d, s) \/ ChangeSpec(d, s)
             \/ TerminateCRD(d) \/ FinalizeCRD(d) \/ Notify(d) \/ ListAPIService(d)
      PROVE  IInv'
  <2>1. UNCHANGED <<pc, gone, new, storages, scopes, writer, readers, call>>
    BY <1>2 DEF CreateCRD, ChangeSpec, TerminateCRD, FinalizeCRD, Edit, Notify,
                ListAPIService, tables, requests
  <2> QED
    BY <1>0, <1>same, <2>1 DEF IInv
<1>3. ASSUME NEW q \in Callers, Serve(q) \/ \E r \in routes : Route(q, r)
      PROVE  IInv'
  BY <1>0, <1>3, RequestKeepsPair DEF IInv
<1>4. CASE UNCHANGED vars
  <2>1. UNCHANGED <<pc, gone, new, storages, scopes, writer, readers, call>>
    BY <1>4 DEF vars, tables, requests
  <2> QED
    BY <1>0, <1>same, <2>1 DEF IInv
<1> QED
  BY <1>1, <1>2, <1>3, <1>4 DEF Next

-------------------------------------------------------------------------------
(* The theorems.                                                           *)

\* In every behaviour the types hold, the lock is held as the code means it
\* to be, and the two tables agree outside of it.
THEOREM Invariant == Spec => []IInv
<1>1. Init => IInv
  <2> SUFFICES ASSUME Init PROVE IInv
    OBVIOUS
  <2>1. /\ notes \in Seq(Notes) /\ 0 \in 0..MaxEdits
        /\ call \in [Callers -> {Idle}] /\ Idle.at = "idle"
        /\ Idle \in Calls
    BY DEF Init, Idle, Calls
  <2>2. /\ known \in [CRDs -> {Nothing}]
        /\ storages \in [Plurals -> {Nothing}] /\ scopes = storages
        /\ priority \in [Plurals -> {Nothing}]
    BY DEF Init
  <2>3. TypeOK
    <3>1. call \in [Callers -> Calls]
      BY <2>1
    <3> QED
      BY <2>1, <2>2, <3>1 DEF Init, TypeOK, Calls, Removing, Adding
  <2>4. LockHeld /\ TablesAgree
    BY <2>2 DEF Init, LockHeld, TablesAgree
  <2>5. ReadersRead /\ ServedPair
    BY <2>1 DEF Init, ReadersRead, ServedPair, Reading
  <2> QED
    BY <2>3, <2>4, <2>5 DEF IInv
<1> QED
  BY <1>1, Inductive, PTL DEF Spec

\* A request is always served by a storage and a scope of the same CRD.
THEOREM ServedByPair == Spec => []ServedPair
<1>1. IInv => ServedPair
  BY DEF IInv
<1> QED
  BY <1>1, Invariant, PTL

-------------------------------------------------------------------------------
(* What is served is what the CRDs say.  Of a CRD whose plural is its own  *)
(* the notifications in the queue are a chain of states, from the one the  *)
(* handler took last to the one the informer knows; unless the handler is  *)
(* at work on it, the tables are as that first state says.                 *)

Alone(d) == Endangering(d) = {}

\* t is the state of d that its notifications from the i-th on start from.
From(d, i, t) ==
  \/ \E j \in i..Len(notes) :
       /\ notes[j].crd = d /\ notes[j].old = t
       /\ \A k \in i..(j - 1) : notes[k].crd # d
  \/ t = known[d] /\ \A k \in i..Len(notes) : notes[k].crd # d

\* The notifications of d are linked, and none brings it back to life.
Linked(d) ==
  \A i \in 1..Len(notes) : notes[i].crd = d =>
    /\ From(d, i + 1, notes[i].cur)
    /\ IsUpdate(notes[i]) /\ ~notes[i].cur.terminating => ~notes[i].old.terminating

\* The informer is at most one change behind the host.
OneEdit(d) ==
  known[d] # host[d] /\ known[d] # Nothing /\ Live(d) => ~known[d].terminating

\* The CRD the handler is at work on.
Busy(d) == \/ pc \in Removing /\ gone = d
           \/ pc \in Adding /\ new.crd = d
Working ==
  /\ pc \in Removing => new = Nothing \/ (new \in Addeds /\ new.crd = gone)

Bare(d) == RoutesFor(d) \subseteq ListForAllNamespaces(d)
Empty(d) ==
  /\ storages[PluralOf[d]] = Nothing /\ scopes[PluralOf[d]] = Nothing
  /\ EntriesFor(d) = {} /\ Bare(d)
Full(d, spec) ==
  LET n == [crd |-> d, spec |-> spec] IN
  /\ storages[PluralOf[d]] = Made(n) /\ scopes[PluralOf[d]] = Made(n)
  /\ EntriesFor(d) = Entries(n)
  /\ RoutesOf(d, spec) \subseteq RoutesFor(d)
  /\ RoutesFor(d) \subseteq RoutesOf(d, spec) \cup ListForAllNamespaces(d)

\* The tables are as state t says; of a terminating CRD nothing is asked.
Right(d, t) ==
  /\ t = Nothing => Empty(d)
  /\ t # Nothing /\ ~t.terminating =>
       IF t.spec.served /\ d \notin Reserved THEN Full(d, t.spec) ELSE Empty(d)

\* How far the handler has come with the CRD it is at work on.
Job(d, t) ==
  /\ IF new = Nothing THEN t = Nothing
     ELSE t # Nothing /\ d \notin Reserved
          /\ t.spec = new.spec /\ t.terminating = new.terminating
  /\ pc \in {"remove", "removeScope", "removeRoutes"} => EntriesFor(d) = {}
  /\ pc \in {"removeScope", "removeRoutes"} => storages[PluralOf[d]] = Nothing
  /\ pc = "removeRoutes" => scopes[PluralOf[d]] = Nothing
  /\ pc = "gate" => Empty(d)
  /\ pc \in {"add", "addScope", "addRoutes"} =>
       new.spec.served /\ ~new.terminating /\ EntriesFor(d) = Entries(new) /\ Bare(d)
  /\ pc \in {"addScope", "addRoutes"} => storages[PluralOf[d]] = Made(new)
  /\ pc = "addRoutes" => scopes[PluralOf[d]] = Made(new)

\* Only d has changed what is kept under its plural.
Own(d) ==
  /\ priority[PluralOf[d]] \in {Nothing, PriorityOf[d]}
  /\ \A r \in RoutesFor(d) : r.base = Base(d) \/ r \in ListForAllNamespaces(d)

Progress(d) ==
  \A t \in States \cup {Nothing} :
    From(d, 1, t) => IF Busy(d) THEN Job(d, t) ELSE Right(d, t)

DInv == Working /\ \A d \in CRDs : Alone(d) => Linked(d) /\ OneEdit(d) /\ Own(d) /\ Progress(d)

\* There is one such state.
LEMMA FromUnique ==
  ASSUME notes \in Seq(Notes), NEW d, NEW i \in Nat \ {0}, NEW s, NEW t,
         From(d, i, s), From(d, i, t)
  PROVE  s = t
<1>1. CASE \A k \in i..Len(notes) : notes[k].crd # d
  BY <1>1 DEF From
<1>2. CASE \E k \in i..Len(notes) : notes[k].crd = d
  <2>1. PICK j \in i..Len(notes) : /\ notes[j].crd = d /\ notes[j].old = s
                                   /\ \A k \in i..(j - 1) : notes[k].crd # d
    BY <1>2 DEF From
  <2>2. PICK l \in i..Len(notes) : /\ notes[l].crd = d /\ notes[l].old = t
                                   /\ \A k \in i..(l - 1) : notes[k].crd # d
    BY <1>2 DEF From
  <2>3. j = l
    BY <2>1, <2>2
  <2> QED
    BY <2>1, <2>2, <2>3
<1> QED
  BY <1>1, <1>2

\* A notification at the end of the queue.
LEMMA FromAppend ==
  ASSUME notes \in Seq(Notes), NEW n \in Notes, notes' = Append(notes, n),
         NEW d \in CRDs, NEW i \in 1..Len(notes) + 1, NEW t,
         n.crd = d => n.old = known[d],
         n.crd # d => known'[d] = known[d]
  PROVE  From(d, i, t)' <=> From(d, i, t)
<1>1. /\ Len(notes') = Len(notes) + 1 /\ notes'[Len(notes) + 1] = n
      /\ \A k \in 1..Len(notes) : notes'[k] = notes[k]
  OBVIOUS
<1>2. ASSUME From(d, i, t) PROVE From(d, i, t)'
  <2>1. CASE \A k \in i..Len(notes) : notes[k].crd # d
    <3>1. t = known[d]
      BY <1>2, <2>1 DEF From
    <3>2. CASE n.crd = d
      <4>1. /\ Len(notes) + 1 \in i..Len(notes')
            /\ notes'[Len(notes) + 1].crd = d /\ notes'[Len(notes) + 1].old = t
            /\ \A k \in i..(Len(notes) + 1 - 1) : notes'[k].crd # d
        BY <1>1, <2>1, <3>1, <3>2
      <4> QED
        BY <4>1 DEF From
    <3>3. CASE n.crd # d
      <4>1. t = known'[d] /\ \A k \in i..Len(notes') : notes'[k].crd # d
        BY <1>1, <2>1, <3>1, <3>3
      <4> QED
        BY <4>1 DEF From
    <3> QED
      BY <3>2, <3>3
  <2>2. CASE \E k \in i..Len(notes) : notes[k].crd = d
    <3>1. PICK j \in i..Len(notes) : /\ notes[j].crd = d /\ notes[j].old = t
                                     /\ \A k \in i..(j - 1) : notes[k].crd # d
      BY <1>2, <2>2 DEF From
    <3>2. /\ j \in i..Len(notes') /\ notes'[j].crd = d /\ notes'[j].old = t
          /\ \A k \in i..(j - 1) : notes'[k].crd # d
      BY <1>1, <3>1
    <3> QED
      BY <3>2 DEF From
  <2> QED
    BY <2>1, <2>2
<1>3. ASSUME From(d, i, t)' PROVE From(d, i, t)
  <2>1. CASE \A k \in i..Len(notes) : notes[k].crd # d
    <3>1. t = known[d]
      <4>1. CASE \A k \in i..Len(notes') : notes'[k].crd # d
        <5>1. n.crd # d
          BY <1>1, <4>1
        <5> QED
          BY <1>3, <4>1, <5>1 DEF From
      <4>2. CASE \E k \in i..Len(notes') : notes'[k].crd = d
        <5>1. PICK j \in i..Len(notes') : notes'[j].crd = d /\ notes'[j].old = t
          BY <1>3, <4>2 DEF From
        <5>2. j = Len(notes) + 1
          BY <1>1, <2>1, <5>1
        <5> QED
          BY <1>1, <5>1, <5>2
      <4> QED
        BY <4>1, <4>2
    <3> QED
      BY <2>1, <3>1 DEF From
  <2>2. CASE \E k \in i..Len(notes) : notes[k].crd = d
    <3>0. PICK m \in i..Len(notes) : notes[m].crd = d
      BY <2>2
    <3>1. m \in i..Len(notes') /\ notes'[m].crd = d
      BY <1>1, <3>0
    <3>2. PICK j \in i..Len(notes') : /\ notes'[j].crd = d /\ notes'[j].old = t
                                      /\ \A k \in i..(j - 1) : notes'[k].crd # d
      BY <1>3, <3>1 DEF From
    <3>3. j <= m
      BY <3>1, <3>2
    <3>4. /\ j \in i..Len(notes) /\ notes[j].crd = d /\ notes[j].old = t
          /\ \A k \in i..(j - 1) : notes[k].crd # d
      <4>1. j \in i..Len(notes)
        BY <3>0, <3>2, <3>3
      <4>2. \A k \in i..j : notes'[k] = notes[k]
        BY <1>1, <4>1
      <4>3. \A k \in i..(j - 1) : k \in i..j
        BY <4>1
      <4>4. j \in i..j
        BY <4>1
      <4> QED
        BY <3>2, <4>1, <4>2, <4>3, <4>4
    <3> QED
      BY <3>4 DEF From
  <2> QED
    BY <2>1, <2>2
<1> QED
  BY <1>2, <1>3

\* The first notification is taken from the queue.
LEMMA FromTail ==
  ASSUME notes \in Seq(Notes), notes # << >>, notes' = Tail(notes), known' = known,
         NEW d \in CRDs, NEW i \in 1..Len(notes), NEW t
  PROVE  From(d, i, t)' <=> From(d, i + 1, t)
<1>1. /\ Len(notes') = Len(notes) - 1
      /\ \A k \in 1..Len(notes') : notes'[k] = notes[k + 1]
      /\ Len(notes) \in Nat
  OBVIOUS
<1>2. (\A k \in i..Len(notes') : notes'[k].crd # d)
        <=> \A k \in (i + 1)..Len(notes) : notes[k].crd # d
  <2>1. ASSUME \A k \in i..Len(notes') : notes'[k].crd # d, NEW k \in (i + 1)..Len(notes)
        PROVE  notes[k].crd # d
    <3>1. k - 1 \in i..Len(notes') /\ notes'[k - 1] = notes[k]
      BY <1>1
    <3> QED
      BY <2>1, <3>1
  <2>2. ASSUME \A k \in (i + 1)..Len(notes) : notes[k].crd # d, NEW k \in i..Len(notes')
        PROVE  notes'[k].crd # d
    <3>1. k + 1 \in (i + 1)..Len(notes) /\ notes'[k] = notes[k + 1]
      BY <1>1
    <3> QED
      BY <2>2, <3>1
  <2> QED
    BY <2>1, <2>2
<1>3. ASSUME NEW j \in i..Len(notes'), notes'[j].crd = d, notes'[j].old = t,
             \A k \in i..(j - 1) : notes'[k].crd # d
      PROVE  From(d, i + 1, t)
  <2>1. j + 1 \in (i + 1)..Len(notes) /\ notes[j + 1] = notes'[j]
    BY <1>1
  <2>2. ASSUME NEW k \in (i + 1)..(j + 1 - 1) PROVE notes[k].crd # d
    <3>1. k - 1 \in i..(j - 1) /\ notes'[k - 1] = notes[k]
      BY <1>1
    <3> QED
      BY <1>3, <3>1
  <2> QED
    BY <1>3, <2>1, <2>2 DEF From
<1>4. ASSUME NEW j \in (i + 1)..Len(notes), notes[j].crd = d, notes[j].old = t,
             \A k \in (i + 1)..(j - 1) : notes[k].crd # d
      PROVE  From(d, i, t)'
  <2>1. j - 1 \in i..Len(notes') /\ notes'[j - 1] = notes[j]
    BY <1>1
  <2>2. ASSUME NEW k \in i..(j - 1 - 1) PROVE notes'[k].crd # d
    <3>1. k + 1 \in (i + 1)..(j - 1) /\ notes'[k] = notes[k + 1]
      BY <1>1
    <3> QED
      BY <1>4, <3>1
  <2> QED
    BY <1>4, <2>1, <2>2 DEF From
<1>5. From(d, i, t)' => From(d, i + 1, t)
  BY <1>2, <1>3 DEF From
<1>6. From(d, i + 1, t) => From(d, i, t)'
  BY <1>2, <1>4 DEF From
<1> QED
  BY <1>5, <1>6
\* What is kept of d in the tables stays.
Kept(d) ==
  /\ storages'[PluralOf[d]] = storages[PluralOf[d]]
  /\ scopes'[PluralOf[d]] = scopes[PluralOf[d]]
  /\ priority'[PluralOf[d]] = priority[PluralOf[d]]
  /\ EntriesFor(d)' = EntriesFor(d)
  /\ RoutesFor(d)' = RoutesFor(d)

\* Then the tables are right for d as they were.
LEMMA KeptRight ==
  ASSUME NEW d \in CRDs, Kept(d)
  PROVE  /\ Own(d) => Own(d)'
         /\ \A t : Right(d, t) => Right(d, t)'
         /\ UNCHANGED <<pc, new>> => \A t : Job(d, t) => Job(d, t)'
<1>1. Own(d) => Own(d)'
  BY DEF Kept, Own
<1>2. ASSUME NEW t, Right(d, t) PROVE Right(d, t)'
  <2>1. Empty(d)' <=> Empty(d)
    BY DEF Kept, Empty, Bare
  <2>2. \A spec : Full(d, spec)' <=> Full(d, spec)
    BY DEF Kept, Full
  <2> QED
    BY <1>2, <2>1, <2>2 DEF Right
<1>3. ASSUME UNCHANGED <<pc, new>>, NEW t, Job(d, t) PROVE Job(d, t)'
  BY <1>3 DEF Kept, Job, Empty, Bare
<1> QED
  BY <1>1, <1>2, <1>3

\* The queue stays.
LEMMA KeptQueue ==
  ASSUME UNCHANGED <<notes, known>>
  PROVE  /\ \A d, i, t : From(d, i, t)' <=> From(d, i, t)
         /\ \A d : Linked(d)' <=> Linked(d)
<1>1. \A d, i, t : From(d, i, t)' <=> From(d, i, t)
  BY DEF From
<1>2. ASSUME NEW d PROVE Linked(d)' <=> Linked(d)
  BY <1>1 DEF Linked
<1> QED
  BY <1>1, <1>2

\* At the start the handler knows of no CRD and serves none.
LEMMA DefinedAtStart == Init => DInv
<1> SUFFICES ASSUME Init PROVE DInv
  OBVIOUS
<1>1. /\ notes = << >> /\ pc = "idle" /\ discovery = {} /\ routes = {}
      /\ \A d \in CRDs : known[d] = Nothing /\ storages[PluralOf[d]] = Nothing
                         /\ scopes[PluralOf[d]] = Nothing
                         /\ priority[PluralOf[d]] = Nothing
  BY DEF Init
<1>2. ASSUME NEW d \in CRDs PROVE Linked(d) /\ OneEdit(d) /\ Own(d) /\ Progress(d)
  <2>1. EntriesFor(d) = {} /\ RoutesFor(d) = {}
    BY <1>1 DEF EntriesFor, RoutesFor
  <2>2. Right(d, Nothing) /\ Own(d)
    BY <1>1, <2>1 DEF Right, Empty, Bare, Own
  <2>3. ASSUME NEW t, From(d, 1, t) PROVE t = Nothing
    BY <1>1, <2>3 DEF From
  <2>4. ~Busy(d)
    BY <1>1 DEF Busy, Removing, Adding
  <2> QED
    BY <1>1, <2>2, <2>3, <2>4 DEF Linked, OneEdit, Progress
<1> QED
  BY <1>1, <1>2 DEF DInv, Working, Removing

\* Steps which change neither the CRDs nor what the handler keeps of them.
LEMMA QuietKeepsDefined ==
  ASSUME DInv, UNCHANGED <<host, known, notes, pc, gone, new, discovery, storages,
                           scopes, routes, priority>>
  PROVE  DInv'
<1>1. Working'
  BY DEF DInv, Working
<1>2. ASSUME NEW d \in CRDs, Alone(d)
      PROVE  Linked(d)' /\ OneEdit(d)' /\ Own(d)' /\ Progress(d)'
  <2>0. Linked(d) /\ OneEdit(d) /\ Own(d) /\ Progress(d)
    BY <1>2 DEF DInv
  <2>1. Kept(d)
    BY DEF Kept, EntriesFor, RoutesFor
  <2>2. Linked(d)' /\ Own(d)'
    BY <2>0, <2>1, KeptQueue, KeptRight
  <2>3. OneEdit(d)' /\ (Busy(d)' <=> Busy(d))
    BY <2>0 DEF OneEdit, Live, Busy
  <2>4. ASSUME NEW t \in States \cup {Nothing}, From(d, 1, t)'
        PROVE  IF Busy(d)' THEN Job(d, t)' ELSE Right(d, t)'
    <3>1. From(d, 1, t)
      BY <2>4, KeptQueue
    <3>2. IF Busy(d) THEN Job(d, t) ELSE Right(d, t)
      BY <2>0, <3>1 DEF Progress
    <3> QED
      BY <2>1, <2>3, <3>2, KeptRight
  <2> QED
    BY <2>2, <2>3, <2>4 DEF Progress
<1> QED
  BY <1>1, <1>2 DEF DInv, Alone, Endangering

\* A change at the host, when the informer has told of the one before.
LEMMA EditKeepsDefined ==
  ASSUME TypeOK, DInv, ~Relists, NEW c \in CRDs,
         \/ \E s \in Specs : CreateCRD(c, s) \/ ChangeSpec(c, s)
         \/ TerminateCRD(c) \/ FinalizeCRD(c)
  PROVE  DInv'
<1>1. /\ UNCHANGED <<known, notes, pc, gone, new, discovery, storages, scopes, routes,
                     priority>>
      /\ known[c] = host[c]
  BY DEF CreateCRD, ChangeSpec, TerminateCRD, FinalizeCRD, Edit, tables
<1>2. \A d \in CRDs \ {c} : host'[d] = host[d]
  BY DEF CreateCRD, ChangeSpec, TerminateCRD, FinalizeCRD, TypeOK
<1>3. host[c] # Nothing /\ host'[c] # Nothing /\ ~host'[c].terminating
        => ~host[c].terminating
  <2>1. CASE \E s \in Specs : CreateCRD(c, s)
    BY <2>1 DEF CreateCRD
  <2>2. CASE \E s \in Specs : ChangeSpec(c, s)
    <3>1. PICK s \in Specs : ChangeSpec(c, s)
      BY <2>2
    <3>2. host[c] \in States /\ host'[c] = [host[c] EXCEPT !.spec = s]
      BY <3>1 DEF ChangeSpec, TypeOK
    <3> QED
      BY <3>2 DEF States
  <2>3. CASE TerminateCRD(c)
    <3>1. host[c] \in States /\ host'[c] = [host[c] EXCEPT !.terminating = TRUE]
      BY <2>3 DEF TerminateCRD, TypeOK
    <3> QED
      BY <3>1 DEF States
  <2>4. CASE FinalizeCRD(c)
    BY <2>4 DEF FinalizeCRD, TypeOK
  <2> QED
    BY <2>1, <2>2, <2>3, <2>4
<1>4. Working'
  BY <1>1 DEF DInv, Working
<1>5. ASSUME NEW d \in CRDs, Alone(d)
      PROVE  Linked(d)' /\ OneEdit(d)' /\ Own(d)' /\ Progress(d)'
  <2>0. Linked(d) /\ OneEdit(d) /\ Own(d) /\ Progress(d)
    BY <1>5 DEF DInv
  <2>1. Kept(d)
    BY <1>1 DEF Kept, EntriesFor, RoutesFor
  <2>2. Linked(d)' /\ Own(d)'
    BY <1>1, <2>0, <2>1, KeptQueue, KeptRight
  <2>3. OneEdit(d)'
    BY <1>1, <1>2, <1>3, <2>0 DEF OneEdit, Live
  <2>4. Busy(d)' <=> Busy(d)
    BY <1>1 DEF Busy
  <2>5. ASSUME NEW t \in States \cup {Nothing}, From(d, 1, t)'
        PROVE  IF Busy(d)' THEN Job(d, t)' ELSE Right(d, t)'
    <3>1. From(d, 1, t)
      BY <1>1, <2>5, KeptQueue
    <3>2. IF Busy(d) THEN Job(d, t) ELSE Right(d, t)
      BY <2>0, <3>1 DEF Progress
    <3> QED
      BY <1>1, <2>1, <2>4, <3>2, KeptRight
  <2> QED
    BY <2>2, <2>3, <2>5 DEF Progress
<1> QED
  BY <1>4, <1>5 DEF DInv, Alone, Endangering

\* The informer tells of a change: a new end of the chain.
LEMMA NotifyKeepsDefined ==
  ASSUME TypeOK, DInv, NEW c \in CRDs, Notify(c)
  PROVE  DInv'
<1> DEFINE n == [crd |-> c, old |-> known[c], cur |-> host[c]]
<1>1. /\ n \in Notes /\ notes' = Append(notes, n) /\ notes \in Seq(Notes)
      /\ known' = [known EXCEPT ![c] = host[c]] /\ known \in [CRDs -> States \cup {Nothing}]
      /\ UNCHANGED <<host, pc, gone, new, discovery, storages, scopes, routes, priority>>
      /\ n.crd = c /\ n.old = known[c] /\ n.cur = host[c]
  BY DEF Notify, TypeOK, Notes, tables
<1> HIDE DEF n
<1>2. /\ Len(notes') = Len(notes) + 1 /\ notes'[Len(notes) + 1] = n
      /\ Len(notes) \in Nat /\ \A k \in 1..Len(notes) : notes'[k] = notes[k]
  BY <1>1
<1>3. Working'
  BY <1>1 DEF DInv, Working
<1>4. ASSUME NEW d \in CRDs, Alone(d)
      PROVE  Linked(d)' /\ OneEdit(d)' /\ Own(d)' /\ Progress(d)'
  <2>0. Linked(d) /\ OneEdit(d) /\ Own(d) /\ Progress(d)
    BY <1>4 DEF DInv
  <2>1. Kept(d) /\ (Busy(d)' <=> Busy(d))
    BY <1>1 DEF Kept, EntriesFor, RoutesFor, Busy
  <2>2. \A i \in 1..Len(notes) + 1 : \A t : From(d, i, t)' <=> From(d, i, t)
    <3>1. (n.crd = d => n.old = known[d]) /\ (n.crd # d => known'[d] = known[d])
      BY <1>1
    <3> QED
      BY <1>1, <3>1, FromAppend
  <2>3. OneEdit(d)' /\ Own(d)'
    <3>1. OneEdit(d)'
      BY <1>1, <2>0 DEF OneEdit, Live
    <3> QED
      BY <2>0, <2>1, <3>1, KeptRight
  <2>4. ASSUME NEW i \in 1..Len(notes'), NEW m \in Notes, m = notes'[i], m.crd = d
        PROVE  /\ From(d, i + 1, m.cur)'
               /\ IsUpdate(m) /\ ~m.cur.terminating => ~m.old.terminating
    <3>1. CASE i \in 1..Len(notes)
      <4>1. /\ m = notes[i] /\ i + 1 \in 1..Len(notes) + 1
            /\ From(d, i + 1, m.cur)
            /\ IsUpdate(m) /\ ~m.cur.terminating => ~m.old.terminating
        BY <1>2, <2>0, <2>4, <3>1 DEF Linked
      <4>2. From(d, i + 1, m.cur)'
        BY <2>2, <4>1
      <4> QED
        BY <4>1, <4>2
    <3>2. CASE i = Len(notes) + 1
      <4>1. m = n /\ d = c /\ known'[d] = m.cur
        BY <1>1, <1>2, <2>4, <3>2
      <4>2. From(d, i + 1, m.cur)'
        BY <1>2, <3>2, <4>1 DEF From
      <4>3. IsUpdate(m) /\ ~m.cur.terminating => ~m.old.terminating
        BY <1>1, <2>0, <4>1 DEF IsUpdate, OneEdit, Live, Notify
      <4> QED
        BY <4>2, <4>3
    <3> QED
      BY <1>2, <3>1, <3>2
  <2>5. Linked(d)'
    <3>1. ASSUME NEW i \in 1..Len(notes'), NEW m, m = notes'[i] PROVE m \in Notes
      BY <1>1, <3>1
    <3> QED
      BY <2>4, <3>1 DEF Linked, IsUpdate
  <2>6. ASSUME NEW t \in States \cup {Nothing}, From(d, 1, t)'
        PROVE  IF Busy(d)' THEN Job(d, t)' ELSE Right(d, t)'
    <3>1. From(d, 1, t)
      BY <1>2, <2>2, <2>6
    <3>2. IF Busy(d) THEN Job(d, t) ELSE Right(d, t)
      BY <2>0, <3>1 DEF Progress
    <3> QED
      BY <1>1, <2>1, <3>2, KeptRight
  <2> QED
    BY <2>3, <2>5, <2>6 DEF Progress
<1> QED
  BY <1>3, <1>4 DEF DInv, Alone, Endangering
\* The handler takes a notification: the tables are as the state before says.
LEMMA TakeKeepsDefined ==
  ASSUME TypeOK, DInv,
         \/ Ignore \/ addCustomResourceDefinition
         \/ updateCustomResourceDefinition \/ deleteCustomResourceDefinition
  PROVE  DInv'
<1>1. PICK n \in Notes :
        /\ n = Head(notes) /\ n = notes[1] /\ notes # << >> /\ notes \in Seq(Notes)
        /\ pc = "idle" /\ notes' = Tail(notes)
        /\ UNCHANGED <<host, known, discovery, storages, scopes, routes, priority>>
        /\ \/ Ignored(n) /\ pc' = "idle" /\ gone' = Nothing /\ new' = Nothing
           \/ /\ IsAdd(n) /\ ~Ignored(n)
              /\ pc' = "gate" /\ gone' = Nothing /\ new' = CRD(n)
           \/ /\ IsUpdate(n) /\ ~Ignored(n)
              /\ pc' = "withdraw" /\ gone' = n.crd /\ new' = CRD(n)
           \/ /\ IsDelete(n)
              /\ pc' = "withdraw" /\ gone' = n.crd /\ new' = Nothing
  <2>1. notes # << >> /\ notes \in Seq(Notes)
    BY DEF TypeOK, Ignore, addCustomResourceDefinition,
           updateCustomResourceDefinition, deleteCustomResourceDefinition
  <2>2. Head(notes) \in Notes /\ Head(notes) = notes[1]
    BY <2>1
  <2> QED
    BY <2>1, <2>2 DEF Ignore, addCustomResourceDefinition, TakeNote, tables,
                      updateCustomResourceDefinition, deleteCustomResourceDefinition
<1>2. /\ n.crd \in CRDs /\ n.old \in States \cup {Nothing}
      /\ n.cur \in States \cup {Nothing} /\ n.old # n.cur
      /\ Len(notes) \in Nat /\ 1 \in 1..Len(notes)
  BY <1>1 DEF Notes
<1>3. /\ CRD(n).crd = n.crd /\ CRD(n).spec = n.cur.spec
      /\ CRD(n).terminating = n.cur.terminating
      /\ n.cur # Nothing => CRD(n) \in Addeds /\ CRD(n) # Nothing
  BY <1>2 DEF CRD, Addeds, States
<1>4. Working'
  BY <1>1, <1>2, <1>3 DEF Working, Removing, IsUpdate
<1>5. ASSUME NEW d \in CRDs, Alone(d)
      PROVE  Linked(d)' /\ OneEdit(d)' /\ Own(d)' /\ Progress(d)'
  <2>0. Linked(d) /\ OneEdit(d) /\ Own(d) /\ Progress(d)
    BY <1>5 DEF DInv
  <2>1. Kept(d) /\ ~Busy(d)
    BY <1>1 DEF Kept, EntriesFor, RoutesFor, Busy, Removing, Adding
  <2>2. OneEdit(d)' /\ Own(d)'
    BY <1>1, <2>0, <2>1, KeptRight DEF OneEdit, Live
  <2>3. \A i \in 1..Len(notes) : \A t : From(d, i, t)' <=> From(d, i + 1, t)
    BY <1>1, FromTail
  <2>4. Linked(d)'
    <3>1. ASSUME NEW i \in 1..Len(notes'), NEW m, m = notes'[i], m.crd = d
          PROVE  /\ From(d, i + 1, m.cur)'
                 /\ IsUpdate(m) /\ ~m.cur.terminating => ~m.old.terminating
      <4>1. i + 1 \in 1..Len(notes) /\ m = notes[i + 1]
        BY <1>1, <1>2, <3>1
      <4>2. /\ From(d, i + 1 + 1, m.cur)
            /\ IsUpdate(m) /\ ~m.cur.terminating => ~m.old.terminating
        BY <2>0, <3>1, <4>1 DEF Linked
      <4> QED
        BY <2>3, <4>1, <4>2
    <3> QED
      BY <3>1 DEF Linked, IsUpdate
  <2>5. CASE n.crd # d
    <3>1. ASSUME NEW t, From(d, 2, t) PROVE From(d, 1, t)
      <4>0. /\ Len(notes) \in Nat /\ notes[1].crd # d
            /\ \A k \in 1..Len(notes) : k = 1 \/ k \in 2..Len(notes)
        BY <1>1, <1>2, <2>5
      <4>1. ASSUME NEW j \in 2..Len(notes), notes[j].crd = d, notes[j].old = t,
                   \A k \in 2..(j - 1) : notes[k].crd # d
            PROVE  From(d, 1, t)
        <5>1. j \in 1..Len(notes) /\ \A k \in 1..(j - 1) : k = 1 \/ k \in 2..(j - 1)
          BY <4>0
        <5>2. \A k \in 1..(j - 1) : notes[k].crd # d
          BY ONLY <4>0, <4>1, <5>1
        <5> QED BY <4>1, <5>1, <5>2 DEF From
      <4>2. ASSUME t = known[d], \A k \in 2..Len(notes) : notes[k].crd # d
            PROVE  From(d, 1, t)
        <5>1. \A k \in 1..Len(notes) : notes[k].crd # d
          BY ONLY <4>0, <4>2
        <5> QED BY <4>2, <5>1 DEF From
      <4> QED
        BY <3>1, <4>1, <4>2 DEF From
    <3>2. ~Busy(d)'
      BY <1>1, <1>3, <2>5 DEF Busy, Removing, Adding
    <3>3. ASSUME NEW t \in States \cup {Nothing}, From(d, 1, t)' PROVE Right(d, t)'
      <4>1. From(d, 1, t)
        BY <1>2, <2>3, <3>1, <3>3
      <4> QED
        BY <2>0, <2>1, <4>1, KeptRight DEF Progress
    <3> QED
      BY <2>2, <2>4, <3>2, <3>3 DEF Progress
  <2>6. CASE n.crd = d
    <3>1. From(d, 1, n.old)
      BY <1>1, <1>2, <2>6 DEF From
    <3>2. Right(d, n.old)
      BY <1>2, <2>0, <2>1, <3>1 DEF Progress
    <3>3. /\ From(d, 2, n.cur)
          /\ IsUpdate(n) /\ ~n.cur.terminating => ~n.old.terminating
      <4>1. notes[1] = n /\ 1 \in 1..Len(notes)
        BY <1>1, <1>2
      <4>2. /\ From(d, 1 + 1, n.cur)
            /\ IsUpdate(n) /\ ~n.cur.terminating => ~n.old.terminating
        BY <2>0, <2>6, <4>1, Zenon DEF Linked
      <4> QED
        BY <4>2
    <3>4. ASSUME NEW t, From(d, 1, t)' PROVE t = n.cur
      <4>1. From(d, 2, t)
        BY <1>2, <2>3, <3>4
      <4> QED
        BY <1>1, <3>3, <4>1, FromUnique
    <3>5. IF Busy(d)' THEN Job(d, n.cur)' ELSE Right(d, n.cur)'
      <4>1. CASE Ignored(n) /\ pc' = "idle"
        <5>1. ~Busy(d)'
          BY <4>1 DEF Busy, Removing, Adding
        <5>2. Right(d, n.cur)
          <6>1. CASE IsAdd(n) /\ d \in Reserved
            BY <1>2, <3>2, <6>1 DEF Right, IsAdd
          <6>2. CASE IsUpdate(n) /\ n.cur.terminating
            BY <6>2 DEF Right, IsUpdate
          <6>3. CASE IsUpdate(n) /\ ~n.cur.terminating /\ n.old.spec = n.cur.spec
            <7>1. ~n.old.terminating /\ n.old \in States /\ n.cur \in States
              BY <1>2, <3>3, <6>3 DEF IsUpdate
            <7>2. n.old = n.cur
              BY <6>3, <7>1 DEF States
            <7> QED
              BY <1>2, <7>2
          <6>4. CASE IsUpdate(n) /\ ~n.cur.terminating /\ d \in Reserved
            BY <3>2, <3>3, <6>4 DEF Right, IsUpdate
          <6> QED
            BY <2>6, <4>1, <6>1, <6>2, <6>3, <6>4 DEF Ignored
        <5> QED
          BY <2>1, <5>1, <5>2, KeptRight
      <4>2. CASE IsAdd(n) /\ ~Ignored(n) /\ pc' = "gate" /\ new' = CRD(n)
        <5>1. n.cur # Nothing /\ d \notin Reserved
          BY <1>2, <2>6, <4>2 DEF IsAdd, Ignored
        <5>2. Empty(d)
          BY <3>2, <4>2 DEF Right, IsAdd
        <5>3. Empty(d)'
          BY <2>1, <5>2 DEF Kept, Empty, Bare
        <5>4. Job(d, n.cur)'
          BY <1>3, <4>2, <5>1, <5>3 DEF Job
        <5>5. Busy(d)'
          BY <1>3, <2>6, <4>2 DEF Busy, Adding
        <5> QED
          BY <5>4, <5>5
      <4>3. CASE IsUpdate(n) /\ ~Ignored(n) /\ pc' = "withdraw" /\ gone' = n.crd
                 /\ new' = CRD(n)
        <5>1. n.cur # Nothing /\ d \notin Reserved
          BY <2>6, <4>3 DEF IsUpdate, Ignored
        <5>2. Job(d, n.cur)'
          BY <1>3, <4>3, <5>1 DEF Job
        <5>3. Busy(d)'
          BY <2>6, <4>3 DEF Busy, Removing
        <5> QED
          BY <5>2, <5>3
      <4>4. CASE IsDelete(n) /\ pc' = "withdraw" /\ gone' = n.crd /\ new' = Nothing
        <5>1. Job(d, n.cur)'
          BY <4>4 DEF Job, IsDelete
        <5>2. Busy(d)'
          BY <2>6, <4>4 DEF Busy, Removing
        <5> QED
          BY <5>1, <5>2
      <4> QED
        BY <1>1, <4>1, <4>2, <4>3, <4>4
    <3>6. ASSUME NEW t \in States \cup {Nothing}, From(d, 1, t)'
          PROVE  IF Busy(d)' THEN Job(d, t)' ELSE Right(d, t)'
      BY <3>4, <3>5, <3>6
    <3> QED
      BY <2>2, <2>4, <3>6 DEF Progress
  <2> QED
    BY <2>5, <2>6
<1> QED
  BY <1>4, <1>5 DEF DInv, Alone, Endangering

\* The steps of the handler while it removes or adds the CRD c.
Remove(c) == /\ Withdraw \/ RemoveStorage \/ RemoveScope \/ RemoveRoutes
             /\ c = gone
Add(c) == /\ TurnAway \/ Announce \/ AddStorage \/ AddScope \/ AddRoutes
          /\ c = new.crd
Work(c) == Remove(c) \/ Add(c)

\* They touch nothing of another CRD which is alone.
LEMMA WorkSparesOthers ==
  ASSUME TypeOK, Working, NEW c \in CRDs, Work(c), NEW d \in CRDs \ {c}, Alone(d),
         Own(d)
  PROVE  Kept(d) /\ ~Busy(d) /\ ~Busy(d)'
<1> USE DEF hostVars, tables, requests
<1>1. /\ PluralOf[d] # PluralOf[c] /\ <<PluralOf[d], PluralOf[c]>> \notin StartsWith
      /\ PluralOf[c] \in Plurals /\ PluralOf[d] \in Plurals
  BY NamesAssumption DEF Alone, Endangering
<1>2. CASE Remove(c)
  <2>0. /\ pc \in Removing /\ gone = c /\ (new = Nothing \/ new.crd = c)
        /\ pc' \in Removing => gone' = c
        /\ pc' \in Adding => new'.crd = c
    BY <1>2 DEF Remove, Withdraw, RemoveStorage, RemoveScope, RemoveRoutes, Working,
                Removing, Adding
  <2>1. ~Busy(d) /\ ~Busy(d)'
    BY <2>0 DEF Busy, Removing, Adding
  <2>2. CASE Withdraw
    BY <1>1, <2>0, <2>1, <2>2 DEF Withdraw, Kept, EntriesFor, RoutesFor
  <2>3. CASE RemoveStorage
    BY <1>1, <2>0, <2>1, <2>3 DEF RemoveStorage, Kept, EntriesFor, RoutesFor, TypeOK
  <2>4. CASE RemoveScope
    BY <1>1, <2>0, <2>1, <2>4 DEF RemoveScope, Kept, EntriesFor, RoutesFor, TypeOK
  <2>5. CASE RemoveRoutes
    <3>1. ASSUME NEW r \in RoutesFor(d) PROVE ~PathStartsWith(r, c)
      <4>1. r.plural = PluralOf[d] /\ (r.base = Base(d) \/ r \in ListForAllNamespaces(d))
        BY DEF Own, RoutesFor
      <4>2. r.base = "namespace" => d \in Namespaced
        BY <4>1 DEF Base, ListForAllNamespaces, RoutesAt
      <4> QED
        BY <1>1, <4>1, <4>2 DEF PathStartsWith, Alone, Endangering
    <3>2. RoutesFor(d)' = RoutesFor(d)
      BY <2>0, <2>5, <3>1 DEF RemoveRoutes, RoutesFor
    <3> QED
      BY <2>0, <2>1, <2>5, <3>2 DEF RemoveRoutes, Kept, EntriesFor
  <2> QED
    BY <1>2, <2>1, <2>2, <2>3, <2>4, <2>5 DEF Remove
<1>3. CASE Add(c)
  <2>0. /\ pc \in Adding /\ new.crd = c
        /\ pc' \in Adding \cup {"idle"}
        /\ pc' \in Adding => new' = new
    BY <1>3 DEF Add, TurnAway, Announce, AddStorage, AddScope, AddRoutes, Adding
  <2>1. ~Busy(d) /\ ~Busy(d)'
    BY <2>0 DEF Busy, Removing, Adding
  <2>2. CASE TurnAway
    BY <2>1, <2>2 DEF TurnAway, Kept, EntriesFor, RoutesFor
  <2>3. CASE Announce
    <3>1. \A f \in Entries(new) : f.plural = PluralOf[c]
      BY <2>0 DEF Entries
    <3>2. EntriesFor(d)' = EntriesFor(d)
      BY <1>1, <2>3, <3>1 DEF Announce, EntriesFor
    <3> QED
      BY <1>1, <2>0, <2>1, <2>3, <3>2 DEF Announce, Kept, RoutesFor, TypeOK
  <2>4. CASE AddStorage
    BY <1>1, <2>0, <2>1, <2>4 DEF AddStorage, Kept, EntriesFor, RoutesFor, TypeOK
  <2>5. CASE AddScope
    BY <1>1, <2>0, <2>1, <2>5 DEF AddScope, Kept, EntriesFor, RoutesFor, TypeOK
  <2>6. CASE AddRoutes
    <3>1. \A r \in RoutesOf(new.crd, new.spec) : r.plural = PluralOf[c]
      BY <2>0 DEF RoutesOf, RoutesAt, ListForAllNamespaces
    <3>2. RoutesFor(d)' = RoutesFor(d)
      BY <1>1, <2>6, <3>1 DEF AddRoutes, RoutesFor
    <3> QED
      BY <2>1, <2>6, <3>2 DEF AddRoutes, Kept, EntriesFor
  <2> QED
    BY <1>3, <2>1, <2>2, <2>3, <2>4, <2>5, <2>6 DEF Add
<1> QED
  BY <1>2, <1>3 DEF Work
\* The priority and the routes under its plural stay its own.
LEMMA WorkKeepsOwn ==
  ASSUME TypeOK, NEW c \in CRDs, Work(c), Own(c)
  PROVE  Own(c)'
<1> USE DEF hostVars, tables, requests
<1>1. CASE Announce /\ c = new.crd
  <2>1. /\ UNCHANGED routes /\ PluralOf[c] \in Plurals
        /\ priority' = priority \/ priority' = [priority EXCEPT ![PluralOf[c]] = PriorityOf[c]]
    BY <1>1 DEF Announce
  <2>2. priority'[PluralOf[c]] \in {Nothing, PriorityOf[c]}
    BY <2>1 DEF Own, TypeOK
  <2> QED
    BY <2>1, <2>2 DEF Own, RoutesFor
<1>2. CASE RemoveRoutes
  <2>1. routes' \subseteq routes /\ UNCHANGED priority
    BY <1>2 DEF RemoveRoutes
  <2> QED
    BY <2>1 DEF Own, RoutesFor
<1>3. CASE AddRoutes /\ c = new.crd
  <2>1. /\ routes' = routes \cup RoutesOf(c, new.spec) /\ UNCHANGED priority
        /\ \A r \in RoutesOf(c, new.spec) :
             r.base = Base(c) \/ r \in ListForAllNamespaces(c)
    BY <1>3 DEF AddRoutes, RoutesOf, RoutesAt, ListForAllNamespaces
  <2> QED
    BY <2>1 DEF Own, RoutesFor
<1>4. CASE UNCHANGED <<routes, priority>>
  BY <1>4 DEF Own, RoutesFor
<1>5. \/ Announce /\ c = new.crd
      \/ RemoveRoutes
      \/ AddRoutes /\ c = new.crd
      \/ UNCHANGED <<routes, priority>>
  BY DEF Work, Remove, Add, Withdraw, RemoveStorage, RemoveScope, TurnAway, AddStorage,
         AddScope
<1> QED
  BY <1>1, <1>2, <1>3, <1>4, <1>5

\* Removing the CRD c, the handler comes nearer to what the state t says.
LEMMA RemoveComesNearer ==
  ASSUME TypeOK, Working, NEW c \in CRDs, Remove(c), Own(c),
         NEW t \in States \cup {Nothing}, Job(c, t)
  PROVE  IF Busy(c)' THEN Job(c, t)' ELSE Right(c, t)'
<1> USE DEF hostVars, tables, requests
<1>0. /\ pc \in Removing /\ gone = c /\ PluralOf[c] \in Plurals
      /\ <<PluralOf[c], PluralOf[c]>> \in StartsWith
      /\ new = Nothing \/ (new # Nothing /\ new.crd = c)
  BY DEF Remove, Withdraw, RemoveStorage, RemoveScope, RemoveRoutes, Working, Removing
<1>1. CASE Withdraw
  <2>1. /\ pc = "withdraw" /\ pc' = "remove" /\ EntriesFor(c)' = {}
        /\ UNCHANGED <<gone, new, storages, scopes, routes, priority>>
    BY <1>0, <1>1 DEF Withdraw, EntriesFor
  <2>3. Busy(c)'
    BY <1>0, <2>1 DEF Busy, Removing
  <2>4. Job(c, t)'
    BY <2>1 DEF Job
  <2> QED
    BY <2>3, <2>4
<1>2. CASE RemoveStorage
  <2>1. /\ pc = "remove" /\ pc' = "removeScope" /\ storages'[PluralOf[c]] = Nothing
        /\ UNCHANGED <<gone, new, discovery, scopes, routes, priority>>
    BY <1>0, <1>2 DEF RemoveStorage, TypeOK
  <2>3. Busy(c)'
    BY <1>0, <2>1 DEF Busy, Removing
  <2>4. Job(c, t)'
    BY <2>1 DEF Job, EntriesFor
  <2> QED
    BY <2>3, <2>4
<1>3. CASE RemoveScope
  <2>1. /\ pc = "removeScope" /\ pc' = "removeRoutes" /\ scopes'[PluralOf[c]] = Nothing
        /\ UNCHANGED <<gone, new, discovery, storages, routes, priority>>
    BY <1>0, <1>3 DEF RemoveScope, TypeOK
  <2>3. Busy(c)'
    BY <1>0, <2>1 DEF Busy, Removing
  <2>4. Job(c, t)'
    BY <2>1 DEF Job, EntriesFor
  <2> QED
    BY <2>3, <2>4
<1>4. CASE RemoveRoutes
  <2>1. /\ pc = "removeRoutes" /\ pc' = IF new = Nothing THEN "idle" ELSE "gate"
        /\ routes' \subseteq routes
        /\ \A r \in routes' : ~(r.base = Base(c) /\ r.plural = PluralOf[c])
        /\ UNCHANGED <<new, discovery, storages, scopes, priority>>
    BY <1>0, <1>4 DEF RemoveRoutes, PathStartsWith
  <2>2. RoutesFor(c)' \subseteq RoutesFor(c)
    BY <2>1 DEF RoutesFor
  <2>3. RoutesFor(c)' \subseteq ListForAllNamespaces(c)
    BY <2>1, <2>2 DEF Own, RoutesFor
  <2>5. Empty(c)'
    BY <2>1, <2>3 DEF Job, Empty, Bare, EntriesFor
  <2>6. CASE new = Nothing
    <3>1. t = Nothing /\ ~Busy(c)'
      BY <2>1, <2>6 DEF Job, Busy, Removing, Adding
    <3> QED
      BY <2>5, <3>1 DEF Right
  <2>7. CASE new # Nothing
    <3>1. pc' = "gate" /\ Busy(c)'
      BY <1>0, <2>1, <2>7 DEF Busy, Adding
    <3>2. Job(c, t)'
      BY <2>1, <2>5, <2>7, <3>1 DEF Job
    <3> QED
      BY <3>1, <3>2
  <2> QED
    BY <2>6, <2>7
<1> QED
  BY <1>1, <1>2, <1>3, <1>4 DEF Remove

\* And adding it.
LEMMA AddComesNearer ==
  ASSUME TypeOK, NEW c \in CRDs, Add(c), Own(c),
         NEW t \in States \cup {Nothing}, Job(c, t)
  PROVE  IF Busy(c)' THEN Job(c, t)' ELSE Right(c, t)'
<1> USE DEF hostVars, tables, requests
<1>0. /\ pc \in Adding /\ new.crd = c /\ new \in Addeds /\ new # Nothing
      /\ PluralOf[c] \in Plurals /\ PriorityOf[c] \in Nat
      /\ t # Nothing /\ c \notin Reserved
      /\ t.spec = new.spec /\ t.terminating = new.terminating
  <2>1. pc \in Adding /\ new.crd = c
    BY DEF Add, TurnAway, Announce, AddStorage, AddScope, AddRoutes, Adding
  <2>2. new \in Addeds /\ new # Nothing
    BY <2>1 DEF TypeOK, Addeds
  <2> QED
    BY <2>1, <2>2 DEF Job
<1>1. CASE TurnAway
  <2>1. /\ pc = "gate" /\ pc' = "idle" /\ ~Addable(new)
        /\ UNCHANGED <<discovery, storages, scopes, routes, priority>>
    BY <1>1 DEF TurnAway
  <2>2. ~Busy(c)'
    BY <2>1 DEF Busy, Removing, Adding
  <2>3. Empty(c)'
    BY <2>1 DEF Job, Empty, Bare, EntriesFor, RoutesFor
  <2>4. canBeAddedToStorage(c)
    BY <1>0 DEF Own, canBeAddedToStorage
  <2>5. t.terminating \/ ~t.spec.served
    BY <1>0, <2>1, <2>4 DEF Addable
  <2> QED
    BY <1>0, <2>2, <2>3, <2>5 DEF Right
<1>2. CASE Announce
  <2>1. /\ pc = "gate" /\ pc' = "add" /\ Addable(new)
        /\ UNCHANGED <<new, storages, scopes, routes>>
        /\ discovery' = {e \in discovery : \A f \in Entries(new) :
                           <<e.plural, e.sub>> # <<f.plural, f.sub>>} \cup Entries(new)
    BY <1>0, <1>2 DEF Announce
  <2>4. \A f \in Entries(new) : f.plural = PluralOf[c]
    BY <1>0 DEF Entries
  <2>5. EntriesFor(c)' = Entries(new)
    <3>1. EntriesFor(c) = {}
      BY <2>1 DEF Job, Empty
    <3> QED
      BY <2>1, <2>4, <3>1 DEF EntriesFor
  <2>6. Bare(c)'
    BY <2>1 DEF Job, Empty, Bare, RoutesFor
  <2>7. Entries(new)' = Entries(new)
    BY <2>1 DEF Entries
  <2>8. Job(c, t)'
    BY <1>0, <2>1, <2>5, <2>6, <2>7 DEF Job, Addable
  <2>9. Busy(c)'
    BY <1>0, <2>1 DEF Busy, Adding
  <2> QED
    BY <2>8, <2>9
<1>3. CASE AddStorage
  <2>1. /\ pc = "add" /\ pc' = "addScope" /\ storages'[PluralOf[c]] = Made(new)
        /\ UNCHANGED <<new, discovery, scopes, routes, priority>>
    BY <1>0, <1>3 DEF AddStorage, TypeOK
  <2>2. Busy(c)'
    BY <1>0, <2>1 DEF Busy, Adding
  <2>3. Job(c, t)'
    BY <1>0, <2>1 DEF Job, EntriesFor, Bare, RoutesFor, Entries, Made
  <2> QED
    BY <2>2, <2>3
<1>4. CASE AddScope
  <2>1. /\ pc = "addScope" /\ pc' = "addRoutes" /\ scopes'[PluralOf[c]] = Made(new)
        /\ UNCHANGED <<new, discovery, storages, routes, priority>>
    BY <1>0, <1>4 DEF AddScope, TypeOK
  <2>2. Busy(c)'
    BY <1>0, <2>1 DEF Busy, Adding
  <2>3. Job(c, t)'
    BY <1>0, <2>1 DEF Job, EntriesFor, Bare, RoutesFor, Entries, Made
  <2> QED
    BY <2>2, <2>3
<1>5. CASE AddRoutes
  <2>1. /\ pc = "addRoutes" /\ pc' = "idle"
        /\ routes' = routes \cup RoutesOf(c, t.spec)
        /\ UNCHANGED <<discovery, storages, scopes, priority>>
    BY <1>0, <1>5 DEF AddRoutes
  <2>2. \A r \in RoutesOf(c, t.spec) :
          r.plural = PluralOf[c]
    BY DEF RoutesOf, RoutesAt, ListForAllNamespaces
  <2>3. RoutesFor(c)' = RoutesFor(c) \cup RoutesOf(c, t.spec)
    BY <2>1, <2>2 DEF RoutesFor
  <2>4. ~Busy(c)'
    BY <2>1 DEF Busy, Removing, Adding
  <2>5. /\ t.spec.served /\ ~t.terminating
        /\ EntriesFor(c) = Entries(new) /\ Bare(c)
        /\ storages[PluralOf[c]] = Made(new) /\ scopes[PluralOf[c]] = Made(new)
    BY <1>0, <2>1 DEF Job
  <2> DEFINE n == [crd |-> c, spec |-> t.spec]
  <2>6. Made(n) = Made(new) /\ Entries(n) = Entries(new)
    BY <1>0 DEF Made, Entries
  <2>7. EntriesFor(c)' = Entries(n)
    BY <2>1, <2>5, <2>6 DEF EntriesFor
  <2>8. /\ RoutesOf(c, t.spec) \subseteq RoutesFor(c)'
        /\ RoutesFor(c)' \subseteq RoutesOf(c, t.spec) \cup ListForAllNamespaces(c)
    BY <2>3, <2>5 DEF Bare
  <2>9. Full(c, t.spec)'
    BY <2>1, <2>5, <2>6, <2>7, <2>8 DEF Full
  <2> QED
    BY <1>0, <2>4, <2>5, <2>9 DEF Right
<1> QED
  BY <1>1, <1>2, <1>3, <1>4, <1>5 DEF Add

\* A step of the handler's work.
LEMMA WorkKeepsDefined ==
  ASSUME TypeOK, DInv, NEW c \in CRDs, Work(c)
  PROVE  DInv'
<1>0. UNCHANGED <<host, known, notes>>
  BY DEF Work, Remove, Add, Withdraw, RemoveStorage, RemoveScope, RemoveRoutes, TurnAway,
         Announce, AddStorage, AddScope, AddRoutes, hostVars
<1>1. Working'
  <2>1. CASE Remove(c)
    BY <2>1 DEF Remove, Withdraw, RemoveStorage, RemoveScope, RemoveRoutes, DInv,
                Working, Removing
  <2>2. CASE Add(c)
    BY <2>2 DEF Add, TurnAway, Announce, AddStorage, AddScope, AddRoutes, Working, Removing
  <2> QED
    BY <2>1, <2>2 DEF Work
<1>2. ASSUME NEW d \in CRDs, Alone(d)
      PROVE  Linked(d)' /\ OneEdit(d)' /\ Own(d)' /\ Progress(d)'
  <2>0. Linked(d) /\ OneEdit(d) /\ Own(d) /\ Progress(d)
    BY <1>2 DEF DInv
  <2>1. Linked(d)' /\ OneEdit(d)'
    BY <1>0, <2>0, KeptQueue DEF OneEdit, Live
  <2>2. ASSUME NEW t, From(d, 1, t)' PROVE From(d, 1, t)
    BY <1>0, <2>2, KeptQueue
  <2>3. CASE d # c
    <3>1. Kept(d) /\ ~Busy(d) /\ ~Busy(d)'
      BY <1>2, <2>3, WorkSparesOthers DEF DInv
    <3>2. ASSUME NEW t \in States \cup {Nothing}, From(d, 1, t)' PROVE Right(d, t)'
      BY <2>0, <2>2, <3>1, <3>2, KeptRight DEF Progress
    <3> QED
      BY <2>0, <2>1, <3>1, <3>2, KeptRight DEF Progress
  <2>4. CASE d = c
    <3>1. Busy(c)
      BY DEF Work, Remove, Add, Withdraw, RemoveStorage, RemoveScope, RemoveRoutes, TurnAway,
             Announce, AddStorage, AddScope, AddRoutes, Busy, Removing, Adding
    <3>2. ASSUME NEW t \in States \cup {Nothing}, From(c, 1, t)
          PROVE  IF Busy(c)' THEN Job(c, t)' ELSE Right(c, t)'
      <4>1. Job(c, t)
        BY <2>0, <2>4, <3>1, <3>2 DEF Progress
      <4> QED
        BY <2>0, <2>4, <4>1, RemoveComesNearer, AddComesNearer DEF Work, DInv
    <3>3. Own(c)'
      BY <2>0, <2>4, WorkKeepsOwn
    <3> QED
      BY <2>1, <2>2, <2>4, <3>2, <3>3 DEF Progress
  <2> QED
    BY <2>3, <2>4
<1> QED
  BY <1>1, <1>2 DEF DInv, Alone, Endangering
\* Every step preserves DInv, when the informer misses no state.
LEMMA DefinedInductive ==
  ASSUME ~Relists, IInv, DInv, [Next]_vars
  PROVE  DInv'
<1>0. TypeOK /\ ReadersRead
  BY DEF IInv
<1>1. CASE Handle
  <2>1. CASE \/ Ignore \/ addCustomResourceDefinition
             \/ updateCustomResourceDefinition \/ deleteCustomResourceDefinition
    BY <1>0, <2>1, TakeKeepsDefined
  <2>2. CASE WaitForLock \/ Lock
    BY <2>2, QuietKeepsDefined DEF WaitForLock, Lock, hostVars, tables
  <2>3. CASE Withdraw \/ RemoveStorage \/ RemoveScope \/ RemoveRoutes
    <3>1. gone \in CRDs
      BY <1>0, <2>3 DEF TypeOK, Withdraw, RemoveStorage, RemoveScope, RemoveRoutes, Removing
    <3>2. Work(gone)
      BY <2>3 DEF Work, Remove
    <3> QED
      BY <1>0, <3>1, <3>2, WorkKeepsDefined
  <2>4. CASE TurnAway \/ Announce \/ AddStorage \/ AddScope \/ AddRoutes
    <3>1. new.crd \in CRDs
      <4>1. new \in Addeds
        BY <1>0, <2>4 DEF TypeOK, TurnAway, Announce, AddStorage, AddScope, AddRoutes, Adding
      <4> QED
        BY <4>1 DEF Addeds
    <3>2. Work(new.crd)
      BY <2>4 DEF Work, Add
    <3> QED
      BY <1>0, <3>1, <3>2, WorkKeepsDefined
  <2> QED
    BY <1>1, <2>1, <2>2, <2>3, <2>4 DEF Handle
<1>2. ASSUME NEW d \in CRDs,
             \/ \E s \in Specs : CreateCRD(d, s) \/ ChangeSpec(d, s)
             \/ TerminateCRD(d) \/ FinalizeCRD(d)
      PROVE  DInv'
  BY <1>0, <1>2, EditKeepsDefined
<1>3. ASSUME NEW d \in CRDs, Notify(d) PROVE DInv'
  BY <1>0, <1>3, NotifyKeepsDefined
<1>4. ASSUME NEW d \in CRDs, ListAPIService(d) PROVE DInv'
  BY <1>4, QuietKeepsDefined DEF ListAPIService, tables
<1>5. ASSUME NEW q \in Callers, Serve(q) \/ \E r \in routes : Route(q, r)
      PROVE  DInv'
  BY <1>0, <1>5, RequestStep, QuietKeepsDefined
<1>6. CASE UNCHANGED vars
  BY <1>6, QuietKeepsDefined DEF vars, hostVars, tables
<1> QED
  BY <1>1, <1>2, <1>3, <1>4, <1>5, <1>6 DEF Next

\* Once the handler has caught up, a CRD is served as its spec says, or not at
\* all when it is gone or not served, if the informer tells of every state of
\* it, no other CRD has its plural or a prefix of it, and, when it is
\* namespaced, no cluster-scoped CRD has a plural that "namespaces" begins with.
THEOREM DefinedIsServed ==
  ASSUME ~Relists
  PROVE  Spec => []ServedAsDefined
<1>1. Init => DInv
  BY DefinedAtStart
<1>2. IInv /\ DInv /\ [Next]_vars => DInv'
  BY DefinedInductive
<1>3. DInv /\ TypeOK => ServedAsDefined
  <2> SUFFICES ASSUME DInv, TypeOK, Settled, NEW d \in CRDs, Endangering(d) = {}
               PROVE  LET p == PluralOf[d]
                          n == [crd |-> d, spec |-> host[d].spec]
                      IN /\ Serving(d) =>
                              /\ storages[p] = Made(n) /\ scopes[p] = Made(n)
                              /\ EntriesFor(d) = Entries(n)
                              /\ RoutesOf(d, n.spec) \subseteq RoutesFor(d)
                              /\ RoutesFor(d) \subseteq
                                   RoutesOf(d, n.spec) \cup ListForAllNamespaces(d)
                         /\ host[d] = Nothing \/ (Live(d) /\ ~Serving(d)) =>
                              /\ storages[p] = Nothing /\ scopes[p] = Nothing
                              /\ EntriesFor(d) = {}
                              /\ RoutesFor(d) \subseteq ListForAllNamespaces(d)
    BY DEF ServedAsDefined
  <2>1. From(d, 1, host[d]) /\ ~Busy(d)
    BY DEF From, Settled, Busy, Removing, Adding
  <2>2. Right(d, host[d])
    BY <2>1 DEF DInv, Alone, Progress, TypeOK
  <2>3. ASSUME Serving(d) PROVE Full(d, host[d].spec)
    BY <2>2, <2>3 DEF Right, Serving, Live
  <2>4. ASSUME host[d] = Nothing \/ (Live(d) /\ ~Serving(d)) PROVE Empty(d)
    BY <2>2, <2>4 DEF Right, Serving, Live
  <2> QED
    BY <2>3, <2>4 DEF Full, Empty, Bare
<1>4. IInv => TypeOK
  BY DEF IInv
<1> QED
  BY <1>1, <1>2, <1>3, <1>4, Invariant, PTL DEF Spec

-------------------------------------------------------------------------------
(* The catalog.                                                            *)

\* Behind the refinement: the handler adds no CRD of external-crd's own, and
\* a request is for a plural from the moment it is routed until it is answered.
OthersOnly == new # Nothing => new.crd \notin Reserved
PluralKept ==
  \A q \in Callers : IF call[q].at = "idle" THEN call[q] = Idle
                                            ELSE call[q].plural \in Plurals

CInv == OthersOnly /\ PluralKept

\* A step of the handler.
LEMMA HandleKeepsCatalogued ==
  ASSUME IInv, CInv, Handle
  PROVE  CInv'
<1> USE DEF hostVars, tables, requests
<1>1. UNCHANGED call
  BY HandlerKeepsLock DEF IInv
<1>2. PluralKept'
  BY <1>1 DEF CInv, PluralKept
<1> SUFFICES OthersOnly'
  BY <1>2 DEF CInv
<1>3. CASE Ignore \/ deleteCustomResourceDefinition
  BY <1>3 DEF Ignore, deleteCustomResourceDefinition, TakeNote, OthersOnly, CInv
<1>4. CASE addCustomResourceDefinition \/ updateCustomResourceDefinition
  <2>1. /\ new'.crd = Head(notes).crd
        /\ Head(notes).crd \notin Reserved
    BY <1>4 DEF addCustomResourceDefinition, updateCustomResourceDefinition, TakeNote,
                CRD, Ignored
  <2> QED BY <2>1 DEF OthersOnly
<1>5. CASE WaitForLock \/ Lock
  BY <1>5 DEF WaitForLock, Lock, OthersOnly, CInv
<1>6. CASE Withdraw \/ RemoveStorage \/ RemoveScope \/ RemoveRoutes
  BY <1>6 DEF Withdraw, RemoveStorage, RemoveScope, RemoveRoutes, OthersOnly, CInv
<1>7. CASE TurnAway \/ Announce \/ AddStorage \/ AddScope \/ AddRoutes
  BY <1>7 DEF TurnAway, Announce, AddStorage, AddScope, AddRoutes, OthersOnly, CInv
<1> QED
  BY <1>2, <1>3, <1>4, <1>5, <1>6, <1>7 DEF Handle, CInv

\* What requests ask and have found, as the catalog has it.
Given(c) == IF c.at = "served" THEN {[scope |-> c.scope, storage |-> c.storage]} ELSE {}
Asked == [q \in Callers |-> call[q].plural]
Found == [q \in Callers |-> Given(call[q])]

LEMMA CallStep ==
  ASSUME TypeOK, NEW q \in Callers, NEW c, call' = [call EXCEPT ![q] = c]
  PROVE  /\ Asked' = [Asked EXCEPT ![q] = c.plural]
         /\ Found' = [Found EXCEPT ![q] = Given(c)]
<1>1. \A p \in Callers : call'[p] = IF p = q THEN c ELSE call[p]
  BY DEF TypeOK
<1>2. \A p \in Callers : call'[p].plural = IF p = q THEN c.plural ELSE call[p].plural
  BY <1>1
<1>3. \A p \in Callers : Given(call'[p]) = IF p = q THEN Given(c) ELSE Given(call[p])
  BY <1>1
<1>4. Asked' = [Asked EXCEPT ![q] = c.plural]
  BY <1>2 DEF Asked
<1>5. Found' = [Found EXCEPT ![q] = Given(c)]
  BY <1>3 DEF Found
<1> QED BY <1>4, <1>5

LEMMA Mapped ==
  /\ UNCHANGED InCatalog!catVars <=> UNCHANGED <<scopes, Asked, Found>>
  /\ InCatalog!Init <=> /\ scopes = [p \in Plurals |-> Nothing]
                        /\ Asked = [q \in Callers |-> Nothing]
                        /\ Found = [q \in Callers |-> {}]
  /\ \A q, p : InCatalog!Ask(q, p) <=>
       Asked[q] = Nothing /\ Asked' = [Asked EXCEPT ![q] = p] /\ UNCHANGED <<scopes, Found>>
  /\ \A q : InCatalog!LookUp(q) <=>
       /\ Asked[q] # Nothing /\ Found[q] = {}
       /\ Found' = [Found EXCEPT
                      ![q] = {[scope |-> scopes[Asked[q]], storage |-> scopes[Asked[q]]]}]
       /\ UNCHANGED <<scopes, Asked>>
  /\ \A q : InCatalog!Answer(q) <=>
       /\ Found[q] # {}
       /\ Asked' = [Asked EXCEPT ![q] = Nothing] /\ Found' = [Found EXCEPT ![q] = {}]
       /\ UNCHANGED scopes
BY Zenon DEF InCatalog!catVars, InCatalog!Init, InCatalog!Ask, InCatalog!LookUp, InCatalog!Answer,
  Asked, Found, Given

\* A step of a request: it asks when it is routed, has looked up when it lets go
\* of the lock, and what it does in between the catalog does not see.
LEMMA RequestSeesCatalog ==
  ASSUME IInv, CInv, NEW q \in Callers, Serve(q) \/ \E r \in routes : Route(q, r)
  PROVE  CInv' /\ (InCatalog!Next \/ UNCHANGED InCatalog!catVars)
<1>0. /\ UNCHANGED <<new, scopes>>
      /\ call \in [Callers -> Calls]
      /\ TypeOK /\ LockHeld /\ TablesAgree /\ ReadersRead /\ PluralKept /\ OthersOnly
  BY RequestStep DEF TypeOK, Calls, IInv, CInv
<1>1. OthersOnly'
  BY <1>0 DEF OthersOnly
<1>2. ASSUME NEW c, call' = [call EXCEPT ![q] = c],
             IF c.at = "idle" THEN c = Idle ELSE c.plural \in Plurals
      PROVE  PluralKept'
  BY <1>0, <1>2 DEF PluralKept
<1>3. /\ Asked[q] = call[q].plural /\ Found[q] = Given(call[q])
      /\ Asked \in [Callers -> Plurals \cup {Nothing}] /\ DOMAIN Found = Callers
  BY <1>0 DEF Asked, Found, TypeOK
<1>4. ASSUME NEW c, call' = [call EXCEPT ![q] = c], c.plural = call[q].plural,
             c.at # "served", call[q].at # "served"
      PROVE  UNCHANGED InCatalog!catVars
  <2>1. Asked' = [Asked EXCEPT ![q] = Asked[q]] /\ Found' = [Found EXCEPT ![q] = Found[q]]
    <3>1. Asked' = [Asked EXCEPT ![q] = c.plural] /\ Found' = [Found EXCEPT ![q] = Given(c)]
      BY <1>0, <1>4, CallStep
    <3>2. Given(c) = {} /\ Given(call[q]) = {}
      BY <1>4 DEF Given
    <3> QED BY <1>3, <1>4, <3>1, <3>2
  <2>2. Asked' = Asked /\ Found' = Found
    BY <1>3, <2>1 DEF Found
  <2> QED BY <1>0, <2>2, Mapped
<1>5. ASSUME NEW r \in routes, Route(q, r)
      PROVE  PluralKept' /\ InCatalog!Next
  <2> DEFINE c == [Idle EXCEPT !.at = "routed", !.plural = r.plural]
  <2>1. call' = [call EXCEPT ![q] = c] /\ call[q].at = "idle"
    BY <1>5 DEF Route
  <2>2. c.at = "routed" /\ c.plural = r.plural /\ r.plural \in Plurals
    BY <1>0 DEF TypeOK, Routes, Idle
  <2>3. Asked[q] = Nothing /\ call[q] = Idle /\ Given(c) = {} /\ Found[q] = {}
    BY <1>0, <1>3, <2>1, <2>2 DEF PluralKept, Idle, Given
  <2> HIDE DEF c
  <2>4. Asked' = [Asked EXCEPT ![q] = r.plural] /\ Found' = [Found EXCEPT ![q] = {}]
    <3>1. Asked' = [Asked EXCEPT ![q] = c.plural] /\ Found' = [Found EXCEPT ![q] = Given(c)]
      BY ONLY <1>0, <2>1, CallStep
    <3> QED BY <2>2, <2>3, <3>1
  <2>5. Found' = Found
    BY <2>3, <2>4 DEF Found
  <2>6. InCatalog!Ask(q, r.plural)
    BY <1>0, <2>3, <2>4, <2>5, Mapped
  <2>7. PluralKept'
    BY <1>2, <2>1, <2>2
  <2> QED BY <2>2, <2>6, <2>7 DEF InCatalog!Next
<1>6. CASE RLock(q)
  <2> DEFINE c == [call[q] EXCEPT !.at = "locked"]
  <2>1. call' = [call EXCEPT ![q] = c] /\ call[q].at = "routed"
    BY <1>6 DEF RLock, Move
  <2>2. c.at = "locked" /\ c.plural = call[q].plural /\ call[q].plural \in Plurals
    BY <1>0, <2>1 DEF PluralKept, Calls
  <2> HIDE DEF c
  <2> QED BY <1>1, <1>2, <1>4, <2>1, <2>2 DEF CInv
<1>7. CASE ReadScope(q)
  <2> DEFINE c == [call[q] EXCEPT !.scope = scopes[call[q].plural], !.at = "half"]
  <2>1. call' = [call EXCEPT ![q] = c] /\ call[q].at = "locked"
    BY <1>7 DEF ReadScope
  <2>2. c.at = "half" /\ c.plural = call[q].plural /\ call[q].plural \in Plurals
    BY <1>0, <2>1 DEF PluralKept, Calls
  <2> HIDE DEF c
  <2> QED BY <1>1, <1>2, <1>4, <2>1, <2>2 DEF CInv
<1>8. CASE ReadStorage(q)
  <2> DEFINE c == [call[q] EXCEPT !.storage = storages[call[q].plural], !.at = "read"]
  <2>1. call' = [call EXCEPT ![q] = c] /\ call[q].at = "half"
    BY <1>8 DEF ReadStorage
  <2>2. c.at = "read" /\ c.plural = call[q].plural /\ call[q].plural \in Plurals
    BY <1>0, <2>1 DEF PluralKept, Calls
  <2> HIDE DEF c
  <2> QED BY <1>1, <1>2, <1>4, <2>1, <2>2 DEF CInv
<1>9. CASE RUnlock(q)
  <2> DEFINE c == [call[q] EXCEPT !.at = "served"]
             p == call[q].plural
  <2>1. call' = [call EXCEPT ![q] = c] /\ call[q].at = "read"
    BY <1>9 DEF RUnlock, Move
  <2>2. /\ c.at = "served" /\ c.plural = p /\ p \in Plurals
        /\ c.scope = call[q].scope /\ c.storage = call[q].storage
    BY <1>0, <2>1 DEF PluralKept, Calls
  <2>3. storages = scopes
    <3>1. readers # {}
      BY <1>0, <2>1 DEF ReadersRead, Reading
    <3> QED BY <1>0, <3>1 DEF LockHeld, TablesAgree
  <2>4. c.scope = scopes[p] /\ c.storage = scopes[p]
    BY <1>0, <2>1, <2>2, <2>3 DEF ReadersRead
  <2> HIDE DEF c, p
  <2>5. /\ Asked' = [Asked EXCEPT ![q] = p]
        /\ Found' = [Found EXCEPT ![q] = {[scope |-> scopes[p], storage |-> scopes[p]]}]
    <3>1. Asked' = [Asked EXCEPT ![q] = c.plural] /\ Found' = [Found EXCEPT ![q] = Given(c)]
      BY ONLY <1>0, <2>1, CallStep
    <3>2. Given(c) = {[scope |-> scopes[p], storage |-> scopes[p]]}
      BY <2>2, <2>4 DEF Given
    <3> QED BY <2>2, <3>1, <3>2
  <2>6. Asked[q] = p /\ p # Nothing /\ Found[q] = {} /\ Asked' = Asked
    BY <1>3, <2>1, <2>2, <2>5 DEF p, Given
  <2>7. InCatalog!LookUp(q)
    BY <1>0, <2>5, <2>6, Mapped
  <2> QED BY <1>1, <1>2, <2>1, <2>2, <2>7 DEF CInv, InCatalog!Next
<1>10. CASE Answer(q)
  <2>1. call' = [call EXCEPT ![q] = Idle] /\ call[q].at = "served"
    BY <1>10 DEF Answer
  <2>2. Idle.at = "idle" /\ Idle.plural = Nothing /\ Given(Idle) = {} /\ Found[q] # {}
    BY <1>3, <2>1 DEF Idle, Given
  <2>3. Asked' = [Asked EXCEPT ![q] = Nothing] /\ Found' = [Found EXCEPT ![q] = {}]
    BY <1>0, <2>1, <2>2, CallStep
  <2>4. InCatalog!Answer(q)
    BY <1>0, <2>2, <2>3, Mapped
  <2> QED BY <1>1, <1>2, <2>1, <2>2, <2>4 DEF CInv, InCatalog!Next
<1> QED
  BY <1>1, <1>5, <1>6, <1>7, <1>8, <1>9, <1>10 DEF Serve, CInv

\* A step of the handler: the catalog changes with the second of the two writes.
LEMMA HandlerChangesCatalog ==
  ASSUME IInv, CInv, Handle
  PROVE  InCatalog!Next \/ UNCHANGED InCatalog!catVars
<1>0. UNCHANGED call /\ TypeOK
  BY HandlerKeepsLock DEF IInv
<1>1. UNCHANGED <<Asked, Found>>
  BY <1>0 DEF Asked, Found
<1>2. CASE RemoveScope
  <2>1. PluralOf[gone] \in Plurals /\ scopes' = [scopes EXCEPT ![PluralOf[gone]] = Nothing]
    BY <1>0, <1>2 DEF RemoveScope, TypeOK, Removing
  <2>2. InCatalog!Withdraw(PluralOf[gone])
    BY <1>1, <2>1, Zenon DEF InCatalog!Withdraw, Asked, Found, Given
  <2> QED BY <2>1, <2>2 DEF InCatalog!Next
<1>3. CASE AddScope
  <2> DEFINE p == PluralOf[new.crd]
  <2>1. new \in Addeds /\ new # Nothing
    BY <1>0, <1>3 DEF AddScope, TypeOK, Adding, Addeds
  <2>2. scopes' = [scopes EXCEPT ![p] = Made(new)] /\ p \in Plurals /\ Made(new) \in Makes
    BY <1>3, <2>1, MadeTyped DEF AddScope
  <2>3. scopes'[p] = Made(new) /\ Made(new) # Nothing /\ Made(new).crd = new.crd
    BY <1>0, <2>2 DEF TypeOK, Makes, Made
  <2>4. new.crd \in {d \in CRDs \ Reserved : PluralOf[d] = p}
    BY <2>1 DEF CInv, OthersOnly, Addeds
  <2> HIDE DEF p
  <2>5. scopes' = [scopes EXCEPT ![p] = scopes'[p]]
    BY <2>2, <2>3
  <2>6. InCatalog!Offer(p)
    <3>1. scopes'[p].crd \in [x \in Plurals |-> {d \in CRDs \ Reserved : PluralOf[d] = x}][p]
      BY <2>2, <2>3, <2>4
    <3> QED BY <1>1, <2>3, <2>5, <3>1, Zenon DEF InCatalog!Offer, Asked, Found, Given
  <2> QED BY <2>2, <2>6 DEF InCatalog!Next
<1>4. CASE UNCHANGED scopes
  BY <1>1, <1>4, Mapped
<1>5. RemoveScope \/ AddScope \/ UNCHANGED scopes
  BY DEF Handle, hostVars, tables, requests, Ignore, addCustomResourceDefinition,
    updateCustomResourceDefinition, deleteCustomResourceDefinition, TakeNote, WaitForLock, Lock,
    Withdraw, RemoveStorage, RemoveRoutes, TurnAway, Announce, AddStorage, AddRoutes
<1> QED BY <1>2, <1>3, <1>4, <1>5

\* Every step of the registry is a step of the catalog or changes nothing in it.
LEMMA StepOfCatalog ==
  ASSUME IInv, CInv, [Next]_vars
  PROVE  CInv' /\ (InCatalog!Next \/ UNCHANGED InCatalog!catVars)
<1>1. ASSUME UNCHANGED <<new, scopes, call>>
      PROVE  CInv' /\ UNCHANGED InCatalog!catVars
  <2>1. UNCHANGED <<Asked, Found>>
    BY <1>1 DEF Asked, Found
  <2> QED BY <1>1, <2>1, Mapped DEF CInv, OthersOnly, PluralKept
<1>2. CASE Handle
  BY <1>2, HandleKeepsCatalogued, HandlerChangesCatalog
<1>3. ASSUME NEW d \in CRDs,
             \/ \E s \in Specs : CreateCRD(d, s) \/ ChangeSpec(d, s)
             \/ TerminateCRD(d) \/ FinalizeCRD(d) \/ Notify(d) \/ ListAPIService(d)
      PROVE  UNCHANGED <<new, scopes, call>>
  BY <1>3 DEF CreateCRD, ChangeSpec, TerminateCRD, FinalizeCRD, Edit, Notify,
              ListAPIService, tables, requests
<1>4. ASSUME NEW q \in Callers, Serve(q) \/ \E r \in routes : Route(q, r)
      PROVE  CInv' /\ (InCatalog!Next \/ UNCHANGED InCatalog!catVars)
  BY <1>4, RequestSeesCatalog
<1>5. CASE UNCHANGED vars
  BY <1>1, <1>5 DEF vars, tables, requests
<1> QED BY <1>1, <1>2, <1>3, <1>4, <1>5 DEF Next

\* To requests the registry is a catalog that changes in one step, for any
\* CRDs, specs, changes at the host and requests (ServeHTTP, addStorage and
\* removeStorage under storageLock).
THEOREM CatalogRefined == Spec => ImplementsCatalog
<1>1. Init => CInv /\ InCatalog!Init
  <2> SUFFICES ASSUME Init PROVE CInv /\ InCatalog!Init
    OBVIOUS
  <2>1. call = [q \in Callers |-> Idle] /\ new = Nothing
        /\ scopes = [p \in Plurals |-> Nothing]
    BY DEF Init
  <2>2. Idle.at = "idle" /\ Idle.plural = Nothing
    BY DEF Idle
  <2>3. CInv
    BY <2>1, <2>2 DEF CInv, OthersOnly, PluralKept
  <2>4. Asked = [q \in Callers |-> Nothing] /\ Found = [q \in Callers |-> {}]
    BY <2>1, <2>2 DEF Asked, Found, Given
  <2> QED BY <2>1, <2>3, <2>4, Mapped
<1>2. IInv /\ CInv /\ [Next]_vars => CInv' /\ [InCatalog!Next]_(InCatalog!catVars)
  BY StepOfCatalog
<1> QED BY <1>1, <1>2, Invariant, PTL DEF Spec, ImplementsCatalog, InCatalog!Spec
===============================================================================
