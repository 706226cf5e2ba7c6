------------------------------- MODULE Catalog -------------------------------
(***************************************************************************)
(* What the registry of overlay APIs promises the requests it serves, with *)
(* nothing of locks, tables and notifications: a catalog of what is served *)
(* under each plural, which changes in one step.  A request is for a       *)
(* plural and gets a scope and a storage; both are what the catalog had at *)
(* one and the same moment of the request.                                 *)
(***************************************************************************)
CONSTANTS
  Plurals,
  Callers,
  Makers,   \* Makers[p]: the CRDs that may be served under p
  None      \* what is served under a plural that nobody serves

VARIABLES
  catalog,  \* catalog[p]: the spec served under p, with its CRD, or None
  asked,    \* asked[q]: the plural request q is for, or None
  found     \* found[q]: what q has found, at most one scope with its storage

catVars == <<catalog, asked, found>>

Offer(p) ==
  /\ catalog' = [catalog EXCEPT ![p] = catalog'[p]]
  /\ catalog'[p] # None
  /\ catalog'[p].crd \in Makers[p]
  /\ UNCHANGED <<asked, found>>

Withdraw(p) ==
  /\ catalog' = [catalog EXCEPT ![p] = None]
  /\ UNCHANGED <<asked, found>>

Ask(q, p) ==
  /\ asked[q] = None
  /\ asked' = [asked EXCEPT ![q] = p]
  /\ UNCHANGED <<catalog, found>>

LookUp(q) ==
  /\ asked[q] # None
  /\ found[q] = {}
  /\ found' = [found EXCEPT
                 ![q] = {[scope |-> catalog[asked[q]], storage |-> catalog[asked[q]]]}]
  /\ UNCHANGED <<catalog, asked>>

Answer(q) ==
  /\ found[q] # {}
  /\ asked' = [asked EXCEPT ![q] = None]
  /\ found' = [found EXCEPT ![q] = {}]
  /\ UNCHANGED catalog

Init ==
  /\ catalog = [p \in Plurals |-> None]
  /\ asked = [q \in Callers |-> None]
  /\ found = [q \in Callers |-> {}]

Next ==
  \/ \E p \in Plurals : Offer(p) \/ Withdraw(p)
  \/ \E q \in Callers : LookUp(q) \/ Answer(q) \/ \E p \in Plurals : Ask(q, p)

Spec == Init /\ [][Next]_catVars
=============================================================================
