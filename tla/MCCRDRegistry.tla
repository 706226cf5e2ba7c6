--------------------------- MODULE MCCRDRegistry ---------------------------
(***************************************************************************)
(* Instances of CRDRegistry for TLC.  "foos" is the plural of a namespaced *)
(* CRD, "foosets" starts with "foos", "bars" does not; "namespaces" starts *)
(* with "names", the plural of a cluster-scoped one.                       *)
(***************************************************************************)
EXTENDS CRDRegistry, TLC

CONSTANTS c, d, e, w    \* CRDs; w is one of external-crd's own group

OneAndOwn      == d :> "foos" @@ w :> "bars"
SamePlural     == d :> "foos" @@ e :> "foos"
PrefixPlural   == c :> "names" @@ d :> "foos" @@ e :> "foosets"

Prefixes       == {<<p, p>> : p \in Plurals} \cup {<<"foosets", "foos">>}

Low            == d :> 1 @@ w :> 1
LowAndHigh     == d :> 1 @@ e :> 2
AllLow         == c :> 1 @@ d :> 1 @@ e :> 1

Full    == [version |-> "v1", served |-> TRUE, scale |-> TRUE, status |-> TRUE]
Plain   == [version |-> "v2", served |-> TRUE, scale |-> FALSE, status |-> FALSE]
Retired == [version |-> "v2", served |-> FALSE, scale |-> FALSE, status |-> FALSE]

ThreeSpecs == {Full, Plain, Retired}
TwoSpecs   == {Full, Plain}
OneSpec    == {Plain}
=============================================================================
