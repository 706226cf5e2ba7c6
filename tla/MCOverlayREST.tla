--------------------------- MODULE MCOverlayREST ---------------------------
(***************************************************************************)
(* Instances of OverlayREST for TLC: two clients of one namespace and one  *)
(* object name.                                                            *)
(***************************************************************************)
EXTENDS OverlayREST, TLC

CONSTANTS a, b           \* clients

TheUserKeys == {"app"}
Plain   == [l \in LabelKeys |-> "-"]
Web     == [Plain EXCEPT !["app"] = "web"]

OneLabel     == {Plain}
WebOrNot     == {Plain, Web}

SameCluster  == a :> "c1" @@ b :> "c1"
SameNs       == a :> "n1" @@ b :> "n1"

FooPlural    == "foos" :> "foos"
FooKind      == "foos" :> "Foo"

Rivals == Permutations({a, b})

Values == {"c1", "n1", "x", "Foo", "web"}
=============================================================================
