------------------------------ MODULE MCTenants ------------------------------
(***************************************************************************)
(* An instance of Tenants for TLC.  Client a has the random string r, and  *)
(* its cluster, spelled "e.r-w", contains its delimiter "r-"; cut at the   *)
(* wrong one it would be b's cluster.  Both have a namespace "n".  That    *)
(* cluster and the name of their object contain a dot.                     *)
(***************************************************************************)
EXTENDS Tenants, TLC

CONSTANTS a, b           \* clients

TheSpelling ==
  "foos" :> <<"f">> @@ "bars" :> <<"b">>
  @@ "east" :> <<"e">> @@ "east-west" :> <<"e", ".", "r", "-", "w">>
  @@ "n1" :> <<"n">> @@ "n2" :> <<"w", "-", "r", "-", "n">>
  @@ "x" :> <<"x", ".", "n">>
TheAccounts ==
  a :> [random |-> <<"r">>, cluster |-> "east-west", ns |-> "n1"]
  @@ b :> [random |-> <<"q">>, cluster |-> "east", ns |-> "n1"]
TheChars  == {"f", "b", "e", "-", "r", "w", "n", "x", ".", "q", "biz-"}
ThePrefix == <<"biz-">>

TheClusters   == [c \in Clients |-> ReadCluster(c)]
TheNamespaces == [c \in Clients |-> ReadNs(c)]

TheUserKeys == {"app"}
Plain   == [l \in LabelKeys |-> "-"]
Web     == [Plain EXCEPT !["app"] = "web"]
Foreign == [Plain EXCEPT !["cluster"] = "east", !["kind"] = "Bar"]
OddLabels == {Web, Foreign}

TwoPlurals == "foos" :> "foos" @@ "bars" :> "bars"
TwoKinds   == "foos" :> "Foo" @@ "bars" :> "Bar"

Values == {"east", "east-west", "n1", "n2", "x", "Foo", "Bar", "web"}
==============================================================================
