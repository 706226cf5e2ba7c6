------------------------------ MODULE MCStartup ------------------------------
(***************************************************************************)
(* An instance of Startup for TLC: three versions, the preferred one not   *)
(* the highest, each listing up to two resources in either order.          *)
(***************************************************************************)
EXTENDS Startup, TLC

Alphabetical == "namespaces" :> 1 @@ "pods" :> 2
KubeAware    == "v1beta1" :> 1 @@ "v1" :> 2 @@ "v2" :> 3

\* The preferred version has the namespaces, or the others both have them, or
\* no version has; names are not listed in order.
Both == <<"pods", "namespaces">>
SomeDocuments ==
  [preferred : {"v1"},
   listed : {"v1" :> l[1] @@ "v2" :> l[2] @@ "v1beta1" :> l[3] :
               l \in {<<Both, <<"namespaces">>, << >> >>,
                      <<<<"pods">>, <<"namespaces">>, Both>>,
                      <<<<"pods">>, << >>, << >> >>}}]
AllWalks == SetToSeqs(GroupVersions)
==============================================================================
