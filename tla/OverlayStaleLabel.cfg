SPECIFICATION Spec
CONSTANTS
  a = a
  b = b
  Clients = {a, b}
  ClusterOf <- SameCluster
  AllowedNs <- SameNs
  Resources = {"foos"}
  PluralOf <- FooPlural
  KindOf <- FooKind
  Clusters = {"c1"}
  Namespaces = {"n1"}
  Names = {"x"}
  NoNamespace = NoNamespace
  UserKeys <- TheUserKeys
  UserLabels <- WebOrNot
  LabelValues <- Values
  NoLabel = "-"
  Nothing = Nothing
  MaxWrites = 2
  Uses = {"create", "patch", "put", "delete"}
  MaxRestarts = 0
INVARIANT SelectorSound
CHECK_DEADLOCK FALSE
