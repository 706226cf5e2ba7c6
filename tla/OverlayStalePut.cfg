SPECIFICATION Spec
CONSTANTS
  a = a
  b = b
  Clients = {a, b}
  ClusterOf <- SameCluster
  AllowedNs <- SameNs
  Resources = {"foos"}
  PluralOf <- FooPlural
  KindOf <- FooKind
  Clusters = {"c1"}
  Namespaces = {"n1"}
  Names = {"x"}
  NoNamespace = NoNamespace
  UserKeys <- TheUserKeys
  UserLabels <- OneLabel
  LabelValues <- Values
  NoLabel = "-"
  Nothing = Nothing
  MaxWrites = 3
  Uses = {"get", "create", "put"}
  MaxRestarts = 0
PROPERTY PutReplacesWhatItRead
CHECK_DEADLOCK FALSE
