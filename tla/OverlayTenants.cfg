SPECIFICATION Spec
CONSTANTS
  a = a
  b = b
  Clients = {a, b}
  ClusterOf <- TheClusters
  AllowedNs <- TheNamespaces
  Resources = {"foos", "bars"}
  PluralOf <- TwoPlurals
  KindOf <- TwoKinds
  Clusters = {"east", "east-west"}
  Namespaces = {"n1", "n2"}
  Names = {"x"}
  NoNamespace = NoNamespace
  UserKeys <- TheUserKeys
  UserLabels <- OddLabels
  LabelValues <- Values
  NoLabel = "-"
  Nothing = Nothing
  MaxWrites = 2
  Uses = {"create", "patch", "put", "delete"}
  MaxRestarts = 0
  Chars <- TheChars
  Prefix <- ThePrefix
  Hyphen = "-"
  Dot = "."
  RandomLength = 1
  Spelling <- TheSpelling
  MadeFor <- TheAccounts
INVARIANTS ListExact SelectorComplete WritesStayHome AccountsKeepApart
CHECK_DEADLOCK FALSE
