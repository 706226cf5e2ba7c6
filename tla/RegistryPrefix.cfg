SPECIFICATION Spec
CONSTANTS
  c = c
  d = d
  e = e
  w = w
  CRDs = {c, d, e}
  Plurals = {"foos", "names", "foosets"}
  PluralOf <- PrefixPlural
  Namespaced = {d, e}
  Reserved = {}
  PriorityOf <- AllLow
  StartsWith <- Prefixes
  BeginNamespaces = {"names"}
  Specs <- OneSpec
  Callers = {}
  Nothing = Nothing
  Listed = {c, d, e}
  Relists = FALSE
  MaxEdits = 2
INVARIANT AllServed
CHECK_DEADLOCK FALSE
