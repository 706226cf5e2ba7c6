SPECIFICATION FairSpec
CONSTANTS
  c = c
  d = d
  e = e
  w = w
  CRDs = {d, w}
  Plurals = {"foos", "bars", "foosets"}
  PluralOf <- OneAndOwn
  Namespaced = {d}
  Reserved = {w}
  PriorityOf <- Low
  StartsWith <- Prefixes
  BeginNamespaces = {}
  Specs <- ThreeSpecs
  Callers = {1}
  Nothing = Nothing
  Listed = {}
  Relists = FALSE
  MaxEdits = 2
INVARIANTS IInv ServedPair 
PROPERTIES HandlerCatchesUp ImplementsCatalog
CHECK_DEADLOCK FALSE
