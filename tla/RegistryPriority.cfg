SPECIFICATION Spec
CONSTANTS
  c = c
  d = d
  e = e
  w = w
  CRDs = {d, e}
  Plurals = {"foos", "bars", "foosets"}
  PluralOf <- SamePlural
  Namespaced = {d, e}
  Reserved = {}
  PriorityOf <- LowAndHigh
  StartsWith <- Prefixes
  BeginNamespaces = {}
  Specs <- TwoSpecs
  Callers = {}
  Nothing = Nothing
  Listed = {d, e}
  Relists = FALSE
  MaxEdits = 2
INVARIANT HighestServed
CHECK_DEADLOCK FALSE
