SPECIFICATION FairSpec
CONSTANTS
  GroupVersions = {"v1beta1", "v1", "v2"}
  ResourceNames = {"namespaces", "pods"}
  NameRank <- Alphabetical
  VersionRank <- KubeAware
  CRDs = {"foos"}
  NoDocument = NoDocument
  CoreDocuments <- SomeDocuments
  Walks <- AllWalks
  MaxSignals = 3
INVARIANTS IInv NormalizedBest
PROPERTIES ListersFed CRDsComeToHandlers SecondSignalEnds
CHECK_DEADLOCK FALSE
