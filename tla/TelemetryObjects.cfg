SPECIFICATION Spec
CONSTANTS
  NULL = NULL
  BadOctet = 255
  FirstCap = 1
  SboSize = 40
  RequestCap = 64
  MaxAttrs = 2
  MaxEventAttrs = 1
  MaxLinkAttrs = 2
  MaxEvents = 2
  MaxLinks = 1
  MaxLogAttrs = 2
  MaxMetricAttrs = 2
  MaxChanges <- MCMaxChanges
  SubAttributes <- MCSubAttributes
  MaxPlain = 1
  Kinds <- MCKinds
  Texts <- MCTexts
  Attributes <- MCAttributes
  Ids <- MCIds
  Times <- MCTimes
  Measured <- MCMeasured
  BoundLists <- MCBoundLists
  BucketLists <- MCBucketLists
  Resources <- MCResources
  Answers <- MCAnswers
INVARIANTS
  VecsOK
  HeapExact
  FailureAtomic
  WireFaithful
PROPERTY
  CloneFaithful
