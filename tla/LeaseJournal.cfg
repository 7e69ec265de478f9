SPECIFICATION Spec
CONSTANTS
  RequiredSamples = 3
  BaselineTime = 3
  LeaseTTL = 2
  SampleMin = 1
  SampleMax = 2
  Freshness = 1
  MaxTime = 10
  Owners = {1, 2}
INVARIANTS
  TypeOK
  ExposedIsDurable
  HeldIsBounded
PROPERTIES
  ClearedOnlyByFreshWindow
  ImplementsProtocol
