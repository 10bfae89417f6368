SPECIFICATION SpecByContract
CONSTANTS
  o1 = o1
  o2 = o2
  o3 = o3
  o4 = o4
  r1 = r1
  r2 = r2
  NULL = NULL
  Objects <- MCObjects
  Resources <- MCResources
  MaxClaims = 4
INVARIANTS
  TypeOK
  NoLeak
  NoDoubleRelease
  NoCopyOfAReleasedMedium
PROPERTIES
  ThrowChangesNothing
  ImplementsOwnership
