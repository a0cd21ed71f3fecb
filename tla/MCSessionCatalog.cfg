SPECIFICATION CatalogSpec
CONSTANTS
  Ids = {s1, s2}
  Damaged = Damaged
  MaxRevision = 3
  MaxTroubles = 1
  PageSize = 1
SYMMETRY Symmetry
INVARIANT
  AcknowledgedKept
PROPERTY
  ListedAsStored
CHECK_DEADLOCK FALSE
