CONSTANTS
  Names = {"a", "b"}
  SetIdentifiers = {""}
  LabelValues = {"", "mesh", "other", "r1", "r2"}
  Targets = {1, 2, 3, 4}
  TargetLists <- MCLists
  TTLs = {0, 5}
  ProviderSettings = {0}
  Rank <- MCIdentity
  Address <- MCIdentity
  Canonical <- MCCanonical
  Zones = {"z1"}
  ZoneOf <- MCOneZone
  PersistLabels = TRUE
  Configs <- MCSyncMesh
  Wants <- MCWantsRivals
  Foreign = {}
SPECIFICATION Spec
INVARIANTS TypeOK NoFlapping Converged Paired
PROPERTIES HolderKeepsName
