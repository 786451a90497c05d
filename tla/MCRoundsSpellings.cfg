CONSTANTS
  Names = {"a", "A"}
  SetIdentifiers = {""}
  LabelValues = {"", "mesh", "other", "r1", "r2"}
  Targets = {1, 2, 3, 4}
  TargetLists <- MCLists
  TTLs = {0, 5}
  ProviderSettings = {0}
  Rank <- MCIdentity
  Address <- MCIdentity
  Canonical <- MCSpelled
  Zones = {"z1"}
  ZoneOf <- MCOneZone
  PersistLabels = TRUE
  Configs <- MCSyncMesh
  Wants <- MCWantsSpelled
  Foreign <- MCForeignSpelled
SPECIFICATION Spec
PROPERTIES OwnerSafety
