CONSTANTS
  Names = {"a", "b"}
  SetIdentifiers = {""}
  LabelValues = {"", "mesh", "other", "r1", "r2"}
  Targets = {1, 2, 3, 4}
  TargetLists <- MCLists
  TTLs = {0, 5}
  ProviderSettings = {0}
  Rank <- MCIdentity
  Address <- MCIdentity
  Canonical <- MCCanonical
  Zones = {"z1", "z2"}
  ZoneOf <- MCTwoZones
  PersistLabels = TRUE
  Configs <- MCOwners
  Wants <- MCWantsContested
  Foreign <- MCForeign
SPECIFICATION Spec
INVARIANTS CNAMEExclusive
PROPERTIES OwnerSafety PolicyRespected
