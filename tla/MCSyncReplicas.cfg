CONSTANTS
  Names = {"a"}
  SetIdentifiers = {""}
  LabelValues = {"", "mesh", "other", "r1", "r2"}
  Targets = {1, 2}
  TargetLists <- MCLists
  TTLs = {0}
  ProviderSettings = {0}
  Rank <- MCIdentity
  Address <- MCIdentity
  Canonical <- MCCanonical
  Zones = {"z1"}
  ZoneOf <- MCOneZone
  PersistLabels = TRUE
  Syncs = {"s1", "s2"}
  ProcessOf <- MCReplicaProcess
  SourceOf <- MCReplicaSource
  Config <- MCReplicaConfig
  Wants <- MCWants
  Foreign = {}
  MaxEdits = 2
  MaxFatals = 1
SPECIFICATION FairSpec
INVARIANTS TypeOK Paired SameOrigin
PROPERTIES Converges
