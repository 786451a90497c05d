CONSTANTS
  Names = {"a"}
  SetIdentifiers = {""}
  LabelValues = {"", "mesh", "other", "r1", "r2"}
  Targets = {1, 2}
  TargetLists <- MCLists
  TTLs = {0}
  ProviderSettings = {0}
  Rank <- MCIdentity
  Address <- MCIdentity
  Canonical <- MCCanonical
  Zones = {"z1"}
  ZoneOf <- MCOneZone
  PersistLabels = TRUE
  Syncs = {"s1"}
  ProcessOf <- MCOneProcess
  SourceOf <- MCOwnSource
  Config <- MCOwnerConfig
  Wants <- MCWantsOurs
  Foreign <- MCOtherType
  MaxEdits = 0
  MaxFatals = 0
SPECIFICATION Spec
PROPERTIES ForeignKept
