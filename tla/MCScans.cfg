CONSTANTS
  Names = {"a"}
  SetIdentifiers = {""}
  LabelValues = {"", "mesh"}
  Targets = {1, 2, 3, 4}
  TargetLists <- MCLists
  TTLs = {0}
  ProviderSettings = {0}
  Rank <- MCRank
  Address <- MCAddress
  Canonical <- MCCanonical
  MaxCandidates = 3
  LowerCase <- MCLowerCase
  LookedUp <- MCLookedUp
  ZoneNames <- MCZoneNames
  DomainFilters <- MCDomainFilters
  Addresses <- MCAddresses
CHECK_DEADLOCK FALSE
SPECIFICATION Spec
INVARIANTS OrderDoesNotMatter NearestZone FiltersByLabel SurvivesHandshake ReverseZoneIsTheBlock
