CONSTANTS
  LongLabels = {"long"}
  FullLabels = {"full"}
  MaxTTL = 3600
  MaxEdits = 2
  TargetType <- MCTargetType
  Options <- MCOptions
  Scenarios <- MCScenarios
SPECIFICATION FairSpec
INVARIANTS TypeOK Plannable NothingLost PortsTogether ListerOrderDoesNotMatter EventsSeen
PROPERTIES Fresh
