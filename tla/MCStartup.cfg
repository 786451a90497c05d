CONSTANTS
  Configurations <- MCConfigurations
  Default <- MCDefault
  Answers <- MCAnswers
  MaxRetries = 2
  MaxFaults = 3
CHECK_DEADLOCK FALSE
SPECIFICATION FairSpec
INVARIANTS TypeOK SourcesAccountedFor OneSkipPerClient
PROPERTIES HandshakeEnds Comes
