CONSTANTS
  Interval = 5
  MinEventSyncInterval = 3
  MaxLag = 1
  Handlers = {"h1", "h2"}
SPECIFICATION FairSpec
INVARIANTS TypeOK EventsAreDue
PROPERTIES RunsAreSpaced EventsAreServed
