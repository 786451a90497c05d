CONSTANTS
  Objects = {"o1", "o2"}
  Processes = {p1, p2}
  Specs <- MCSpecs
  MaxChanges = 3
  MaxFaults = 1
SPECIFICATION FairSpec
INVARIANTS TypeOK ObservedWasListed
PROPERTIES StatusIsCurrent Observed Published
