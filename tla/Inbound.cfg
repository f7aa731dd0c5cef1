CONSTANTS
  Names = {1, 2}
  Nodes = {"n1"}
  Devices = {"d1"}
  Values <- MCValues
  MaxWire = 2
  MaxAhead = 0
  Conforming = TRUE
SPECIFICATION FairSpec
INVARIANTS IInv OnlyRenumberingMixesUp ViewInv ViewIsCurrent
PROPERTIES OwnMetricsObeyCommands DeathIsShown
