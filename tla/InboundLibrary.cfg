CONSTANTS
  Names = {1, 2}
  Nodes = {"n1"}
  Devices = {"d1"}
  Values <- MCValues
  MaxWire = 2
  MaxAhead = 0
  Conforming = FALSE
SPECIFICATION Spec
INVARIANTS BirthTellsAll
