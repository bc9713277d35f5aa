\* A statement of the journeys that the workflow does not keep.
CONSTANTS
  r1 = r1
  r2 = r2
  b1 = b1
  b2 = b2
  i1 = i1
  i2 = i2
  NoRunner = NoRunner
  Runner <- MCRunner
  Batch = {b1}
  Id = {i1, i2}
  RowsOf <- RowsOfOne
  MaxToken = 3
  MaxFaults = 0
SPECIFICATION Spec
PROPERTIES
  CommittedIsFinal
