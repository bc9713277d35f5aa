\* One statement, two executions, up to two faults; tokens never run out.
CONSTANTS
  r1 = r1
  r2 = r2
  b1 = b1
  b2 = b2
  i1 = i1
  i2 = i2
  NoRunner = NoRunner
  Runner <- MCRunner
  Batch = {b1}
  Id = {i1, i2}
  RowsOf <- RowsOfOne
  MaxToken = 14
  MaxFaults = 2
SPECIFICATION LiveSpec
PROPERTIES
  EventuallyCommitted
