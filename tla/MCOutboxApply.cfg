\* Two statements that share a row, two executions, up to three acquisitions,
\* one fault (a node that throws, a process kill or an early expiry).
CONSTANTS
  r1 = r1
  r2 = r2
  b1 = b1
  b2 = b2
  i1 = i1
  i2 = i2
  NoRunner = NoRunner
  Runner <- MCRunner
  Batch = {b1, b2}
  Id = {i1, i2}
  RowsOf <- RowsOfTwo
  MaxToken = 3
  MaxFaults = 1
SPECIFICATION Spec
SYMMETRY RunnerSymmetry
INVARIANTS
  AtMostOneEffect
  ObservedMeansWritten
  ReceiptBeforeCommit
  DeliveredIsSound
  IInv
PROPERTIES
  WritesAreFenced
  ImplementsContract
