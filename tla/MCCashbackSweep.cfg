\* Two executions that overlap, one transaction that two corrections and a
\* statement may change, one fault.
CONSTANTS
  s1 = s1
  s2 = s2
  m1 = m1
  m2 = m2
  f1 = f1
  f2 = f2
  f3 = f3
  Sweep <- MCSweep
  Message = {m1}
  Accepted = {m1}
  Facts = {f1, f2}
  FactsOf <- OnlyFirst
  Stated = {m1}
  Overlap = 1
  MailDelay = 1
  MaxTime = 3
  MaxCorrections = 2
  MaxFaults = 1
SPECIFICATION Spec
SYMMETRY SweepSymmetry
INVARIANTS
  NothingSkipped
  SweepInv
PROPERTIES
  CursorMovesForward
  CommitSeesCurrentRows
  ReplaysChangeNothing
