\* Two finalizations at the same time.
CONSTANTS
  q1 = q1
  q2 = q2
  t1 = t1
  t2 = t2
  e1 = e1
  e2 = e2
  None = None
  Period <- Bounds
  Cycle <- Months
  Receipt = {q1, q2}
  ReceivedAt <- SameDay
  Reference = {t1, t2}
  Evidence = {e1, e2}
  Finalizer = {1, 2}
SPECIFICATION Spec
SYMMETRY StoreSymmetry
PROPERTIES
  FinalizedIsFinal
