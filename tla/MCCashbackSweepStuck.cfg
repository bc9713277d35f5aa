\* Two transactions, one correction of an economic fact.
CONSTANTS
  s1 = s1
  s2 = s2
  m1 = m1
  m2 = m2
  f1 = f1
  f2 = f2
  f3 = f3
  Sweep = {s1}
  Message = {m1, m2}
  Accepted = {m1, m2}
  Facts = {f1, f2, f3}
  FactsOf <- OwnFacts
  Stated = {}
  Overlap = 1
  MailDelay = 1
  MaxTime = 4
  MaxCorrections = 1
  MaxFaults = 0
SPECIFICATION LiveSpec
PROPERTIES
  EventuallyStored
