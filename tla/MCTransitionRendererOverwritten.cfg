SPECIFICATION Spec
CONSTANTS
  Pairs = {p1}
  Threads = {t1, t2}
  p1 = p1
  t1 = t1
  t2 = t2
  MaxRenders = 1
  MeasureLimit = 1
  EncodeLimit = 1
  VerifyLimit = 1
  Forces = {FALSE}
  Stalls = FALSE
  MaxFaults = 0
SYMMETRY Symmetry
PROPERTIES CompletedStays
