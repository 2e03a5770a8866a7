SPECIFICATION Spec
CONSTANTS
  Pairs = {p1}
  Threads = {t1, t2, t3}
  p1 = p1
  t1 = t1
  t3 = t3
  t2 = t2
  MaxRenders = 2
  MeasureLimit = 1
  EncodeLimit = 1
  VerifyLimit = 1
  Forces = {TRUE}
  Stalls = TRUE
  MaxFaults = 1
SYMMETRY Symmetry
INVARIANTS TypeOK OneRunningPerPair OneEncoder
PROPERTIES CompletedWithFile CancelStands OnlyFaultsOrphan
