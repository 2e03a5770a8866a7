SPECIFICATION Spec
CONSTANTS
  Pairs = {p1, p2}
  Threads = {t1, t2}
  p1 = p1
  p2 = p2
  t1 = t1
  t2 = t2
  MaxRenders = 2
  MeasureLimit = 0
  EncodeLimit = 1
  VerifyLimit = 1
  Forces = {TRUE, FALSE}
  Stalls = FALSE
  MaxFaults = 1
SYMMETRY Symmetry
PROPERTIES ImplementsRenderLifecycle
