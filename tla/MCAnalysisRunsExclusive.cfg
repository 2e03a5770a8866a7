SPECIFICATION Spec
CONSTANTS
  Tracks = {t1, t2}
  Analyzers = {a1}
  Callers = {c1, c2, c3}
  Tokens = {k1, k2, k3, k4, k5}
  NoToken = NoToken
  Forces = {FALSE}
  DefaultTimeout = 1
  Timeouts = {1}
  Stalls = FALSE
  MaxFaults = 0
SYMMETRY Symmetry
INVARIANT OneExecutorPerSlot
