SPECIFICATION FairSpec
CONSTANTS
  Tracks = {t1}
  Analyzers = {a1}
  Callers = {c1, c2}
  Tokens = {k1, k2, k3, k4}
  NoToken = NoToken
  Forces = {FALSE, TRUE}
  DefaultTimeout = 1
  Timeouts = {1}
  Stalls = TRUE
  MaxFaults = 3
INVARIANTS DecidedByCurrentClaim AnswerIsOutcomeOrNewer
PROPERTIES
  CachedResultKept OnlyFaultsOrphan ImplementsClaimedSlots
  RequestsEnd OrphanRecovered
