SPECIFICATION FairSpec
CONSTANTS
  Threads = {t1, t2}
  MaxCalls = 2
  MaxProcs = 2
  MaxStrays = 1
INVARIANTS AnswersOwnRequest OneRequestAtATime NoForgottenProcess
PROPERTIES CallsEnd
