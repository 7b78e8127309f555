CONSTANTS
  m = m
  w1 = w1
  w2 = w2
  Threads = {m, w1, w2}
  Main = m
  MayQuit = TRUE
  MaxRefused = 1
  Program <- MCEverything
SPECIFICATION FairSpec
INVARIANTS
  TypeOK
  OneContinuation
  StopsMatchEvents
  SimulatedAnswers
PROPERTY
  CallsReturn
CHECK_DEADLOCK FALSE
