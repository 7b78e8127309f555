CONSTANTS
  Threads = {m, w1, w2, w3}
  Main = m
  w1 = w1
  w2 = w2
  w3 = w3
  Cases <- MCCases
  Cap = 4
  StepsMod = 8
SPECIFICATION FutexSpec
INVARIANTS
  TypeOK
  BackoffBounded
  MutualExclusion
PROPERTIES
  ProgramEnds
  ImplementsMutex
CHECK_DEADLOCK FALSE
