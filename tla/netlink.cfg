CONSTANTS
  Threads = {m, w}
  Main = m
  MayQuit = FALSE
  Width = 2
  Interfaces <- MCInterfaces
  FDs = {100, 101}
  nDevices = 1
  Batches <- MCBatches
  Sharing = FALSE
  EnableRouting = TRUE
  MaxReplies = 0
SPECIFICATION Spec
INVARIANTS
  TypeOK
  InStep
  NoStrayCallback
  
  DumpsTerminated
  OneEntryPerPrefix
  LongestPrefixMatch
PROPERTY
  ImplementsTable
CHECK_DEADLOCK FALSE
