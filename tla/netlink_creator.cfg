CONSTANTS
  Threads = {m, w}
  Main = m
  MayQuit = FALSE
  Width = 2
  Interfaces <- MCInterfaces
  FDs = {100}
  nDevices = 2
  Batches <- MCBatches
  Sharing = TRUE
  EnableRouting = TRUE
  MaxReplies = 1
SPECIFICATION Spec
INVARIANTS
  FakeAnswersIssuedCall
CHECK_DEADLOCK FALSE
