CONSTANTS
  Threads = {m, w}
  Main = m
  MayQuit = FALSE
  FDs = {100}
  Socks = {s1}
  Calls = {"socket", "recvfrom", "select"}
  Waits = {"recvfrom", "select_recv"}
SPECIFICATION Spec
SYMMETRY Interchangeable
INVARIANTS
  ResumedThreadIsAnswered
CHECK_DEADLOCK FALSE
