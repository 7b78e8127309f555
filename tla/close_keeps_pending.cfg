CONSTANTS
  Threads = {m}
  Main = m
  MayQuit = FALSE
  FDs = {100, 101}
  Socks = {s1, s2}
  Calls = {"socket", "listen", "close"}
  Waits = {"connect"}
SPECIFICATION Spec
SYMMETRY Interchangeable
INVARIANTS
  PendingOnListeners
CHECK_DEADLOCK FALSE
