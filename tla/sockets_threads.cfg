CONSTANTS
  Threads = {m, w}
  Main = m
  MayQuit = FALSE
  FDs = {100}
  Socks = {s1, s2}
  Calls = {"socket", "close", "listen", "connect", "read", "recvfrom", "write", "select"}
  Waits = {"read", "recvfrom", "write", "connect", "select_listen"}
SPECIFICATION Spec
SYMMETRY Interchangeable
INVARIANTS
  InStep
  NoStrayWakeup
PROPERTY ImplementsCalls
CHECK_DEADLOCK FALSE
