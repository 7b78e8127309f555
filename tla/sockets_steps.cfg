CONSTANTS
  Threads = {m}
  Main = m
  MayQuit = FALSE
  FDs = {100, 101}
  Socks = {s1, s2}
  Calls = {"socket", "close", "fcntl", "listen", "connect", "accept", "read", "recvfrom", "write", "select"}
  Waits = {"read", "recvfrom", "connect", "select_recv", "select_listen", "select_send"}
SPECIFICATION Spec
SYMMETRY Interchangeable
INVARIANTS
  InStep
  NoStrayWakeup
  NoThreadForgotten
CHECK_DEADLOCK FALSE
