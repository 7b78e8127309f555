CONSTANTS
  Threads = {m}
  Main = m
  MayQuit = FALSE
  FDs = {100, 101}
  Socks = {s1, s2}
  Calls = {"socket", "fcntl", "listen", "connect", "read"}
  Waits = {"read", "connect", "no_route"}
SPECIFICATION Spec
SYMMETRY Interchangeable
INVARIANTS
  NoThreadForgotten
CHECK_DEADLOCK FALSE
