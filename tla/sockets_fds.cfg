CONSTANTS
  Threads = {m}
  Main = m
  MayQuit = FALSE
  FDs = {100, 101}
  Socks = {s1, s2, s3}
  Calls = {"socket", "open", "close", "fcntl", "listen", "connect", "accept"}
  Waits = {"accept", "connect", "no_route", "no_peer"}
SPECIFICATION Spec
SYMMETRY Interchangeable
INVARIANTS
  TypeOK
  FdPartition
  FdSetsCurrent
  OneOwner
CHECK_DEADLOCK FALSE
