CONSTANTS
  Threads = {m}
  Main = m
  MayQuit = FALSE
  FDs = {100, 101, 102}
  Socks = {s1, s2, s3}
  Calls = {"socket", "listen", "accept"}
  Waits = {"accept"}
SPECIFICATION Spec
SYMMETRY Interchangeable
INVARIANTS
  FakeAnswersIssuedCall
CHECK_DEADLOCK FALSE
