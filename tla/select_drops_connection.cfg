CONSTANTS
  Threads = {m}
  Main = m
  MayQuit = FALSE
  FDs = {100, 101}
  Socks = {s1, s2}
  Calls = {"socket", "listen", "accept", "select"}
  Waits = {"select_listen"}
SPECIFICATION Spec
PROPERTY
  NoConnectionDropped
CHECK_DEADLOCK FALSE
