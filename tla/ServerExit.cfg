CONSTANTS
  IDs = {c1}
  Topics = {t1}
  Msgs = {m1}
  Fds <- MCFds
  MaxLog = 1
  MaxSubs = 1
  Requests = {}
  Lines = {"exit", "other"}
  Faults = {}
  MaxConns = 1
  MaxIn = 0
  MaxUdp = 0
  MaxLines = 2
SPECIFICATION ServerSpec
PROPERTY ExitStops
CHECK_DEADLOCK FALSE
