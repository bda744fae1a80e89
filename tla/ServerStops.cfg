CONSTANTS
  IDs = {c1, c2}
  Topics = {t1}
  Msgs = {m1}
  Fds <- MCFds
  MaxLog = 1
  MaxSubs = 2
  Requests <- Commands
  Lines = {"exit"}
  Faults = {}
  MaxConns = 2
  MaxIn = 1
  MaxUdp = 1
  MaxLines = 0
SPECIFICATION SafeServer
SYMMETRY Symmetry
CONSTRAINT Sane
CHECK_DEADLOCK FALSE
INVARIANT StopsOnlyOnExit
