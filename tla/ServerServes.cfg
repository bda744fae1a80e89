CONSTANTS
  IDs = {c1, c2}
  Topics = {t1}
  Msgs = {m1}
  Fds <- MCFds
  MaxLog = 1
  MaxSubs = 1
  Requests <- Invalid
  Lines = {"exit"}
  Faults = {}
  MaxConns = 2
  MaxIn = 1
  MaxUdp = 1
  MaxLines = 1
SPECIFICATION ServerSpec
PROPERTY EverybodyServed
CHECK_DEADLOCK FALSE
