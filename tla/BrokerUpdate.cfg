CONSTANTS
  IDs = {c1, c2}
  Topics = {t1}
  Msgs = {m1}
  Fds <- MCFds
  MaxLog = 1
  MaxSubs = 3
SPECIFICATION Spec
SYMMETRY Symmetry
INVARIANT UpdatesInPlace
