CONSTANTS
  IDs = {c1, c2}
  Topics = {t1, t2}
  Msgs = {m1, m2}
  Fds <- MCFds
  MaxLog = 2
  MaxSubs = 2
SPECIFICATION Spec
SYMMETRY Symmetry
VIEW View
CONSTRAINT Sane
INVARIANT CaughtUp
PROPERTY Refinement
