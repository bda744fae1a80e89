CONSTANTS
  IDs = {c1, c2, c3}
  Topics = {t1}
  Msgs = {m1}
  Fds <- MCFds
  MaxLog = 2
  MaxSubs = 3
SPECIFICATION Spec
SYMMETRY Symmetry
VIEW View
CONSTRAINT SaneCrowd
INVARIANTS
  TypeOK
  CursorsInLog
  OneConnectionPerID
  CaughtUp
  NoUselessMessages
PROPERTY Refinement
