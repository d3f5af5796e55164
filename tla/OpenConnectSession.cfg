SPECIFICATION MCSpec
CONSTANTS
  Client = {c1, c2}
  Sess = {s1, s2}
  Pid = {p1, p2}
  Others = {"stranger", "alien"}
  None = None
SYMMETRY Symmetry
VIEW View
INVARIANTS
  TypeOK
  OnePerServer
  NothingUntracked
  StopHonest
  SignalsVerified
PROPERTY CleanupSparesLive
