SPECIFICATION Spec
CONSTANTS
  Client = {c1, c2}
  Sess = {s1, s2}
  Pid = {p1, p2}
  Mode = {"direct"}
  Engine = {"singbox"}
  NetworkSetup = FALSE
  None = None
SYMMETRY Symmetry
VIEW View
INVARIANTS
  StopHonest
  StartupSignalsItsOwn
