SPECIFICATION MCSpec
CONSTANTS
  Client = {c1, c2}
  Sess = {s1, s2}
  Pid = {p1, p2}
  Others = {}
  None = None
SYMMETRY Symmetry
VIEW View
PROPERTY StopPreservesNewSession
