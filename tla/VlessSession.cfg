SPECIFICATION Spec
CONSTANTS
  Client = {c1}
  Sess = {s1, s2}
  Pid = {p1, p2, p3}
  Mode = {"helper", "direct"}
  Engine = {"singbox", "xray"}
  NetworkSetup = TRUE
  None = None
SYMMETRY Symmetry
VIEW View
INVARIANTS
  TypeOK
  NothingLost
  DnsRestorable
  StopHonest
  FreshSidecar
