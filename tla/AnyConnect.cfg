SPECIFICATION Spec
CONSTANTS
  None = None
  Torn = Torn
  Server = {"gw1", "gw2"}
  Primary = "gw1"
  Fallbacks <- RepeatedFallbacks
  Token = {t1, t2}
  Variants = 2
  MaxPosts = 3
  Client = {c1, c2}
  Sess = {s1, s2}
  MaxCount = 1
  Proc = {1}
  Sock <- TwoSockets
  Net = {"n1", "n2"}
  Logs <- FourLogs
  Limit = 1
  MaxClock = 4
  Pid = {p1, p2}
  Profile = {"d1", "d2"}
  Shared = {"d1"}
VIEW View
INVARIANT AuthCorrect
PROPERTIES
  DumpCorrect
  SshProxyCorrect
