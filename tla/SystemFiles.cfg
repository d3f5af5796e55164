SPECIFICATION Spec
CONSTANTS
  None = None
  Other = Other
  NL = NL
  NoFile = NoFile
  MaxInodes = 6
  Op = {a, b}
  MaxIno = 3
  MaxReconnect = 1
  Dir = {"vless"}
  Utun = {"utun1", "utun2"}
  MaxSessions = 3
  Shared = {"utun1"}
  VPNDomains <- Corp
  ServerDomains <- InsideAndBelow
  BypassSuffixes <- Bypass
  Entries <- Inside
  Machines <- EitherProgram
VIEW View
INVARIANTS
  AuditCorrect
  TextCorrect
  ResolverCorrect
PROPERTIES
  SocketCorrect
  RemovalCorrect
CHECK_DEADLOCK FALSE
