SPECIFICATION Spec
CONSTANTS
  None = None
  Empty = Empty
  Damaged = Damaged
  Servers = {"s", "t"}
  Profiles = {"default", "p", "q"}
  Selectors = {"x"}
  Suffixes = {"a", "b", "c", "ru"}
  Files <- ConfigFiles
  Proc = {q1, q2}
  Source = {a, b}
  CacheOf <- OwnDirectories
  MaxVersion = 2
  MaxRuns = 2
  Job = {j1, j2}
  Server = {s1}
  PatientJob = {j3}
  PatientServer = {s2, s3}
VIEW View
INVARIANTS
  ConfigCorrect
  CacheCorrect
  ChoiceCorrect
  AndroidCorrect
CHECK_DEADLOCK FALSE
