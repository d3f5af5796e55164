SPECIFICATION LiveSpec
CONSTANTS
  Conn = {c1, c2}
  Token = {t1}
  Handle = {h1}
  Pid = {p1}
  TTL = 1
  None = None
PROPERTIES
  EveryRequestEnds
  DrainExpires
