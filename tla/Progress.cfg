SPECIFICATION Spec
CONSTANTS
  None = None
  Torn = Torn
  NL = NL
  Sess = {s1, s2}
  Pid = {p1, p2}
  Operator = {o1}
  Primary = primary
  Legacy = {legacy}
  Token = {t1, t2}
PROPERTY EverythingEnds
CHECK_DEADLOCK FALSE
