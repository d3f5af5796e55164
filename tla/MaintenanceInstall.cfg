SPECIFICATION Spec
CONSTANTS
  Operator = {o1, o2}
  Primary = primary
  Legacy = {legacy}
  Token = {t1, t2}
  TTL = 2
  None = None
CONSTRAINT Crowd
SYMMETRY Symmetry
INVARIANTS
  TypeOK
  HonestReport
PROPERTIES
  BootoutSparesTunnels
  PrimaryImplementsLease
