SPECIFICATION Spec
CONSTANTS
  Conn = {c1, c2}
  Token = {t1, t2}
  Handle = {h1, h2}
  Pid = {p1, p2}
  TTL = 2
  None = None
SYMMETRY Symmetry
INVARIANTS
  DrainExcludesWork
  LeaseHonoured
  EndedStaysEnded
  HandleNamesItsChild
  NoLostChild
  IInv
PROPERTIES
  OnlyOwnerEndsDrain
  ImplementsLease
