SPECIFICATION Spec
CONSTANTS
  Engine = {"singbox", "xray"}
  Job = {j1, j2}
  Server = {s1, s2}
  MaxPending = 2
  None = None
  Patient = FALSE
  Revocable = FALSE
INVARIANT DisconnectWins

CHECK_DEADLOCK FALSE
