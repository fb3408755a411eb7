CONSTANTS
  Inst = {a, b}
  Sock = {s1, s2}
  Rid = {r}
  None = None
  Faults = {}
  MaxFaults = 0
SPECIFICATION FairSpec
CHECK_DEADLOCK FALSE
PROPERTY PresenceExpires
