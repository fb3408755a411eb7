CONSTANTS
  Inst = {a, b}
  Sock = {s1, s2}
  Rid = {r}
  None = None
  Faults = {"crash", "full", "fail"}
  MaxFaults = 1
SPECIFICATION FairSpec
CHECK_DEADLOCK FALSE
INVARIANT WelcomedStays
PROPERTY NewestStandsProperty
PROPERTY PresenceSettles
