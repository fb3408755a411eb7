CONSTANTS
  Label = {a}
  Val = {x}
  None = None
  Legacy = TRUE
  MinSize = 1
  Resign = 1
  MaxAge = 2
  Faults = {"kill", "power", "io", "restore", "lost", "forge"}
  MaxFaults = 2
  MaxLen = 3
  MaxVersion = 2
  MaxTime = 3
SPECIFICATION FairSpec
CHECK_DEADLOCK FALSE
INVARIANT AckedStands
INVARIANT NoForgedLine
PROPERTY AppendOnly
PROPERTY Reopens
