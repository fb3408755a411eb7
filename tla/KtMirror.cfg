CONSTANTS
  Label = {a, b}
  None = None
  PageSize = 2
  MaxEntries = 2
  Faults = {"net", "io", "kill", "power", "fork"}
  MaxFaults = 3
  MaxLen = 3
  MaxVersion = 2
SPECIFICATION FairSpec
CHECK_DEADLOCK FALSE
INVARIANT NoFalseAlarm
PROPERTY Follows
INVARIANT FromItsHead
PROPERTY AppendOnly
INVARIANT ServedKept
INVARIANT Repairs
