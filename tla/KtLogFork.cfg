CONSTANTS
  Label = {a}
  Val = {x, y}
  None = None
  Legacy = FALSE
  MinSize = 0
  Resign = 1
  MaxAge = 2
  Faults = {"kill", "power"}
  MaxFaults = 2
  MaxLen = 2
  MaxVersion = 3
  MaxTime = 0
SPECIFICATION Spec
CHECK_DEADLOCK FALSE
PROPERTY NeverSmaller
