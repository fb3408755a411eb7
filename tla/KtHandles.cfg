CONSTANTS
  Label = {a, b}
  Owner = {u1, u2, t1}
  Recovery = {r1, s1}
  Mine = {u1, u2, r1}
  None = None
  Addr = {p}
  PerAddress = 2
  PerDay = 1
  NewPerAddress = 1
  NewPerMinute = 1
  PerMinute = 2
  Day = 2
  MaxInFlight = 2
  Room = 4
  Floor = 2
  Faults = {"append", "head", "kill"}
  MaxFaults = 1
  MaxTime = 2
SPECIFICATION Spec
CHECK_DEADLOCK FALSE
SYMMETRY Symmetric
INVARIANT RateHeld
INVARIANT RefusalsFree
INVARIANT RecoveryLeft
PROPERTY HoldsNames
