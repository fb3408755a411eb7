CONSTANTS
  Rid = {r1, r2}
  Inst = {i1, i2}
  Sweepers = {i1}
  Allowance = 1
  BoxCap = 2
  UnownedBox = 2
  UnownedStore = 2
  MaxSends = 2
  MaxNow = 1
  MaxChanges = 2
  MaxFaults = 1
  MaxEvents = 2
SPECIFICATION Spec
CHECK_DEADLOCK FALSE
SYMMETRY Symmetric
INVARIANT TokensExact
INVARIANT SlotsExact
INVARIANT CounterFollows
