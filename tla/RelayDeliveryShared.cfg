CONSTANTS
  Inst = {i, j}
  Sealed = {e, f}
  Attributed = {}
  Shared = {e, f}
  None = None
  Slots = 1
  Cap = 2
  Page = 1
  Faults = {}
  MaxFaults = 0
  MaxConn = 1
  MaxSends = 2
  MaxIds = 2
  MaxEvents = 3
SPECIFICATION Spec
CHECK_DEADLOCK FALSE
SYMMETRY Symmetric
INVARIANT HeldUntilGot
