CONSTANTS
  Inst = {i, j}
  Sealed = {e}
  Attributed = {a}
  Shared = {}
  None = None
  Slots = 1
  Cap = 2
  Page = 1
  Faults = {"crash", "full", "expire"}
  MaxFaults = 1
  MaxConn = 2
  MaxSends = 2
  MaxIds = 1
  MaxEvents = 3
SPECIFICATION FairSpec
CHECK_DEADLOCK FALSE
INVARIANT HeldUntilGot
INVARIANT KeysUnique
PROPERTY Delivered
