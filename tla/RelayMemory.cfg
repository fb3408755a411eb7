CONSTANTS
  a = a
  b = b
  Rid = {a, b}
  Env <- Envelopes
  None = None
  IdSlots = 1
  MaxQueueMsgs = 2
  MaxQueueBytes = 4
  UnownedMailboxBytes = 4
  UnownedStoreBytes = 3
  IntroMailboxBytes = 3
  IntroEnvelopeBytes = 2
  MaxStoreBytes = 4
  OwnedCap = 1
  IntroCap = 1
  SeenCap = 2
  NewMailboxPerMin = 1
  UnownedPerIp = 2
  FlushPage = 1
  OwnedTtl = 1
  QueueTtl = 1
  SeenTtl = 1
  Bits = {1}
  MaxTime = 2
  MaxSends = 3
  MaxLogins = 2
  MaxIntros = 1
SPECIFICATION Spec
CHECK_DEADLOCK FALSE
INVARIANT TypeOK
INVARIANT Accounted
INVARIANT NothingStranded
INVARIANT HeldUntilGot
INVARIANT SeenPaid
INVARIANT ReceiptTrue
INVARIANT WalksSorted
INVARIANT NeverWoken
