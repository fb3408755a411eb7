CONSTANTS
  DEPTH = 3
  Labels <- ThreeLabels
  Size <- Sizes
  MaxLeaves = 2
  MaxPage = 2
  PageBytes = 2
  MaxEntries = 6
SPECIFICATION ServeSpec
CHECK_DEADLOCK FALSE
INVARIANT HeadsAgree
INVARIANT AuditsExact
INVARIANT MapTrue
INVARIANT BucketsWhole
INVARIANT WalksWhole
