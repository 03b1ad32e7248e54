SPECIFICATION FinderSpec
CONSTANTS
  MAX_OFFSET = 5
  MAX_MATCH = 4
  MaxLen = 9
  Alphabet = {0, 1}
  Inputs <- MCInputs
  Buckets <- MCBuckets
  Hash <- MCHash
  NONE = NONE
INVARIANTS
  ChainsComplete
  MatchesOracle
PROPERTY
  WalkEnds
