SPECIFICATION CallsSpec
CONSTANTS
  MAX_OFFSET = 4098
  MAX_MATCH = 18
  MaxRepeats = 36
  MaxLen = 40
  MaxBody = 4
  Inputs <- MCInputs
  Streams <- MCStreams
  Sizes = {0, 15, 17, 23}
INVARIANTS
  OutputFits
  RelocationReadsAhead
  SplitIsCheapest
  CursorsNeverCross
  RoundTrip
  NeverLarger
  IndexesInBounds
  OkHasWantedLength
PROPERTY
  Terminates
