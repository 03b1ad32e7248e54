SPECIFICATION Spec
CONSTANTS
  None = None
  Settings <- MCSettings
  Compress <- MCCompress
  Decompress <- MCDecompress
  Hash <- MCHash
  Nsos <- MCNsos
  Elfs <- MCElfs
  ID_SIZE = 2
  U64 = 4096
  HDR = 9
  PAGE = 4
  U32 = 272
  MaxCalls = 6
  USIZE_MAX = 1000
INVARIANTS
  SegmentsComeBack
  NoPanic
