SPECIFICATION Spec
CONSTANTS
  None = None
  Settings <- MCSettings
  Elfs <- MCElfs
  Nros <- MCNros
  PAGE = 4
  ID_SIZE = 2
  START = 8
  HDR_END = 12
  ASSET_HDR = 2
  HEADERS_SIZE = 12
  ASSET_HEADER_SIZE = 2
  MOD0_SIZE = 2
  MOD0_MAGIC = 77
  U32 = 64
  U64 = 4096
  USIZE_MAX = 1000
  MaxCalls = 1
  MaxCallsAfterElf = 1
INVARIANTS
  NoOverflow
