SPECIFICATION Spec
CONSTANTS
  SEP <- Slash
  NO_ENTRY = NO_ENTRY
  PathHash <- MCPathHash
  Paths <- MCPaths
  Contents <- MCContents
  FsTrees <- MCFsTrees
  MaxFiles = 3
  OpenPaths <- MCOpenPaths
  Images <- MCImages
  INVALID = 255
  USIZE_MAX = 100000
  None = None
INVARIANTS
  ImageIsTheTree
  HashLookupFinds
  EntriesListDirectory
  ReaderStaysInside
PROPERTIES
  ImplementsContainer
  CallsReturn
