SPECIFICATION Spec
CONSTANTS
  Names <- MCNames
  Contents <- MCContents
  Directories <- MCDirectories
  MaxFiles = 4
  Archives <- MCArchives
  Lookups <- MCLookups
  INVALID = 255
  USIZE_MAX = 361
  ISIZE_MAX = 180
  U32_MAX = 255
  None = None
INVARIANTS
  ArchiveIsTheSet
  ReaderStaysInside
PROPERTIES
  ImplementsContainer
