SPECIFICATION TitleSpec
CONSTANTS
  NoData = NoData
  Metadatas <- MCMetadatas
  Acis <- MCAcis
  Acids <- MCAcids
  Npdms <- MCNpdms
  META_SIZE = 4
  ACID_SIZE = 8
  ACI0_SIZE = 4
  SIGNATURE = 4
  NAME_BYTES = 5
  None = None
  Titles = {1, 30}
  Contents <- MCContents
  Cnmts <- MCCnmts
  SIZE_LIMIT = 8
  PATCH_OFFSET = 5
  CNMT_U64 = 32
  Unset = Unset
  NacpCalls <- MCNacpCalls
  NacpBuffers <- MCNacpBuffers
  NACP_SIZE = 2
  NAME_FIELD = 3
  AUTHOR_FIELD = 2
  VERSION_FIELD = 3
  DLC_OFFSET = 4
  NACP_U64 = 16
  MaxNacpCalls = 2
  NotSet = NotSet
  Settings <- MCSettings
  CapLists <- MCCapLists
  Kips <- MCKips
  Compress <- MCCompress
  Decompress <- MCDecompress
  MaxCaps = 2
  MaxCalls = 7
  LEAD = 195
  CONT = 169
  USIZE_MAX = 1000
INVARIANT
  MapSizeKept
