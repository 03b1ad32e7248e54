SPECIFICATION Spec
CONSTANTS
  None = None
  Settings <- MCSettings
  Ncas <- MCNcas
  Hash <- MCHash
  HashHeader <- MCHashHeader
  HASH_SIZE = 2
  MEDIA = 4
  HEADER = 8
  IVFC_BLOCK = 4
  AES_BLOCK = 2
  U32 = 30
  U64_MAX = 1000
  MaxCalls = 3
INVARIANTS
  NothingMasked
  SectionsVerify
  CountersAgree
  KeyGenerationRejoins
PROPERTIES
  ImplementsContainer
