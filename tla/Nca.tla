--------------------------------- MODULE Nca ---------------------------------
(***************************************************************************)
(* NcaBuilder and PlainNca of write/nca.rs, with the hash structures of    *)
(* write/nca/ivfc.rs and write/nca/partition.rs, and Nca of read/nca.rs    *)
(* over a decrypted image.  Sections are placed by index in any order;     *)
(* build lays them out after the header in index order, each behind the    *)
(* hashes that cover it, and records where it put them in media units.  A  *)
(* method that fails consumes the builder, so an error ends it.            *)
(*                                                                         *)
(* try_from_bytes goes through the four slots, and section(index) computes *)
(* the same ranges again, turning a failure into an absent section: a      *)
(* check made only in one of the two places would hide a section, or       *)
(* misreport its encryption.  Where nothing was built the reader meets     *)
(* foreign images.                                                         *)
(***************************************************************************)
EXTENDS Integers, FiniteSetsExt, Sequences

CONSTANTS
  None,              \* Option::None
  Settings,          \* sdk_version, key_generation, key_area_key and section arguments
  Hash(_),           \* SHA-256 of bytes: HASH_SIZE bytes
  HashHeader(_),     \* SHA-256 of an FS header
  Ncas,              \* buffers the crate did not build
  HASH_SIZE,         \* 0x20
  MEDIA,             \* MEDIA_UNIT_SIZE: 0x200
  HEADER,            \* NCA_HEADER_SIZE: 0xC00
  IVFC_BLOCK,        \* IVFC_BLOCK_SIZE: 0x4000
  AES_BLOCK,         \* 0x10
  U32,               \* 2^32
  U64_MAX,
  MaxCalls           \* bound on the calls before build

\* Units nest, and an offset counted in units of a u32 fits a u64.
ASSUME NcaUnits ==
  /\ HASH_SIZE \in Nat \ {0} /\ MEDIA \in Nat \ {0} /\ IVFC_BLOCK \in Nat \ {0} /\ AES_BLOCK \in Nat \ {0}
  /\ HEADER \in Nat \ {0} /\ HEADER % MEDIA = 0 /\ MEDIA % AES_BLOCK = 0
  /\ U32 \in Nat /\ U64_MAX \in Nat /\ U32 * MEDIA =< U64_MAX

VARIABLES
  phase,             \* "set", "built", "panic", or the error a call returned
  b,                 \* the builder
  calls,             \* calls so far
  image,             \* PlainNca: header and body
  rpc,               \* the reader: "none", "ready", "done"
  nca,               \* the buffer handed to try_from_bytes
  result             \* what the last call returned

bVars == <<phase, b, calls, image>>
rVars == <<rpc, nca, result>>

(***************************************************************************)
(* NcaBuilder                                                              *)
(***************************************************************************)
Byte == 0..255

NCA3_MAGIC == "NCA3"
Slots == 0..3                    \* NCA_SECTION_COUNT
IVFC_MAX_LEVELS == 6
MAX_KEY_GENERATION == 32
NoImage == <<>>
BuilderErrors == {"NotANumber", "OutOfRange", "IndexOutOfRange", "IndexOccupied", "TooLarge", "panic"}

BInit ==
  /\ phase = "set" /\ calls = 0 /\ image = NoImage
  /\ \E content_type \in Settings.content_type :
       b = [content_type |-> content_type, sdk_version |-> 0, key_generation |-> 1,
            key_area |-> [i \in Slots |-> 0], sections |-> [i \in Slots |-> None]]

(***************************************************************************)
(* The setters                                                             *)
(***************************************************************************)
Calling == phase = "set" /\ calls < MaxCalls /\ calls' = calls + 1 /\ UNCHANGED image
Accept(b1) == b' = b1 /\ UNCHANGED phase
Refuse(error) == phase' = error /\ UNCHANGED b

SdkVersion(version) == Calling /\ Accept([b EXCEPT !.sdk_version = version])

\* KeyGeneration is parsed from text, or converted from a u8, before it is set;
\* text that is no decimal u32 is outside Nat.
KeyGenerationError(text) ==
  IF text \notin Nat THEN "NotANumber" ELSE IF text = 0 \/ text > MAX_KEY_GENERATION THEN "OutOfRange" ELSE "none"

SetKeyGeneration(text) ==
  /\ Calling
  /\ IF KeyGenerationError(text) # "none"
     THEN Refuse(KeyGenerationError(text))
     ELSE Accept([b EXCEPT !.key_generation = text])

KeyAreaKey(index, key) ==
  /\ Calling
  /\ IF index \notin Slots THEN Refuse("IndexOutOfRange") ELSE Accept([b EXCEPT !.key_area[index] = key])

AddSection(index, section) ==
  /\ Calling
  /\ IF index \notin Slots THEN Refuse("IndexOutOfRange")
     ELSE IF b.sections[index] # None THEN Refuse("IndexOccupied")
     ELSE Accept([b EXCEPT !.sections[index] = section])

(***************************************************************************)
(* Hash structures                                                         *)
(***************************************************************************)
Zeros(n) == [i \in 1..n |-> 0]

BlockCount(bytes, size) == (Len(bytes) + size - 1) \div size

\* The k-th chunk, the last one short when the bytes end inside it.
Chunk(bytes, size, k) == SubSeq(bytes, (k - 1) * size + 1, Min({k * size, Len(bytes)}))

\* The digests of the chunks, one after the other.
HashBlocks(bytes, size) ==
  LET digest == [k \in 1..BlockCount(bytes, size) |-> Hash(Chunk(bytes, size, k))]
  IN  [j \in 1..(BlockCount(bytes, size) * HASH_SIZE) |->
         digest[((j - 1) \div HASH_SIZE) + 1][((j - 1) % HASH_SIZE) + 1]]

\* Unconditional: a whole number of units gains one more.
PadWhole(bytes, unit) == bytes \o Zeros(unit - (Len(bytes) % unit))

hash_level(level) == PadWhole(HashBlocks(level, IVFC_BLOCK), IVFC_BLOCK)

\* ivfc::build derives the levels downwards from the image, which is the last.
IvfcLevels(romfs) ==
  LET level4 == hash_level(romfs)
      level3 == hash_level(level4)
      level2 == hash_level(level3)
      level1 == hash_level(level2)
      level0 == hash_level(level1)
  IN  [i \in 0..(IVFC_MAX_LEVELS - 1) |-> <<level0, level1, level2, level3, level4, romfs>>[i + 1]]

\* What a level adds to the offsets after it.
LevelBefore(levels, j, i) == IF j < i THEN Len(levels[j]) ELSE 0

\* Mutant: the offset is recorded after the level's own length is added.
LevelOffsetAfter(levels, i) ==
  LevelBefore(levels, 0, i + 1) + LevelBefore(levels, 1, i + 1) + LevelBefore(levels, 2, i + 1)
    + LevelBefore(levels, 3, i + 1) + LevelBefore(levels, 4, i + 1) + LevelBefore(levels, 5, i + 1)

LevelOffset(levels, i) ==
  LevelBefore(levels, 0, i) + LevelBefore(levels, 1, i) + LevelBefore(levels, 2, i)
    + LevelBefore(levels, 3, i) + LevelBefore(levels, 4, i)

Ivfc(romfs) ==
  LET levels == IvfcLevels(romfs)
  IN  [data       |-> levels[0] \o levels[1] \o levels[2] \o levels[3] \o levels[4] \o levels[5],
       superblock |-> [level_count |-> IVFC_MAX_LEVELS + 1,
                       levels      |-> [i \in 0..(IVFC_MAX_LEVELS - 1) |->
                                          [logical_offset |-> LevelOffset(levels, i), hash_data_size |-> Len(levels[i])]],
                       master_hash |-> Hash(levels[0])]]

\* partition::build: the recorded size and the master hash leave the padding out,
\* the recorded offset counts it.
Partition(archive, block_size) ==
  LET table == HashBlocks(archive, block_size)
  IN  [data       |-> PadWhole(table, MEDIA) \o archive,
       superblock |-> [master_hash       |-> Hash(table),
                       block_size        |-> block_size,
                       hash_table_offset |-> 0,
                       hash_table_size   |-> Len(table),
                       pfs0_offset       |-> Len(PadWhole(table, MEDIA)),
                       pfs0_size         |-> Len(archive)]]

(***************************************************************************)
(* build                                                                   *)
(***************************************************************************)
NoFsHeader == [fs_type |-> 0, hash_type |-> 0, crypt_type |-> 0, section_ctr |-> 0, superblock |-> None]

\* The sections callers supply.
ASSUME SectionsSupplied ==
  \A s \in Settings.section :
    /\ s.kind \in {"RomFs", "Pfs0"} /\ s.bytes \in Seq(Byte)
    /\ s.kind = "Pfs0" => s.block \in Nat

\* What the chunks digested for section s are.
Digested(s) ==
  IF s.kind = "RomFs"
  THEN UNION {{Chunk(IvfcLevels(s.bytes)[l], IVFC_BLOCK, k) :
                 k \in 1..BlockCount(IvfcLevels(s.bytes)[l], IVFC_BLOCK)} : l \in 1..(IVFC_MAX_LEVELS - 1)}
  ELSE IF s.block = 0 THEN {}
  ELSE {Chunk(s.bytes, s.block, k) : k \in 1..BlockCount(s.bytes, s.block)}

\* A digest is HASH_SIZE bytes.
ASSUME DigestBytes ==
  \A s \in Settings.section : \A bytes \in Digested(s) : Hash(bytes) \in [1..HASH_SIZE -> Byte]

LaidOut(section) == IF section.kind = "RomFs" THEN Ivfc(section.bytes) ELSE Partition(section.bytes, section.block)

\* lay_out_section, its header: RomFs is 0 and 3, Pfs0 is 1 and 2, and encryption
\* None is 1 and Ctr 3.
FsHeader(section, laid) ==
  [fs_type     |-> IF section.kind = "RomFs" THEN 0 ELSE 1,
   hash_type   |-> IF section.kind = "RomFs" THEN 3 ELSE 2,
   crypt_type  |-> IF section.encryption = "Ctr" THEN 3 ELSE 1,
   section_ctr |-> 0,
   superblock  |-> laid.superblock]

PadToMediaUnit(bytes) == IF Len(bytes) % MEDIA = 0 THEN bytes ELSE PadWhole(bytes, MEDIA)

\* The generation is split over two fields: 2 saturates the low one.
SplitKeyGeneration(generation) ==
  CASE generation = 1 -> <<0, 0>>
    [] generation = 2 -> <<2, 0>>
    [] OTHER -> <<2, generation>>

\* The body once a slot's section, if any, is appended and padded.
Grown(body, laid, i) == IF i \in DOMAIN laid THEN PadToMediaUnit(body \o laid[i].data) ELSE body

\* The body as it stands before the section at index n, for n in 0..4.
Bodies(laid) ==
  LET body1 == Grown(<<>>, laid, 0)
      body2 == Grown(body1, laid, 1)
      body3 == Grown(body2, laid, 2)
      body4 == Grown(body3, laid, 3)
  IN  [n \in 0..4 |-> <<<<>>, body1, body2, body3, body4>>[n + 1]]

\* Mutant: a section's counter restarts at its own first byte.
SectionCounterRelative(section_ctr, offset) == <<section_ctr, 0>>

\* The counter at a byte of the file: the section's half and the AES block.
SectionCounter(section_ctr, offset) == <<section_ctr, offset \div AES_BLOCK>>

MediaOffset(bytes) == (HEADER + Len(bytes)) \div MEDIA

ImageOf(laid, bodies) ==
  LET fs == [i \in Slots |-> IF b.sections[i] = None THEN NoFsHeader ELSE FsHeader(b.sections[i], laid[i])]
  IN  [len             |-> HEADER + Len(bodies[4]),
       magic           |-> NCA3_MAGIC,
       content_type    |-> b.content_type,
       nca_size        |-> HEADER + Len(bodies[4]),
       sdk_version     |-> b.sdk_version,
       crypto_type     |-> SplitKeyGeneration(b.key_generation)[1],
       crypto_type2    |-> SplitKeyGeneration(b.key_generation)[2],
       keys            |-> b.key_area,
       section_entries |-> [i \in Slots |-> IF b.sections[i] = None THEN [start |-> 0, end |-> 0]
                              ELSE [start |-> MediaOffset(bodies[i]), end |-> MediaOffset(bodies[i + 1])]],
       section_hashes  |-> [i \in Slots |-> IF b.sections[i] = None THEN None ELSE HashHeader(fs[i])],
       fs_headers      |-> fs,
       body            |-> bodies[4]]

\* The division by the block size, and chunks(0) after it, panic.
ZeroBlock(i) == b.sections[i] # None /\ b.sections[i].kind = "Pfs0" /\ b.sections[i].block = 0

\* What lay_out_section returns for each slot it gets to.
Laid == [i \in {j \in Slots : b.sections[j] # None /\ ~ZeroBlock(j)} |-> LaidOut(b.sections[i])]

\* media_offset: a unit number that does not fit a u32.
TooLarge(i) == i \in DOMAIN Laid /\ MediaOffset(Bodies(Laid)[i + 1]) >= U32

\* Slots are laid out in order: the first to fail decides how.
Build ==
  /\ phase = "set"
  /\ LET zero == {i \in Slots : ZeroBlock(i)}
         tooLarge == {i \in Slots : TooLarge(i)}
     IN  \/ /\ zero = {} /\ tooLarge = {}
            /\ phase' = "built" /\ image' = ImageOf(Laid, Bodies(Laid))
         \/ /\ \E i \in tooLarge : \A z \in zero : i < z
            /\ phase' = "TooLarge" /\ UNCHANGED image
         \/ /\ \E z \in zero : \A i \in tooLarge : z < i
            /\ phase' = "panic" /\ UNCHANGED image
  /\ UNCHANGED <<b, calls>>

\* PlainNca::ctr_sections: what a caller must still encrypt, in the body.
CtrSections ==
  {[index   |-> i,
    first   |-> image.section_entries[i].start * MEDIA - HEADER,
    last    |-> image.section_entries[i].end * MEDIA - HEADER,
    counter |-> SectionCounter(image.fs_headers[i].section_ctr, image.section_entries[i].start * MEDIA)] :
   i \in {j \in Slots : image.fs_headers[j].crypt_type = 3}}

BNext ==
  \/ \E v \in Settings.sdk_version : SdkVersion(v)
  \/ \E v \in Settings.key_generation : SetKeyGeneration(v)
  \/ \E i \in Settings.index, v \in Settings.key : KeyAreaKey(i, v)
  \/ \E i \in Settings.index, s \in Settings.section : AddSection(i, s)
  \/ Build
-----------------------------------------------------------------------------
(***************************************************************************)
(* Nca                                                                     *)
(***************************************************************************)
SECTION_COUNT == 4
ContentTypes == 0..5       \* Program .. PublicData
HashTypes == {2, 3}        \* Pfs0, RomFs
CryptTypes == 1..4         \* None, Xts, Ctr, Bktr

NoResult == [status |-> "none"]
Err(error) == [status |-> "err", error |-> error]

RInit == rpc = "none" /\ nca = <<>> /\ result = NoResult

(***************************************************************************)
(* section_range and data_range                                            *)
(***************************************************************************)
StartOf(n, i) == n.section_entries[i].start * MEDIA
EndOf(n, i) == n.section_entries[i].end * MEDIA

\* An entry that ends at unit zero is an unused slot, whatever else it holds.
Absent(n, i) == EndOf(n, i) = 0

RangeError(n, i) ==
  IF EndOf(n, i) < StartOf(n, i) \/ StartOf(n, i) < HEADER THEN "SectionBoundsInvalid"
  ELSE IF EndOf(n, i) > n.len THEN "SectionOutOfBounds"
  ELSE "none"

\* level_count counts the master hash too: the image is two below it.
LevelInvalid(fs) ==
  fs.hash_type = 3 /\ (fs.superblock.level_count < 2 \/ fs.superblock.level_count - 2 >= IVFC_MAX_LEVELS)

\* Mutant: the image is taken to be the level one below the count.
DataOffsetOneBelow(fs) ==
  IF fs.hash_type = 2 THEN fs.superblock.pfs0_offset
  ELSE fs.superblock.levels[(fs.superblock.level_count - 1) % IVFC_MAX_LEVELS].logical_offset

DataOffset(fs) ==
  IF fs.hash_type = 2 THEN fs.superblock.pfs0_offset
  ELSE fs.superblock.levels[fs.superblock.level_count - 2].logical_offset

DataSize(fs) ==
  IF fs.hash_type = 2 THEN fs.superblock.pfs0_size
  ELSE fs.superblock.levels[fs.superblock.level_count - 2].hash_data_size

\* data_range, for a known hash type: checked_add, then the section's size.
DataError(fs, section_size) ==
  IF LevelInvalid(fs) THEN "IvfcLevelCountInvalid"
  ELSE IF DataOffset(fs) + DataSize(fs) > U64_MAX \/ DataOffset(fs) + DataSize(fs) > section_size
  THEN "DataRegionOutOfBounds"
  ELSE "none"

(***************************************************************************)
(* try_from_bytes                                                          *)
(***************************************************************************)
\* Mutant: the encryption type is taken as it is.
SectionErrorAnyCrypt(n, i) ==
  LET fs == n.fs_headers[i] IN
  IF Absent(n, i) THEN "none"
  ELSE IF RangeError(n, i) # "none" THEN RangeError(n, i)
  ELSE IF fs.hash_type \notin HashTypes THEN "UnknownHashType"
  ELSE DataError(fs, EndOf(n, i) - StartOf(n, i))

SectionError(n, i) ==
  LET fs == n.fs_headers[i] IN
  IF Absent(n, i) THEN "none"
  ELSE IF RangeError(n, i) # "none" THEN RangeError(n, i)
  ELSE IF fs.crypt_type \notin CryptTypes THEN "UnknownCryptType"
  ELSE IF fs.hash_type \notin HashTypes THEN "UnknownHashType"
  ELSE DataError(fs, EndOf(n, i) - StartOf(n, i))

\* The first slot that is wrong decides.
HeaderError(n) ==
  IF n.len < HEADER THEN "BufferTooSmall"
  ELSE IF n.magic # NCA3_MAGIC THEN "InvalidMagic"
  ELSE IF n.content_type \notin ContentTypes THEN "UnknownContentType"
  ELSE IF SectionError(n, 0) # "none" THEN SectionError(n, 0)
  ELSE IF SectionError(n, 1) # "none" THEN SectionError(n, 1)
  ELSE IF SectionError(n, 2) # "none" THEN SectionError(n, 2)
  ELSE SectionError(n, 3)

TryFromBytes(n) ==
  /\ rpc = "none"
  /\ nca' = n
  /\ IF HeaderError(n) = "none"
     THEN rpc' = "ready" /\ UNCHANGED result
     ELSE rpc' = "done" /\ result' = Err(HeaderError(n))

(***************************************************************************)
(* section, and what an NcaSection reports                                 *)
(***************************************************************************)
\* Mutant: the low field alone.
KeyGenerationLow == Max({nca.crypto_type, 1})

KeyGeneration == Max({nca.crypto_type, nca.crypto_type2, 1})

BytesOf(first, last) == SubSeq(nca.body, first - HEADER + 1, last - HEADER)

\* An unknown value would read as None.
Encryption(fs) == IF fs.crypt_type \in CryptTypes THEN fs.crypt_type ELSE 1

FsType(fs) == IF fs.fs_type = 1 THEN "Pfs0" ELSE "RomFs"

Counter(fs, start) == IF Encryption(fs) # 3 THEN "none" ELSE <<fs.section_ctr, start \div AES_BLOCK>>

View(i) ==
  LET fs == nca.fs_headers[i]
      start == StartOf(nca, i)
  IN  [status     |-> "ok",
       index      |-> i,
       first      |-> start,
       last       |-> EndOf(nca, i),
       fs_type    |-> FsType(fs),
       encryption |-> Encryption(fs),
       counter    |-> Counter(fs, start),
       superblock |-> fs.superblock,
       bytes      |-> BytesOf(start, EndOf(nca, i)),
       data       |-> BytesOf(start + DataOffset(fs), start + DataOffset(fs) + DataSize(fs))]

\* Every failure is an absent section.
SectionOf(i) ==
  LET fs == nca.fs_headers[i] IN
  IF \/ Absent(nca, i)
     \/ RangeError(nca, i) # "none"
     \/ fs.hash_type \notin HashTypes
     \/ DataError(fs, EndOf(nca, i) - StartOf(nca, i)) # "none"
  THEN [status |-> "absent", index |-> i]
  ELSE View(i)

\* An index past the last slot is asserted.
Section(i) ==
  /\ rpc = "ready"
  /\ IF i >= SECTION_COUNT
     THEN rpc' = "done" /\ result' = [status |-> "asserted"]
     ELSE UNCHANGED rpc /\ result' = SectionOf(i)
  /\ UNCHANGED nca

RNext == \E i \in 0..SECTION_COUNT : Section(i)

\* The fields try_from_bytes computes with are unsigned.
HeaderFields(n) ==
  /\ n.len \in Nat
  /\ \A i \in Slots :
       LET sb == n.fs_headers[i].superblock IN
       /\ n.section_entries[i].start \in Nat /\ n.section_entries[i].end \in Nat
       /\ n.fs_headers[i].hash_type = 2 => sb.pfs0_offset \in Nat /\ sb.pfs0_size \in Nat
       /\ n.fs_headers[i].hash_type = 3 =>
            /\ sb.level_count \in Nat
            /\ \A l \in 0..(IVFC_MAX_LEVELS - 1) :
                 sb.levels[l].logical_offset \in Nat /\ sb.levels[l].hash_data_size \in Nat

ASSUME ForeignFields == \A n \in Ncas : HeaderFields(n)

\* NcaContentType has no other values.
ASSUME ContentTypesSupplied == Settings.content_type \subseteq ContentTypes

\* try_from_bytes called on an image the crate did not build.
ForeignNca == \E n \in Ncas : TryFromBytes(n)
-----------------------------------------------------------------------------
vars == <<bVars, rVars>>

Init == BInit /\ RInit

Finished == (rpc = "done" \/ phase \in BuilderErrors) /\ UNCHANGED vars

Next ==
  \/ rpc = "none" /\ BNext /\ UNCHANGED rVars
  \/ phase = "built" /\ TryFromBytes(image) /\ UNCHANGED bVars
  \/ phase = "set" /\ calls = 0 /\ ForeignNca /\ UNCHANGED bVars
  \/ RNext /\ UNCHANGED bVars
  \/ Finished

Spec == Init /\ [][Next]_vars
-----------------------------------------------------------------------------
\* "Proven at construction": for an image try_from_bytes accepted, section() hides
\* no slot that is in use, and what it returns is inside the image, its data
\* inside the section, and its encryption the one the header records, never the
\* plaintext that an unknown type would fall back to.
NothingMasked ==
  /\ result.status = "absent" => Absent(nca, result.index)
  /\ result.status = "ok" =>
       LET fs == nca.fs_headers[result.index] IN
       /\ result.encryption = fs.crypt_type
       /\ HEADER =< result.first /\ result.first =< result.last /\ result.last =< nca.len
       /\ DataOffset(fs) + DataSize(fs) =< result.last - result.first

(***************************************************************************)
(* The abstract container: a slot's section comes back whole or the slot   *)
(* is empty.                                                               *)
(***************************************************************************)
Kept == [i \in Slots |-> IF b.sections[i] = None THEN None ELSE b.sections[i].bytes]

Abstract ==
  INSTANCE Container WITH
    Keys    <- Slots,
    content <- Kept,
    state   <- IF phase = "built" THEN "sealed"
               ELSE IF phase # "set" THEN "failed"
               ELSE IF rpc # "none" THEN "foreign" ELSE "open",
    answer  <- IF result.status = "ok" THEN <<result.index, result.data>>
               ELSE IF result.status = "absent" THEN <<result.index, None>>
               ELSE IF result.status = "asserted" THEN <<"aside">>
               ELSE <<result.status>>

\* What lay_out_section appends and skips is invisible to a reader: section(i) of a
\* built archive returns in data() exactly the image or archive placed at i, and
\* None exactly where nothing was placed, in whatever order the slots were filled.
ImplementsContainer == Abstract!Spec

(***************************************************************************)
(* Verification, as the format defines it: from the header alone.          *)
(***************************************************************************)
Span(i, offset, size) ==
  LET from == image.section_entries[i].start * MEDIA - HEADER + offset
  IN  SubSeq(image.body, from + 1, from + size)

\* Every block of `bytes` has its digest at its place in `table`.
Covers(table, bytes, block) ==
  \A k \in 1..BlockCount(bytes, block) :
    SubSeq(table, (k - 1) * HASH_SIZE + 1, k * HASH_SIZE) = Hash(Chunk(bytes, block, k))

\* Any block can be verified: the header's digest covers the FS header, its master
\* hash covers the table or level 0, and each level, found at the offset and size
\* the superblock records, holds the digests of the one above ("the tree stays
\* consistent either way" when a level or table gains a whole unit of padding).
SectionsVerify ==
  phase = "built" =>
    \A i \in {j \in Slots : b.sections[j] # None} :
      LET fs == image.fs_headers[i]
          sb == fs.superblock
      IN  /\ image.section_hashes[i] = HashHeader(fs)
          /\ fs.hash_type = 2 =>
               LET table == Span(i, sb.hash_table_offset, sb.hash_table_size) IN
               /\ sb.master_hash = Hash(table)
               /\ Covers(table, Span(i, sb.pfs0_offset, sb.pfs0_size), sb.block_size)
          /\ fs.hash_type = 3 =>
               LET level == [l \in 0..(sb.level_count - 2) |->
                               Span(i, sb.levels[l].logical_offset, sb.levels[l].hash_data_size)] IN
               /\ sb.master_hash = Hash(level[0])
               /\ \A l \in 1..(sb.level_count - 2) : Covers(level[l - 1], level[l], IVFC_BLOCK)

\* Encryption is the caller's, from two views of one archive: the range and counter
\* ctr_sections gives a writer are those NcaSection gives a reader, no section is
\* left out, and no two sections share a block of keystream ("the counter is tied
\* to where the section sits in the file").
CountersAgree ==
  phase = "built" =>
    /\ result.status = "ok" =>
         \/ result.counter = "none" /\ \A c \in CtrSections : c.index # result.index
         \/ [index |-> result.index, first |-> result.first - HEADER, last |-> result.last - HEADER,
             counter |-> result.counter] \in CtrSections
    /\ \A c, d \in CtrSections : c # d =>
         {c.counter[2] + k : k \in 0..((c.last - c.first) \div AES_BLOCK - 1)}
           \intersect {d.counter[2] + k : k \in 0..((d.last - d.first) \div AES_BLOCK - 1)} = {}

\* The two fields the key generation is split over, with their gap, rejoin to the
\* generation that was set: "Taking the larger and flooring at 1 recovers the
\* single number both halves stand for."
KeyGenerationRejoins == phase = "built" /\ rpc = "ready" => KeyGeneration = b.key_generation
==============================================================================
