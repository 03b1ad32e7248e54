# A TLA+ model of nx-object

nx-object builds and reads the binary formats of one console: executables (NSO, NRO, KIP1), archives
(PFS0, RomFS, NCA) and metadata (NPDM, CNMT, NACP). It is a sequential library without threads, I/O
loops or persistence; what is hard in it is in its algorithms: a compressor and a decompressor that
work in place, builders whose output must not depend on the order they were fed in, tables of offsets
that have to agree with each other, and readers that take every length from bytes they did not write.

## Inventory

| Component | Source | State it keeps | Operations | Model |
|---|---|---|---|---|
| BLZ | `blz.rs` | reversed input, output buffer, read/write/flag cursors, best split; hash heads and chain links | `compress`, `decompress`, `MatchFinder::new`, `longest_match` | yes |
| RomFS | `raw,write,read/romfs.rs` | vectors of directories and files linked by index; header and metadata tables; lookup and iterator cursors | `add_file`, `from_directory`, `build`, `try_from_bytes`, `root_dir`, `open`, `entries`, `data` | yes |
| PFS0 | `raw,write,read/pfs0.rs` | the set of names and the vector of files; entry and string tables | `add_file`, `from_directory`, `build`, `try_from_bytes`, `files`, `file_by_name` | yes |
| KIP1 | `raw,write,read/kip.rs` | builder fields, header, segment descriptors | sixteen setters, `build`, `try_from_bytes`, `segment`, `name` | yes |
| NCA, IVFC, partition | `raw,write,read/nca.rs`, `write/nca/*.rs` | sections by slot, hash tables and levels, the header's entries, digests and key fields | `sdk_version`, `key_generation`, `key_area_key`, `section`, `build`, `ctr_sections`; `try_from_bytes`, `section`, `key_generation`, `NcaSection` | yes |
| NSO | `raw,write,read/nso.rs` | builder fields, header, segment extents | nine setters, `build`, `try_from_bytes`, `try_from_ptr`, `text_compressed`.., `text`.. | yes |
| NRO | `raw,write,read/nro.rs` | builder fields, header, segment extents, asset header | twelve setters, `build`, `try_from_bytes`, `try_from_ptr`, segment and asset accessors | yes |
| MOD0 | `raw,read/mod0.rs` | the header inside a segment | `Mod0::try_from_bytes` | yes |
| NPDM | `raw,write,read/npdm.rs` | title metadata, requested and permitted access | `with_aci`, `with_acid`, `build`, `try_from_bytes`, the ACI0 blocks | yes |
| CNMT | `raw,write,read/cnmt.rs` | one content record per type | `title_version`, `add_content`, `build`, `try_from_bytes`, `records`, `extended_header` | yes |
| NACP | `raw,write,read/nacp.rs` | sixteen titles, version, ids and save data sizes | nine setters, `build`, `try_from_bytes`, `language_entry`, `language_entry_for`, `display_version` | yes |
| ELF segments | `elf/segments.rs` | the loadable segments, by address | `parse`, `into_nro_builder`, `into_nso_builder` | yes |

Interactions: a KIP1 build compresses its three segments with BLZ and a KIP1 reader expands them; NCA
sections wrap a PFS0 or a RomFS; NRO may carry a RomFS and a NACP; NSO and NRO may be filled
from the ELF segments. All interactions are calls; the only state that crosses from one component to
another is the bytes one of them returns.

What makes each modelled component correct:

- BLZ: a stream expands to its input, in place; no write leaves the worst-case buffer; a malformed
  stream is refused without an index leaving the buffer; the index answers like a full scan.
- RomFS, PFS0: the image is a function of the tree (or set) stored, every offset in it points at what it
  names, and the reader returns what was stored; on foreign bytes no slice leaves the buffer.
- KIP1: whatever order the setters were called in, segments and bss come back; on foreign
  bytes the running sum of sizes that locates a segment stays inside the buffer.
- NSO: the bytes an accessor expands are the ones the header's hash covers; on foreign bytes, and on an
  image whose 32-bit offsets wrapped, no slice leaves the buffer.
- NCA: a slot's section comes back whole; every block can be verified from the header; writer and reader
  derive the same counters and the same key generation; no section that was accepted is hidden.
- NRO, MOD0, ELF: a program loaded from the image has in memory what its ELF says; segments and assets come
  back under their names; on foreign bytes no slice leaves the buffer.
- NPDM, CNMT, NACP: what a title declares is what the console decodes, through offsets, bit fields, six-byte
  sizes and two language tables.

The hazards the code is exposed to are listed, each at its line, under `hazards` of `PROJECT.json`.

## Modules

RomFS, PFS0, NSO and NRO have a builder module, a reader module, and one that composes the two; in KIP1, NCA and
the metadata formats builder and reader share a module. Everywhere `build` hands its image to
`try_from_bytes`, or, where nothing was built, the reader is given bytes the crate did not build
(`ForeignImage`, `ForeignArchive`, `ForeignKip`, `ForeignNca`, `ForeignBytes`, `ForeignPtr`, `OpenForeignCnmt`..). What must
hold of the reader on any bytes is stated beside the reader, what relates the two halves in the
composition. The `MC*` modules hold only the values TLC is given. The `*Proofs` modules and `LayoutLemmas`, which
they share, hold theorems and their lemmas and no model.

### The abstract specification

`Container` says what a format promises, without any of its tables: contents are put under keys one at a
time, the container is sealed or building it fails, and from then on asking for a key answers with what was
last put there, or with nothing. Five formats implement it (`ImplementsContainer`, and
`RecordsImplementContainer` of `Cnmt`), each by its own refinement mapping:

| Format | Keys | Contents | Not sealed |
|---|---|---|---|
| RomFS | paths, as `open` trims them | file bytes | |
| PFS0 | names looked up | file bytes | |
| NCA | the four slots | the filesystem image placed there | |
| NRO | segment and asset names | padded segment under the header, asset bytes | addresses under which segments overlap or leave the image are "lossy" |
| CNMT | content types | hash, id and size | |

Every `Get` of a sealed container is an accessor that returned, so the mapping covers every lookup, not a final
state; a step that changes two keys at once, or a builder that still accepts after it failed, is no step of
the abstract machine either.

### BLZ

- `BlzMatch`: the codec's constants and `LongestMatch`, the brute-force scan the unit tests use as
  reference.
- `BlzMatchFinder`: `MatchFinder`. `Link` and `Built` are the pass of `new`; `Query`, `QueryTail`, `Visit`, `Leave`
  are `longest_match`, one chain candidate per step. The hash is a constant operator, since nothing may depend
  on which function it is.
- `BlzEncoder`: `compress_into`, one code per step (`EmitMatch`, `EmitLiteral`), then the loop that shifts out the
  last flag byte, one bit per step (`FlushBit`), the layout decision and `store_uncompressed` or `store_packed`, whose relocation loop moves one byte per
  step. The finder is held as its answers. `boundaries` is a history variable.
- `BlzDecoder`: `decompress`: the checks of the trailer, each with its own error, then the decoding loop,
  one copied byte per step.
- `BlzCodec` composes the two; `BlzDecompress` runs the decoder on arbitrary streams. `MCBlzCodec` runs both,
  one call at a time.

### RomFS

- `NameOrder`: the byte order of names Rust's `str` comparison gives and the stable sort by it (used by PFS0 too).
- `RomFsFormat`: sizes, alignments and the hash table's size.
- `RomFsBuilder`: `add_file` with its path checks and the directories it creates; `from_directory` with
  the listing order of every directory chosen freely; `build` with the sort and renumbering, the
  offsets, links, hash chains and the header. `tree` records what the caller stored and nothing of how.
- `RomFsReader`: `try_from_bytes`, lookups (one sibling per step), `data`, and the entry iterator.
- `RomFs` composes them, and defines the image a tree alone determines, to compare `build`'s with.

### PFS0

- `Pfs0Builder`, `Pfs0Reader`, `Pfs0`, in the same manner. The string table is modelled as
  bytes, because names that share it, run on or are not terminated are what the reader's checks are about.
  `build` is several steps: the sort (`Build`), the sums that size the tables, one file per step (`AddUp`), the
  zeroed buffer with its header (`Allocate`), the loop that writes entry, name and data, one file per step (`WriteFile`),
  and the return. `sums` is a history variable: the offsets after each file, whose last is the totals.
  `CapacityOverflow` is the panic of `vec!` where no buffer is that long. `U32_MAX` is a bound: past it the casts of the
  string table's size and offsets to `u32` would wrap, and the model does not follow.

### KIP1

- `Kip1`: every setter as `b[field] := value`, in any order and repeatedly, `kernel_capabilities`, and
  `build` with its validation in the code's order; then `try_from_bytes`, `segment` and `name`. BLZ
  enters as a pair of constant operators, with the assumption `BlzRoundTrip`, which is what `RoundTrip`
  says of the codec and `CodecRoundTrip` proves of it.

### NSO

- `NsoBuilder`: the setters likewise; `build` pads, hashes and compresses each segment, then computes offsets
  as `u32` sums: `Build` is the profile in which they wrap, `BuildOverflows` the one in which they panic.
  `NsoReader`: `try_from_bytes`, `try_from_ptr` (for which the caller promises that the segments are mapped),
  the accessors of stored and of expanded bytes. `Nso` composes them, with `Lz4RoundTrip` assumed of LZ4.

### ELF, NRO and MOD0

- `ElfSegments`: `parse` as operators on what the external parser reports. `Loads` is the pairing of all raw program headers with
  the parser's iterator over the `PT_LOAD` ones (`elf/segments.rs:77`): it takes every one of those while they come first, and
  drops some where a header of another type precedes one. Then the segments taken, by address (the k-th is the one with
  k - 1 before it), the bss size with its two cases, the build id of the first note that has one, the MOD0 offset of text's second
  word. `FromElf` of `NroBuilder` and of `NsoBuilder` is `parse` followed by the conversion; addresses are
  narrowed to `u32` there.
- `NroBuilder`: the setters; `build` copies each padded segment to its address, writes the header over what
  lies at 0x10, and puts the assets after the end of data. The buffer is sized from the end of data alone, so that a copy may leave it: phase
  "panic". `BuildOverflows` is the profile in which the `u32` sum panics.
- `NroReader`: `try_from_bytes`, `try_from_ptr`, the accessors of segments and assets, and `ReadMod0`.
- `Nro` composes them.

### NCA

- `Nca`: the setters with their refusals; `build` lays out section after section, each an IVFC tree or a
  hash table and its archive, then pads it to a media unit; the first section that fails decides the outcome.
  `CtrSections` is what a writer encrypts with.
  `try_from_bytes` has the bounds and types of every present section, `section` turns its errors into
  `None`, and the view of a section is what it returns. `SectionsVerify` reads a section the way the format defines
  verification, from the header alone.

### Metadata

- `Npdm`: the three blocks of ACI0 and ACID as bytes, the headers as fields, a capability descriptor as the set of
  its bits. A number is written byte by byte in little endian, a `u64` above `i64::MAX` as its two's complement
  (`u64::MAX` is -1), so that TLC's integers hold all of them. The decoders in it take the blocks apart by the
  offsets in their headers and by the masks and shifts of `encode`, which for `Map` are not those of its comments (see below).
- `Cnmt`, `Nacp`: records and text fields; `Nacp` has both of the code's language tables. A CNMT is a sequence of
  units, so that the reader finds its records by offset.
- `MCMetadata` runs the three and KIP1, which share nothing, each with the others at rest.

What is abstracted: names and contents are short sequences of byte values; a byte that is not UTF-8
is the value `INVALID` (in KIP1 a two-byte character is `LEAD` then `CONT`); metadata entries are records
with their sizes in bytes, not byte strings; NCA images are plaintext and a digest is a constant operator; `USIZE_MAX` is a parameter at which checked sums overflow.

## Runs

| Run | What it asks |
|---|---|
| `blz_match_finder` | All buffers of two byte values up to nine bytes, a window of five, a longest match of four and a colliding hash: after any queries in any order, is the index complete, is each answer the scan's, and does each walk end? |
| `blz_codec` | With the code's own window and match sizes, inputs up to 40 bytes made of a head, a repeated block and a tail: does the stream expand to its input, do both in-place passes read only what they have not overwritten, does everything fit, is the split the cheapest, and is the result never larger than the stored form? On foreign streams with every trailer field on both sides of its check and codes cut short: are the indices in bounds, is the length right? Does every call, of either function, return? |
| `romfs` | Up to three `add_file` calls or one directory walk in any order: is the image the one its tree defines, do hash chains and listings find everything, does `open` implement `Container`? On foreign images with every link, length and table on both sides of its bound: does any slice leave the buffer, any walk its table? Does every call return, where the links have no cycle? |
| `pfs0` | Up to four files, or a directory, in any order: is the archive a function of the set, and does `file_by_name` implement `Container`? On foreign archives with every offset and size on both sides of its bound, names shared, empty, unterminated or not UTF-8: does any slice leave its region? |
| `nso` | Up to six setter calls in any order, or an ELF, then `build`, then the reader: does every segment come back padded and under its hash whenever the image fits in 32 bits, and does the ELF's memory? On wrapped and on foreign images: does any accessor slice outside the buffer? |
| `nca` | Up to three calls, placing sections in any slots in any order, `build`, then the reader: do sections come back, do they verify, do counters and key generation agree? On foreign images with each bound, type and superblock field on both sides of its check: is an accepted section ever hidden? |
| `nro` | Up to five setter calls, or an ELF and two more, `build`, then the reader: do segments and assets come back under their names, does the image load like the ELF, is MOD0 found? On foreign images: does any accessor slice outside the buffer? |
| `metadata` | Access lists, services and every kind of capability with values at, inside and past each field's width; content records of every type in any order; titles set for all or for each of eighteen languages: is what is decoded what was declared? KIP1, up to seven setter calls in any order, then `build`, then the reader: do segments and bss come back? On foreign KIP1 images whose stored sizes meet the end of the buffer, pass it, or overflow: does `segment` ever slice outside it? |

Four more runs check one sentence of the repository's documentation each, which the code does not
keep; `findings` of `PROJECT.json` quotes the sentences:

- `blz_decompress_doc`: a stream that runs out of codes early is still returned as `Ok`.
- `nro_empty_asset`: the accessor of an empty asset adds its unchecked offset before it looks at the size, so an
  image `try_from_bytes` accepted can make it overflow.
- `nro_mixed_headers`: an ELF that lists a header of another type before its `PT_LOAD` headers loses one of them: with four, the
  second becomes text and so on; with three, `parse` returns `MissingData`. `text` is then not the lowest-addressed `PT_LOAD`.
- `npdm_map_size`: two mappings whose sizes differ in bit 20 alone have the same descriptors, where the comments give
  the size 21 bits.

Further sentences disagree with the code; the definitions named here follow the code:

- `add_file` of RomFS drops empty path components (`Components`), where the doc of `InvalidPath`
  (`write/romfs.rs:597`) says they are refused; and an empty directory that `from_directory` finds is written
  (`TakeDir`), where `write/romfs.rs:40` says it does not survive.
- A RomFS file whose name is not UTF-8 reads as empty and is returned for a path that ends in a separator
  (`FindFile`), where `read/romfs.rs:433` says it cannot match; `Pfs0::file_by_name("")` finds such an entry likewise
  (`NameAt`; `read/pfs0.rs:106`).
- A RomFS listing goes on to the files after an unreadable subdirectory (`NextFile`), where `read/romfs.rs:499`
  says it ends.
- With flags set by hand a KIP1 segment may be compressed and its bit clear (`StoredSegment`), where
  `write/kip.rs:22` says the bits match; a KIP1 name keeps eleven bytes (`HeaderName`, `write/kip.rs:255`), not
  the twelve `write/kip.rs:66` says. A name cut inside a character reads as empty (`Name`), as it does in NPDM.
- Of `KernelCapability` (`EncodeMap`, `encode`): the comments put the upper address bits at 27:24 as address[39:36] and the size at 23:7
  (`write/npdm.rs:198`, `:207-209`), while the code puts address bits 24 to 27 at 30:27 and 20 bits of size at 26:7. The
  field docs speak of a physical address and of a size in bytes (`:71`, `:73`), while the low 28 and 20 bits of what is given
  are stored as they are and the rest is dropped. Nothing refuses a `DebugFlags` with more than one flag, of which `:119` says at most one may
  be set (the run's have one), and `Syscalls` becomes up to eight words where `:133` says one to six.
- An NSO segment whose address is left unset is given address 0 (`NewBuilder` of `NsoBuilder`), where
  `write/nso.rs:34` says it is laid out at its offset; and one that is not compressed is returned at its stored
  length whatever size the header records (`Expand`).
- An NCA partition with block size 0 makes `build` panic (`ZeroBlock`), a case its doc does not name.
- An NRO whose data ends before the header does has its header overwritten by the assets (`HeaderOverwritten`), and
  `try_from_ptr` looks for an asset header past the mapping its doc asks the caller for (`Mapped`).
- The meta type `Delta`, which `raw/cnmt.rs:146` lists, reads as `None` (`read/cnmt.rs:151`); no property depends on it.

### Bounds, and why they are enough

- The finder's window and match length are small so that chains leave the window, hit the longest
  match and pass positions too close to encode, inside nine bytes. The theorems remove these bounds.
- A packed stream pays for its trailer only from about twenty bytes on; forty bytes cover both layouts, every
  padding, flag groups that are full and partly full, and matches of the maximal length.
- RomFS paths contain `a`, `a.` and five-byte names, so that path order differs from walk order, padding
  differs, and a file and a directory may share a path; two contents lie on both sides of the 16-byte
  alignment; three files give siblings, children and collision chains. Six or more entries would repeat
  the same cases.
- PFS0 has names that are prefixes of each other and one that fills the table's alignment exactly; the largest buffer is
  180 bytes, so that only four files with long names and full contents exceed it.
- KIP1's seven calls are enough to set both bss halves, all segments, a name and the flags, or to repeat some.
- NSO has a page of 4 bytes and a 32-bit range of 272, so that three uncompressed segments may reach past it.
- NCA has media units of 4 bytes, digests of 2 and IVFC blocks of 4, so that tables and levels end inside, on and past
  a boundary, and several levels have more than one block; three sections leave gaps between slots, and only
  three large ones exceed the limit on media units.
- NRO has a stub of 8 bytes and a header that ends at 12, pages of 4 and a 32-bit range of 64: segments overlap, leave
  the image, end below the header and wrap. The ELFs list their segments out of order, have three to five, with
  headers of another type before, among and after them, and keep bss in a fourth segment or behind data, on and off a page
  boundary. `LoadsLikeElf`, `Mod0Found` and NSO's `SegmentsComeBack` claim nothing of an ELF whose `PT_LOAD` headers do not
  come first (`WellLaid`): `nro_mixed_headers` shows what becomes of one.
- NPDM has lists of zero to five owners (their flags pad to one word and to two) and the real widths of all
  capability fields; CNMT sizes at and below the limit; NACP all eighteen languages and two setter calls, the second
  over the first.
- `MaxFiles`, `MaxCalls`, `MaxCallsAfterElf`, `MaxNacpCalls`, `MaxCaps`, `MaxBody`, `MaxRepeats`, `MaxLen` and PFS0's
  `U32_MAX` are the named bounds.

### Fairness

The code is sequential: a call that has begun runs until it returns. So the calls of the codec have
weak fairness of their whole next-state relation, the finder of the steps of `new` and of a query that was
asked, and the RomFS readers of the steps inside a call. No fairness is put on a caller making a call.
`CallsReturn` for foreign images is about images whose links have no cycle: the reader has no check
against cycles, and on one it would not return.

## Proofs

The proofs are checked by TLAPS and hold for all values of the constants that satisfy the assumptions below.
Every theorem that names a property of a run removes that run's bounds: the lengths of inputs, the number of calls, the
sets of settings, the widths of integers. `PROJECT.json` lists the theorems.

### What is proved

- **BLZ, the index** (`BlzProofs`: `FinderTypes`, `FinderChainsComplete`, `FinderMatchesOracle`, from `FinderInvariant`).
  The walk's result is the scan's only because of two facts the final property does not mention: bucket heads and links
  skip no earlier position of the bucket, and at each point of the walk the best match is the best of all
  offsets passed, those on other chains included, since a position with another hash has no match of three bytes.
- **BLZ, `decompress`** (`DecompressTypeOK`, `DecompressIndexesInBounds`, `DecompressOkHasWantedLength`), for every stream and
  expected size. The invariant adds that a call in its loop has read a full trailer.
- **BLZ, `compress`** (`CodecOutputFits`, `CodecRelocationReadsAhead`, `CodecSplitIsCheapest`, `CodecNeverLarger`), for every
  input. The heart of the invariant is that flag bytes are paid for: eight times the excess of written over consumed bytes
  is at most the consumed bytes plus the unused bits of the current flag byte; `write_pos <= worst_case_len` follows, but is
  not inductive by itself. That the split kept is no worse than where the encoder stands, with the layout decision,
  puts the relocation's source at or above its destination.
- **BLZ, the round trip** (`CodecRoundTrip`, `CodecCursorsNeverCross`, from `CodecWholeInvariant`), for every input below 4 GiB
  (`InputsFitU32`: the trailer's fields are casts to `u32`). What the written bytes mean is said by a list of
  boundaries, one between each two codes, that gives how much of the input and how many bytes the codes so far stand for
  (`WellCoded`); the encoder extends the list, the split keeps a prefix of it, and the relocation and `finalize` move
  the bytes without changing it. The decoder, which goes backward, always stands at one boundary or inside the code after it
  (`Decodes`), and all bytes above its write cursor are already the input's. At a boundary the bytes still to be read are no more than
  the output still to be written, or else the split would have been placed there: so the cursors do not cross.
- **KIP1** (`MetadataProofs`: `Kip1NoPanic`, `Kip1SegmentsComeBack`, `Kip1BssReserved`, from `Kip1Invariant`). The properties are about
  answers; the invariant says where an answer comes from: the builder holds only what callers gave, the image is still the one
  the builder describes, the reader's buffer is that image or a foreign one, and it was accepted. Accepting is
  what puts the running sum of stored sizes inside the buffer.
- **NCA** (`NcaProofs`: `NcaImplementsContainer`, `NcaSectionsVerify`, `NcaCountersAgree`, `NcaNothingMasked`,
  `NcaKeyGenerationRejoins`, from `NcaInvariant`). The lemmas follow `build`: what each kind of section is laid out as, where each
  level of the tree or the table and its archive lie in it, where each section lies in the image, and that the
  sections before one are what its offset counts. Verification then goes from the master hash down, one level at a time.
- **NSO** (`NsoProofs`: `NsoNoPanic` from `NsoInvariant`, `NsoSegmentsComeBack`). `NoPanic` is not inductive: the invariant adds
  what `try_from_bytes` proved, that every stored extent ends inside the buffer while a reader exists. For what comes back it adds that
  the image is what the builder's segments determine and that each answer is the one that image gives.
- **NRO, MOD0, ELF** (`NroProofs`: `NroNoPanic`, `NroImplementsContainer`, `NroLoadsLikeElf`, `NroMod0Found`, from `NroInvariant`). Segments
  that do not overlap come back whole although they are copied one after another and the header is written over them; of an
  ELF's segments, which are padded over one another, the lemma `LoadedInOrder` shows that each byte is what the last copy over it
  left, and that this is the ELF's byte because the copies go in order of address.
- **PFS0** (`Pfs0Proofs`: `Pfs0ArchiveIsTheSet`, `Pfs0ImplementsContainer`, `Pfs0ReaderStaysInside`, from `Pfs0Invariant`). `build`
  computes its sizes in one pass and writes in another, so the invariant ties the two: every offset the second loop
  reaches is the one the first passed, which puts each copy inside the buffer and past the files before it. With it goes that
  the files written so far are still where their entries say and that all other bytes of the string table are zero, from which
  the terminators follow that no statement of the code writes. The sort by `str` comparison is a strict total order on
  distinct names (`NamesOrdered`), so that a file's rank among the set is its index in the vector, whatever the order
  of arrival. For foreign archives the invariant keeps what `try_from_bytes` checked while a reader exists.
- **NACP, CNMT** (`MetadataProofs`: `NacpTitleShown`, `CnmtImplementsContainer`). The title shown is the last one set because the two language
  tables agree on every language and the structure read is still the builder's. The records of a CNMT come back because
  sorting by type keeps every record at one place, a record's fields lie at its place times its width, and a size
  that was accepted survives six bytes.
- **NPDM** (`NpdmAccessComesBack`, from `NpdmInv`), where `NumbersFit`: each number fits the integer type it is written in. The
  lists of a block are joined entry after entry, and the proof follows: where the k-th entry begins is the length
  of the first k - 1 joined, reading the bytes of a number there gives it back, each list lies where the block's header says,
  and the services, whose entries tell their own lengths, are decoded to the last because the first one that was not would
  have to begin where the one before it ends. It covers that a file that was built opens and answers every question.
  `NacpSpec`, `CnmtSpec` and `NpdmSpec` are the three machines by themselves; `MCMetadata` runs them, each with the
  others at rest.
- **RomFS, what is built** (`RomFsProofs`: `RomFsImageIsTheTree`, `RomFsHashLookupFinds`, from `RomFsInvariant`). The builder's
  vectors refer to each other by index, and the tree is in none of them, so the invariant (`StoredInv`) names
  the tree they stand for: a sequence of paths for the directories and one for the files (`Holding`), where every path's
  parent comes before it, no path occurs twice, and the child lists hold exactly the entries whose parent they
  belong to. `add_file` extends the two sequences, a directory walk keeps them in step with its stack (`Walked`), and
  `sort_entries_by_path` permutes them and every index with them (`Arranged`). The image is then read off: offsets are sums
  over all that sorts before an entry, which the order of the vectors makes prefix sums; the first child and the next sibling
  are neighbours in lists sorted the same way; and a hash chain is, by induction along the table, the entries of its
  bucket from the last to the first, so that following it from the head meets all of them.
- **RomFS, foreign images** (`RomFsProofs`: `ReaderInside`, from `ReaderInv`). `ReaderSpec` is the reader on any set of images: tables cut
  short, links to anywhere, extents that overflow. The invariant keeps what `try_from_bytes` and `from_offset`
  checked: while a reader exists its tables are inside the image, and an entry that a call holds ends inside its table,
  so that every slice taken of the image, for a header, a name or data, is inside it, and no sum overflows.
- **RomFS, read back** (`RomFsProofs`: `RomFsEntriesListDirectory`, `RomFsImplementsContainer`, from `RomFsReaderInvariant`). The entries
  of a built image are where the offsets say, with the links of the sorted lists (`DirRows`, `FileRows`), and `try_from_bytes` accepts
  it. `BuiltRead` says where a call stands in the stored tree: a search (`SeeksDir`, `SeeksFile`) has resolved a prefix of the path to a directory
  and stands in one of its lists with no match before it, so that reaching the end of the list means that nothing of that name is
  stored; an iteration (`Walks`) has yielded the first entries of the subdirectories, then of the files, and its two
  cursors are on the entries that follow. Answers are then those of the tree (`Answers`). For the container, what is kept is what the tree
  stores, and asking is one `Get` when the call returns. `RomFsReaderStaysInside` puts both kinds of images together: the entries that a
  call holds are in the buffer because they were checked, or because they are entries of the tree.
- **`LayoutLemmas`** holds what these proofs share: what a slice of a buffer is, given what was written to it and where; what
  sorting by rank gives; rounding up; sums over a set and over the prefixes of a sequence; how names and paths are ordered;
  and images that are loaded in order of address.

The five refinements of `Container` are proved step by step: the initial state maps to an initial state, every
action maps to `Put`, `Fill`, `Seal`, `Fail`, `Open`, `Get`, `Aside` or `GetAny`, or changes nothing the mapping shows.

### What is assumed

All assumptions are about constants, and TLC evaluates them in the runs.

- Units have the order the formats give them: `MatchAssumption`, `NcaUnits`, `ElfUnits`, `NroUnits`, `SameNroFormat`,
  `StubHoldsOffset`, `NacpUnits`, `CnmtUnits`, `NpdmSizes`, `UsizeAssumption`. They hold of the real sizes.
- What callers pass has the Rust type of the parameter: `InputsAssumption`, `StreamsAssumption`, `SizesAssumption`,
  `SectionsSupplied`, `ContentTypesSupplied`, `ForeignFields`, `ElfsSupplied`, `SettingsSupplied`, `NsoSettings`, `TextsSupplied`,
  `RecordsSupplied`, `AccessesSupplied`, `FilesSupplied` (a name is UTF-8, a directory's once it is known to be),
  `ArchivesSupplied`, `ImagesSupplied`, and for RomFS `PathsSupplied`, `OpenPathsSupplied`, `ContentsSupplied` and `FsTreesSupplied` (a directory
  does not list one name twice, and no name on a file system is empty).
- External functions keep their promise: `HashAssumption` (a hash is a bucket), `DigestBytes` (a digest has its length), `Lz4RoundTrip`,
  `BlzRoundTrip` and `DecompressReturns`. The last two are what `CodecRoundTrip`, `CodecOutputFits` and `DecompressIndexesInBounds` prove of the crate's own codec.
- Images fit in memory: `ImagesFit`, `AssetsFit`, `BuffersFit`, `NoneAssumption` (`BlzMatchFinder`). The code allocates the buffers these are about, and asserts the
  last one. `NoEntryAssumption` and `SepAssumption` keep a model value that stands for absence, or the separator, apart from data.

Some theorems name a hypothesis instead. `InputsFitU32` and `NumbersFit` are about inputs, and a run need not satisfy them for the other
properties to hold; both hold of the inputs of the runs. `PathHashIsNumber` says that `path_hash` returns an unsigned number for
every directory offset and name: the code's type, but a statement about all names, which TLC cannot evaluate.
`ImageFits` (of `RomFsImplementsContainer`) says that the length of a buffer `build` returned is a `usize`, as a `Vec`'s is.

### What is only model-checked

- Liveness (`WalkEnds`, `Terminates`, `CallsReturn`), which is outside what the prover handles.
- `CapabilitiesDecode` of NPDM: a descriptor is a sum of powers of two, and the provers know no fact about exponentiation.

## Not modelled

- Overflow of `u32` sums and casts where an image of 4 GiB would be needed, except in NSO and NRO, where it is
  modelled; NPDM's sums of two `u32` values where `usize` is 32 bits.
- Getters that return one field of a header (`Npdm::name`, the ids of NPDM and CNMT, NACP's sizes), and the formatting
  of CNMT file names.
- Encryption, which the crate leaves to its caller; the model has only the ranges and counters it hands out.
- Memory use, reading files from disk beyond what `from_directory` does with the entries it is given,
  error texts, and the external crates (`zerocopy`, hashing, LZ4, the ELF parser).
- `raw/build_id.rs` (a type alias; the id itself is in `ElfSegments` and the builders) and the crate roots.

## Plan

Every component with state is modelled, and every property that is not liveness is proved, but for
`CapabilitiesDecode`. What is left:

- `CapabilitiesDecode`: descriptors as sets of bit positions on both sides of the encoding, which takes the powers of two out
  of the proof but leaves shifts of fields to be modelled without them.
