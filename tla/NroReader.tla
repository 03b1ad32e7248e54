------------------------------ MODULE NroReader ------------------------------
(***************************************************************************)
(* Nro of read/nro.rs and Mod0 of read/mod0.rs.  try_from_bytes proves the *)
(* segments, and the assets that are not empty, lie in the buffer; the     *)
(* accessors slice without checking again.  A slice past the end would     *)
(* panic; so would, where arithmetic is checked, a sum past usize.         *)
(***************************************************************************)
EXTENDS Integers, Sequences

CONSTANTS
  Nros,              \* buffers the crate did not build
  HEADERS_SIZE,      \* NroStart and NroHeader: 0x80
  ASSET_HEADER_SIZE, \* 0x38
  MOD0_SIZE,         \* 0x1C
  MOD0_MAGIC,        \* its first byte, standing for the magic
  USIZE_MAX

VARIABLES
  rpc,               \* "none", "ready", "done"
  nro,               \* the buffer handed to try_from_bytes
  result             \* what the last call returned

rVars == <<rpc, nro, result>>

HEADER_MAGIC == "NRO0"
ASSET_HEADER_MAGIC == "ASET"
SegmentNames == <<"text", "rodata", "data">>
AssetNames == <<"icon", "nacp", "romfs">>
NoHeader == <<>>

NoResult == [status |-> "none"]
Err(error) == [status |-> "err", error |-> error]
Ok(key, bytes) == [status |-> "ok", key |-> key, data |-> bytes]

RInit == rpc = "none" /\ nro = <<>> /\ result = NoResult

(***************************************************************************)
(* try_from_bytes and try_from_ptr                                         *)
(***************************************************************************)
SegmentEnd(n, k) == n.segments[k].file_off + n.segments[k].size

\* The asset header counts only in a buffer strictly longer than image and header,
\* and only with its magic: `n.assets` is what the bytes at nro_size spell.
asset_header(n) ==
  IF n.len > n.size + ASSET_HEADER_SIZE /\ n.assets.magic = ASSET_HEADER_MAGIC THEN n.assets.sections ELSE NoHeader

AssetEnd(n, k) == n.size + n.assets.sections[k].offset + n.assets.sections[k].size

\* Mutant: an asset is checked as if it were found from the start of the buffer.
AssetErrorFromStart(n, k) ==
  IF asset_header(n) = NoHeader \/ n.assets.sections[k].size = 0 THEN "none"
  ELSE IF AssetEnd(n, k) > USIZE_MAX THEN "AssetSectionBoundsOverflow"
  ELSE IF AssetEnd(n, k) - n.size > n.len THEN "AssetSectionOutOfBounds"
  ELSE "none"

\* An empty section is valid wherever it is said to start.
AssetError(n, k) ==
  IF asset_header(n) = NoHeader \/ n.assets.sections[k].size = 0 THEN "none"
  ELSE IF AssetEnd(n, k) > USIZE_MAX THEN "AssetSectionBoundsOverflow"
  ELSE IF AssetEnd(n, k) > n.len THEN "AssetSectionOutOfBounds"
  ELSE "none"

SegmentError(n, k) ==
  IF SegmentEnd(n, k) > USIZE_MAX THEN "SegmentBoundsOverflow"
  ELSE IF SegmentEnd(n, k) > n.len THEN "SegmentOutOfBounds"
  ELSE "none"

\* The first check that fails.
HeaderError(n) ==
  IF n.len < HEADERS_SIZE THEN "BufferTooSmall"
  ELSE IF n.magic # HEADER_MAGIC THEN "InvalidMagic"
  ELSE IF SegmentError(n, 1) # "none" THEN SegmentError(n, 1)
  ELSE IF SegmentError(n, 2) # "none" THEN SegmentError(n, 2)
  ELSE IF SegmentError(n, 3) # "none" THEN SegmentError(n, 3)
  ELSE IF AssetError(n, 1) # "none" THEN AssetError(n, 1)
  ELSE IF AssetError(n, 2) # "none" THEN AssetError(n, 2)
  ELSE AssetError(n, 3)

TryFromBytes(n) ==
  /\ rpc = "none"
  /\ nro' = n
  /\ IF HeaderError(n) = "none"
     THEN rpc' = "ready" /\ UNCHANGED result
     ELSE rpc' = "done" /\ result' = Err(HeaderError(n))

\* The pointer stands for a slice of usize::MAX / 2 bytes.
TryFromPtr(n) == TryFromBytes([n EXCEPT !.len = USIZE_MAX \div 2])

(***************************************************************************)
(* The accessors                                                           *)
(***************************************************************************)
Returns(value) ==
  /\ rpc = "ready"
  /\ result' = value
  /\ rpc' = IF value.status \in {"panic", "overflow"} THEN "done" ELSE rpc
  /\ UNCHANGED nro

\* Behind a pointer, a slice may reach past what is really mapped.
Slice(key, first, last) ==
  IF last > nro.len THEN [status |-> "panic"]
  ELSE IF last > Len(nro.bytes) THEN [status |-> "unmapped"]
  ELSE Ok(key, SubSeq(nro.bytes, first + 1, last))

\* text_segment, rodata_segment, data_segment
Segment(k) == Returns(Slice(SegmentNames[k], nro.segments[k].file_off, SegmentEnd(nro, k)))

AbsentAsset(k) == [status |-> "absent", key |-> AssetNames[k]]

\* asset_icon, asset_nacp, asset_romfs: the offset is summed before the size is
\* looked at, and wraps unnoticed when there is nothing to slice.
Asset(k) ==
  Returns(IF asset_header(nro) = NoHeader \/ nro.assets.sections[k].size = 0
          THEN AbsentAsset(k)
          ELSE Slice(AssetNames[k], nro.size + nro.assets.sections[k].offset, AssetEnd(nro, k)))

\* The same call where arithmetic is checked.
AssetSumOverflows(k) ==
  /\ rpc = "ready" /\ asset_header(nro) # NoHeader
  /\ nro.size + nro.assets.sections[k].offset > USIZE_MAX
  /\ Returns([status |-> "overflow"])

\* Mod0::try_from_bytes on the bytes at start().mod_offset.
Mod0Of(bytes) ==
  IF Len(bytes) < MOD0_SIZE THEN [status |-> "no_mod0", error |-> "BufferTooSmall"]
  ELSE IF bytes[1] # MOD0_MAGIC THEN [status |-> "no_mod0", error |-> "InvalidMagic"]
  ELSE [status |-> "mod0", header |-> SubSeq(bytes, 1, MOD0_SIZE)]

\* Mutant: the offset is taken from the header instead of the start of the file.
mod_offset_AfterHeader ==
  HEADERS_SIZE + nro.bytes[5] + 256 * (nro.bytes[6] + 256 * (nro.bytes[7] + 256 * nro.bytes[8]))

\* NroStart::mod_offset, the second word of the file.
mod_offset == nro.bytes[5] + 256 * (nro.bytes[6] + 256 * (nro.bytes[7] + 256 * nro.bytes[8]))

ReadMod0 ==
  /\ mod_offset =< Len(nro.bytes)
  /\ Returns(Mod0Of(SubSeq(nro.bytes, mod_offset + 1, Len(nro.bytes))))

RNext ==
  \/ \E k \in 1..3 : Segment(k) \/ Asset(k) \/ AssetSumOverflows(k)
  \/ rpc = "ready" /\ ReadMod0

\* What a caller of try_from_ptr vouches for: the segments, not what follows them.
Mapped(n) == n.len >= HEADERS_SIZE /\ \A k \in 1..3 : SegmentEnd(n, k) =< n.len

\* Bytes the crate did not build.
ForeignBytes == \E n \in Nros : TryFromBytes(n)
ForeignPtr == \E n \in Nros : Mapped(n) /\ TryFromPtr(n)
-----------------------------------------------------------------------------
\* "Indexing and slicing are unchecked on purpose: `try_from_bytes` proved every
\* segment's offset and size fit the buffer": no accessor of an image that was
\* accepted slices outside it, be the asset header found, missing, or a
\* coincidence of the bytes after the image.
NoPanic == result.status # "panic"

\* "Crafted NRO files with out-of-bounds asset section descriptors will produce
\* this error instead of panicking."
NoOverflow == result.status # "overflow"
=============================================================================
