------------------------------ MODULE NsoReader ------------------------------
(***************************************************************************)
(* Nso of read/nso.rs: try_from_bytes proves the stored extent of each     *)
(* segment lies in the buffer, and the accessors slice it without checking *)
(* again.  A slice past the end would panic, which the call records as its *)
(* result.  text, rodata and data expand what the flags mark compressed.   *)
(***************************************************************************)
EXTENDS Integers, Sequences

CONSTANTS
  Nsos,              \* buffers the crate did not build
  Decompress(_, _),  \* lz4_flex::decompress: a stream and the room for it
  HDR,               \* a byte of the header, where a segment overlaps it
  USIZE_MAX

VARIABLES
  rpc,               \* "none", "ready", "done"
  nso,               \* the buffer handed to try_from_bytes
  result             \* what the last call returned

rVars == <<rpc, nso, result>>

NSO_HEADER_SIZE == 256
HEADER_MAGIC == "NSO0"
Segments == {"text", "rodata", "data"}

NoResult == [status |-> "none"]
Err(error) == [status |-> "err", error |-> error]

RInit == rpc = "none" /\ nso = <<>> /\ result = NoResult

(***************************************************************************)
(* try_from_bytes and try_from_ptr                                         *)
(***************************************************************************)
EndOf(n, s) == n.segments[s].file_offset + n.segments[s].file_size

\* Mutant: the size checked is the one after decompression.
OutOfBoundsDecompressed(n, s) ==
  n.segments[s].file_offset + n.segments[s].size > USIZE_MAX
    \/ n.segments[s].file_offset + n.segments[s].size > n.len

\* validate_segment_bounds: the sum overflows usize, or leaves the buffer.
OutOfBounds(n, s) == EndOf(n, s) > USIZE_MAX \/ EndOf(n, s) > n.len

\* The first segment that does not fit is named.
HeaderError(n) ==
  IF n.len < NSO_HEADER_SIZE THEN "BufferTooSmall"
  ELSE IF n.magic # HEADER_MAGIC THEN "InvalidMagic"
  ELSE IF OutOfBounds(n, "text") THEN "TextOutOfBounds"
  ELSE IF OutOfBounds(n, "rodata") THEN "RodataOutOfBounds"
  ELSE IF OutOfBounds(n, "data") THEN "DataOutOfBounds"
  ELSE "none"

TryFromBytes(n) ==
  /\ rpc = "none"
  /\ nso' = n
  /\ IF HeaderError(n) = "none"
     THEN rpc' = "ready" /\ UNCHANGED result
     ELSE rpc' = "done" /\ result' = Err(HeaderError(n))

\* The pointer stands for a slice of usize::MAX / 2 bytes.
TryFromPtr(n) == TryFromBytes([n EXCEPT !.len = USIZE_MAX \div 2])

(***************************************************************************)
(* The accessors                                                           *)
(***************************************************************************)
ByteAt(i) == IF i < NSO_HEADER_SIZE THEN HDR ELSE nso.payload[i - NSO_HEADER_SIZE + 1]

StoredBytes(s) ==
  [k \in 1..nso.segments[s].file_size |-> ByteAt(nso.segments[s].file_offset + k - 1)]

Ok(s, expanded, bytes) == [status |-> "ok", segment |-> s, expanded |-> expanded, data |-> bytes]

\* Copied out when the flag is clear, whatever size the header records.
Expand(s) ==
  IF s \in nso.flags.compressed
  THEN Decompress(StoredBytes(s), nso.segments[s].size)
  ELSE [status |-> "ok", data |-> StoredBytes(s)]

Slice(s, outcome) ==
  /\ rpc = "ready"
  /\ IF EndOf(nso, s) > nso.len
     THEN rpc' = "done" /\ result' = [status |-> "panic"]
     ELSE result' = outcome /\ UNCHANGED rpc
  /\ UNCHANGED nso

\* text_compressed, rodata_compressed, data_compressed
SegmentCompressed(s) == Slice(s, Ok(s, FALSE, StoredBytes(s)))

\* text, rodata, data: an error names the segment.
SegmentExpanded(s) ==
  Slice(s, IF Expand(s).status = "ok" THEN Ok(s, TRUE, Expand(s).data) ELSE Err(s))

RNext == \E s \in Segments : SegmentCompressed(s) \/ SegmentExpanded(s)

\* An image with the segments it describes in one allocation, mapped in memory.
Mapped(n) == n.len >= NSO_HEADER_SIZE /\ \A s \in Segments : EndOf(n, s) =< n.len

\* Bytes the crate did not build.
ForeignBytes == \E n \in Nsos : TryFromBytes(n)
ForeignPtr == \E n \in Nsos : Mapped(n) /\ TryFromPtr(n)
-----------------------------------------------------------------------------
\* "the segment accessors return slices without re-checking and cannot panic on a
\* malformed image": no image that try_from_bytes or try_from_ptr let through,
\* not even one build wrote with offsets that wrapped, is sliced past its end.
NoPanic == result.status # "panic"
=============================================================================
