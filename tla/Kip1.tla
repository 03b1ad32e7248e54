-------------------------------- MODULE Kip1 --------------------------------
(***************************************************************************)
(* Kip1Builder of write/kip.rs and Kip1 of read/kip.rs.  Setters fill the  *)
(* builder in any order and any number of times; build checks what is      *)
(* there, compresses the three stored segments and lays header and streams *)
(* out back to back.  try_from_bytes proves every stored segment lies in   *)
(* the buffer, segment(i) slices it without checking again, and decompress *)
(* expands what the flags mark packed.  A slice past the end would panic,  *)
(* which the call records as its result.                                   *)
(*                                                                         *)
(* The BLZ codec is a pair of operators with the contract BlzCodec checks. *)
(* Flags are the set of their bits, a name is a sequence of bytes, and     *)
(* segments are numbered from 0 as in the code.                            *)
(***************************************************************************)
EXTENDS Integers, FiniteSetsExt, SequencesExt

CONSTANTS
  NotSet,            \* Option::None
  Settings,          \* field |-> values its setter is called with
  CapLists,          \* what kernel_capabilities is called with
  Kips,              \* buffers the crate did not build
  Compress(_),       \* blz::compress
  Decompress(_, _),  \* blz::decompress: a stream and the size wanted
  LEAD, CONT,        \* the two bytes of a character outside ASCII
  USIZE_MAX,
  MaxCaps,           \* capability slots of the header: 0x20
  MaxCalls           \* bound on the setter calls before build

\* What callers supply as segment f.
Given(f) == IF f \in DOMAIN Settings THEN Settings[f] ELSE {}

\* What BlzCodec's RoundTrip shows of the codec, for the segments callers supply.
ASSUME BlzRoundTrip ==
  \A f \in {"text", "rodata", "data"} : \A bytes \in Given(f) :
    /\ Len(bytes) \in Nat /\ Compress(bytes) \in Seq(0..255)
    /\ Decompress(Compress(bytes), Len(bytes)) = [status |-> "ok", data |-> bytes]

\* An image is a Vec, whose length is a usize.
ASSUME ImagesFit ==
  /\ USIZE_MAX \in Nat
  /\ \A t \in Given("text"), r \in Given("rodata"), d \in Given("data") :
       256 + Len(Compress(t)) + Len(Compress(r)) + Len(Compress(d)) =< USIZE_MAX

VARIABLES
  phase,             \* "set", "built", or the error build returned
  b,                 \* the builder
  calls,             \* setter calls so far
  image,             \* what build returned
  rpc,               \* the reader: "none", "ready", "segment", "done"
  kip,               \* the buffer handed to try_from_bytes
  seg,               \* the Kip1Segment segment(i) returned
  result             \* what the last call returned

bVars == <<phase, b, calls, image>>
rVars == <<rpc, kip, seg, result>>

(***************************************************************************)
(* Kip1Builder                                                             *)
(***************************************************************************)
HEADER_SIZE == 256
NAME_SIZE == 12
KIP1_MAGIC == "KIP1"
NUL == 0
UNUSED_CAP == -1     \* 0xFFFFFFFF
NoImage == <<>>

\* Bits 0-2 mark text, rodata and data packed; Immortal (6) stays clear.
DEFAULT_FLAGS == 0..5

BuildErrors ==
  {"MissingName", "MissingText", "MissingRodata", "MissingData",
   "IncompleteBssConfiguration", "TooManyKernelCapabilities"}

\* Fields every setter assigns whole, and their value in `new`.
Options == {"name", "flags", "text", "rodata", "data", "bss_vaddr", "bss_size"}
Numbers == {"title_id", "process_category", "main_thread_priority", "default_cpu_id",
          "text_vaddr", "rodata_vaddr", "data_vaddr", "rodata_attributes"}

NewBuilder ==
  [f \in Options \union Numbers \union {"kernel_capabilities"} |->
     IF f \in Options THEN NotSet ELSE IF f \in Numbers THEN 0 ELSE <<>>]

BInit == phase = "set" /\ b = NewBuilder /\ calls = 0 /\ image = NoImage

Setting(b1) ==
  /\ phase = "set"
  /\ calls < MaxCalls
  /\ calls' = calls + 1
  /\ b' = b1
  /\ UNCHANGED <<phase, image>>

\* The last call of a setter wins.
SetField(field, value) == Setting([b EXCEPT ![field] = value])

\* kernel_capabilities appends to what earlier calls gave.
AddCapabilities(caps) == Setting([b EXCEPT !.kernel_capabilities = @ \o caps])

(***************************************************************************)
(* build                                                                   *)
(***************************************************************************)
\* Mutant: half a bss configuration is accepted.
BuildErrorNoBss ==
  IF b.name = NotSet THEN "MissingName"
  ELSE IF b.text = NotSet THEN "MissingText"
  ELSE IF b.rodata = NotSet THEN "MissingRodata"
  ELSE IF b.data = NotSet THEN "MissingData"
  ELSE IF Len(b.kernel_capabilities) > MaxCaps THEN "TooManyKernelCapabilities"
  ELSE "none"

BuildError ==
  IF b.name = NotSet THEN "MissingName"
  ELSE IF b.text = NotSet THEN "MissingText"
  ELSE IF b.rodata = NotSet THEN "MissingRodata"
  ELSE IF b.data = NotSet THEN "MissingData"
  ELSE IF (b.bss_vaddr = NotSet) # (b.bss_size = NotSet) THEN "IncompleteBssConfiguration"
  ELSE IF Len(b.kernel_capabilities) > MaxCaps THEN "TooManyKernelCapabilities"
  ELSE "none"

\* truncate(11), resize(12, 0): the last byte stays a terminator.
HeaderName(name) ==
  [i \in 1..NAME_SIZE |-> IF i =< Min({Len(name), NAME_SIZE - 1}) THEN name[i] ELSE NUL]

PlainSegment(dst, decomp, comp, attributes) ==
  [dst_addr |-> dst, decomp_size |-> decomp, comp_size |-> comp, attributes |-> attributes]

StoredSegment(bytes, dst, attributes) == PlainSegment(dst, Len(bytes), Len(Compress(bytes)), attributes)

Segments ==
  [i \in 0..5 |->
     CASE i = 0 -> StoredSegment(b.text, b.text_vaddr, 0)
       [] i = 1 -> StoredSegment(b.rodata, b.rodata_vaddr, b.rodata_attributes)
       [] i = 2 -> StoredSegment(b.data, b.data_vaddr, 0)
       [] i = 3 /\ b.bss_size # NotSet -> PlainSegment(b.bss_vaddr, b.bss_size, 0, 0)
       [] OTHER -> PlainSegment(0, 0, 0, 0)]

Capabilities ==
  [i \in 1..MaxCaps |-> IF i =< Len(b.kernel_capabilities) THEN b.kernel_capabilities[i] ELSE UNUSED_CAP]

\* Mutant: the streams are written in another order than the descriptors.
PayloadSwapped == Compress(b.rodata) \o Compress(b.text) \o Compress(b.data)

Payload == Compress(b.text) \o Compress(b.rodata) \o Compress(b.data)

ImageOf ==
  [len          |-> HEADER_SIZE + Len(Payload),
   magic        |-> KIP1_MAGIC,
   name         |-> HeaderName(b.name),
   identity     |-> [f \in {"title_id", "process_category", "main_thread_priority", "default_cpu_id"} |-> b[f]],
   flags        |-> IF b.flags = NotSet THEN DEFAULT_FLAGS ELSE b.flags,
   segments     |-> Segments,
   capabilities |-> Capabilities,
   payload      |-> Payload]            \* the bytes after the header

Build ==
  /\ phase = "set"
  /\ IF BuildError # "none"
     THEN phase' = BuildError /\ UNCHANGED image
     ELSE phase' = "built" /\ image' = ImageOf
  /\ UNCHANGED <<b, calls>>

BNext ==
  \/ \E f \in DOMAIN Settings : \E v \in Settings[f] : SetField(f, v)
  \/ \E caps \in CapLists : AddCapabilities(caps)
  \/ Build
-----------------------------------------------------------------------------
(***************************************************************************)
(* Kip1                                                                    *)
(***************************************************************************)
LOADED_SEGMENT_COUNT == 4
BSS_INDEX == 3

NoResult == [status |-> "none"]
Err(error) == [status |-> "err", error |-> error]
NoSegment == <<>>

RInit == rpc = "none" /\ kip = <<>> /\ seg = NoSegment /\ result = NoResult

\* bss records a size and stores nothing.
stored_size(header, index) == IF index = BSS_INDEX THEN 0 ELSE header.segments[index].comp_size

is_compressed(header, index) == index < BSS_INDEX /\ index \in header.flags

\* What segment i contributes to the offset of `index`.
Before(header, i, index) == IF i < index THEN stored_size(header, i) ELSE 0

\* The stored sizes before a segment, back to back after the header.
OffsetOf(header, index) ==
  HEADER_SIZE + Before(header, 0, index) + Before(header, 1, index) + Before(header, 2, index)

(***************************************************************************)
(* try_from_bytes                                                          *)
(***************************************************************************)
EndOf(header, index) == OffsetOf(header, index) + stored_size(header, index)

\* The running sum overflows usize, or leaves the buffer.
OutOfBounds(k, index) == EndOf(k, index) > USIZE_MAX \/ EndOf(k, index) > k.len

\* Mutant: the last stored segment is not checked.
HeaderErrorSkipsLast(k) ==
  LET failing == {i \in 0..(BSS_INDEX - 2) : OutOfBounds(k, i)}
  IN  IF k.len < HEADER_SIZE THEN "BufferTooSmall"
      ELSE IF k.magic # KIP1_MAGIC THEN "InvalidMagic"
      ELSE IF failing = {} THEN "none"
      ELSE IF EndOf(k, Min(failing)) > USIZE_MAX THEN "SegmentBoundsOverflow"
      ELSE "SegmentOutOfBounds"

\* The first segment that does not fit decides the error.
HeaderError(k) ==
  LET failing == {i \in 0..(LOADED_SEGMENT_COUNT - 1) : OutOfBounds(k, i)}
  IN  IF k.len < HEADER_SIZE THEN "BufferTooSmall"
      ELSE IF k.magic # KIP1_MAGIC THEN "InvalidMagic"
      ELSE IF failing = {} THEN "none"
      ELSE IF EndOf(k, Min(failing)) > USIZE_MAX THEN "SegmentBoundsOverflow"
      ELSE "SegmentOutOfBounds"

TryFromBytes(k) ==
  /\ rpc = "none"
  /\ kip' = k
  /\ IF HeaderError(k) = "none"
     THEN rpc' = "ready" /\ UNCHANGED result
     ELSE rpc' = "done" /\ result' = Err(HeaderError(k))
  /\ UNCHANGED seg

(***************************************************************************)
(* name, segment and decompress                                            *)
(***************************************************************************)
Utf8(bytes) ==
  \A i \in DOMAIN bytes :
    /\ bytes[i] = LEAD => i < Len(bytes) /\ bytes[i + 1] = CONT
    /\ bytes[i] = CONT => i > 1 /\ bytes[i - 1] = LEAD

\* Up to the first NUL; empty when that is not UTF-8.
Name ==
  LET nul == SelectInSeq(kip.name, LAMBDA c : c = 0)
      bytes == IF nul = 0 THEN kip.name ELSE SubSeq(kip.name, 1, nul - 1)
  IN  IF Utf8(bytes) THEN bytes ELSE <<>>

SegmentOf(k, index) ==
  [index      |-> index,
   descriptor |-> k.segments[index],
   compressed |-> is_compressed(k, index),
   stored     |-> SubSeq(k.payload, OffsetOf(k, index) - HEADER_SIZE + 1, EndOf(k, index) - HEADER_SIZE)]

Segment(index) ==
  /\ rpc \in {"ready", "segment"}
  /\ IF index >= LOADED_SEGMENT_COUNT
     THEN rpc' = "ready" /\ seg' = NoSegment /\ result' = [status |-> "absent"]
     ELSE IF EndOf(kip, index) > kip.len
     THEN rpc' = "done" /\ seg' = NoSegment /\ result' = [status |-> "panic"]
     ELSE /\ rpc' = "segment"
          /\ seg' = SegmentOf(kip, index)
          /\ result' = NoResult
  /\ UNCHANGED kip

\* What Kip1Segment::decompress returns of the segment sg.
Expanded(sg) ==
  IF sg.compressed
  THEN Decompress(sg.stored, sg.descriptor.decomp_size)
  ELSE [status |-> "ok", data |-> sg.stored]

\* What BlzDecompress's NoPanic shows of the codec, for streams it did not write.
ASSUME DecompressReturns ==
  \A k \in Kips : \A index \in 0..(LOADED_SEGMENT_COUNT - 1) :
    HeaderError(k) = "none" /\ ~OutOfBounds(k, index) => Expanded(SegmentOf(k, index)).status # "panic"

DecompressSegment ==
  /\ rpc = "segment"
  /\ result' = Expanded(seg)
  /\ UNCHANGED <<rpc, kip, seg>>

RNext == (\E index \in 0..LOADED_SEGMENT_COUNT : Segment(index)) \/ DecompressSegment

\* try_from_bytes called on bytes the crate did not build.
ForeignKip == rpc = "none" /\ \E k \in Kips : TryFromBytes(k)
-----------------------------------------------------------------------------
vars == <<bVars, rVars>>

Init == BInit /\ RInit

Finished == (rpc = "done" \/ phase \in BuildErrors) /\ UNCHANGED vars

Next ==
  \/ rpc = "none" /\ BNext /\ UNCHANGED rVars
  \/ phase = "built" /\ TryFromBytes(image) /\ UNCHANGED bVars
  \/ phase = "set" /\ calls = 0 /\ ForeignKip /\ UNCHANGED bVars
  \/ RNext /\ UNCHANGED bVars
  \/ Finished

Spec == Init /\ [][Next]_vars
-----------------------------------------------------------------------------
Supplied == <<b.text, b.rodata, b.data>>

\* Every segment the flags mark packed expands to the bytes its setter was last
\* given, at the address set for it: the reader's running sum of stored sizes
\* finds the streams where build laid them.
SegmentsComeBack ==
  phase = "built" =>
    /\ result.status \notin {"err", "panic"}
    /\ rpc = "segment" /\ seg.index < BSS_INDEX =>
         /\ seg.descriptor.decomp_size = Len(Supplied[seg.index + 1])
         /\ seg.descriptor.dst_addr = <<b.text_vaddr, b.rodata_vaddr, b.data_vaddr>>[seg.index + 1]
         /\ seg.stored = Compress(Supplied[seg.index + 1])
         /\ (result.status = "ok" /\ seg.compressed) => result.data = Supplied[seg.index + 1]

\* bss is never silently left out: an image built from a builder that was given
\* a bss reports its address and the room to reserve, and never any bytes,
\* whatever the flags say ("This error prevents silent omission of BSS segments").
BssReserved ==
  phase = "built" /\ rpc = "segment" /\ seg.index = BSS_INDEX =>
    /\ <<seg.descriptor.dst_addr, seg.descriptor.decomp_size>>
         = IF b.bss_vaddr = NotSet /\ b.bss_size = NotSet THEN <<0, 0>> ELSE <<b.bss_vaddr, b.bss_size>>
    /\ seg.stored = <<>> /\ ~seg.compressed
    /\ result.status = "ok" => result.data = <<>>

\* "a `Kip1` that exists is one whose stored segments lie inside the buffer":
\* slicing them, in any order, never leaves it, whatever the sizes add up to.
NoPanic == result.status # "panic"
=============================================================================
