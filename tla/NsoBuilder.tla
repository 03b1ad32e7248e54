----------------------------- MODULE NsoBuilder -----------------------------
(***************************************************************************)
(* NsoBuilder of write/nso.rs.  Setters fill the builder in any order, or  *)
(* an ELF fills it at once; build pads the three segments to a page,       *)
(* hashes the padded bytes, compresses them unless told not to, and writes *)
(* them back to back after the header.                                     *)
(*                                                                         *)
(* Offsets and sizes are u32 fields: a length is cast (it wraps) and an    *)
(* offset is a sum that either wraps or panics, as the profile compiles    *)
(* it.  A build without lz4-compression is one that is told not to         *)
(* compress.                                                               *)
(***************************************************************************)
EXTENDS ElfSegments

CONSTANTS
  Settings,          \* field |-> values its setter is called with
  Compress(_),       \* lz4_flex::compress
  Hash(_),           \* SHA-256
  MaxCalls           \* bound on the setter calls before build

VARIABLES
  phase,             \* "set", "built", "overflow", or the error of parse or build
  b,                 \* the builder
  calls,             \* setter calls so far
  elf,               \* the ELF the builder was filled from, or None
  image              \* what build returned

bVars == <<phase, b, calls, elf, image>>

HEADER_SIZE == 256
NSO_MAGIC == "NSO0"
SEGMENTS == {"text", "rodata", "data"}
NoImage == <<>>
NO_ID == "zeroed"
BuildErrors == {"MissingText", "MissingRodata", "MissingData"}

NewBuilder ==
  [f \in SEGMENTS \union {"text_vaddr", "rodata_vaddr", "data_vaddr", "bss_size", "module_id", "compress"} |->
     IF f \in SEGMENTS \union {"module_id"} THEN None ELSE IF f = "compress" THEN TRUE ELSE 0]

BInit == phase = "set" /\ b = NewBuilder /\ calls = 0 /\ elf = None /\ image = NoImage

\* The last call of a setter wins.
SetField(field, value) ==
  /\ phase = "set"
  /\ calls < MaxCalls
  /\ calls' = calls + 1
  /\ b' = [b EXCEPT ![field] = value]
  /\ UNCHANGED <<phase, elf, image>>

\* ElfSegments::parse, then into_nso_builder, which starts from a new builder.
FromElf(e) ==
  /\ phase = "set" /\ calls = 0 /\ elf = None
  /\ IF ParseError(e) # "none"
     THEN phase' = ParseError(e) /\ UNCHANGED <<b, elf>>
     ELSE /\ elf' = e
          /\ b' = [f \in DOMAIN NewBuilder |->
                     IF f \in DOMAIN BuilderFields(e) THEN BuilderFields(e)[f]
                     ELSE IF f = "module_id" THEN BuildIdOf(e) ELSE NewBuilder[f]]
          /\ UNCHANGED phase
  /\ UNCHANGED <<calls, image>>

(***************************************************************************)
(* build                                                                   *)
(***************************************************************************)
BuildError ==
  IF b.text = None THEN "MissingText"
  ELSE IF b.rodata = None THEN "MissingRodata"
  ELSE IF b.data = None THEN "MissingData"
  ELSE "none"

\* div_ceil: an empty segment stays empty, a whole page gains nothing.
Padded(bytes) ==
  [i \in 1..(((Len(bytes) + PAGE - 1) \div PAGE) * PAGE) |-> IF i =< Len(bytes) THEN bytes[i] ELSE 0]

SegmentBytes(s) == IF b.compress THEN Compress(Padded(b[s])) ELSE Padded(b[s])

\* `len() as u32`
StoredLen(s) == Len(SegmentBytes(s)) % U32

\* Mutant: data is laid out as if text occupied nothing.
FileOffsetNoText(s) ==
  CASE s = "text"   -> HEADER_SIZE
    [] s = "rodata" -> HEADER_SIZE + StoredLen("text")
    [] s = "data"   -> HEADER_SIZE + StoredLen("rodata")

\* The u32 sum, before it wraps or panics.
FileOffset(s) ==
  CASE s = "text"   -> HEADER_SIZE
    [] s = "rodata" -> HEADER_SIZE + StoredLen("text")
    [] s = "data"   -> ((HEADER_SIZE + StoredLen("text")) % U32) + StoredLen("rodata")

OffsetsOverflow == \E s \in SEGMENTS : FileOffset(s) >= U32

Payload == SegmentBytes("text") \o SegmentBytes("rodata") \o SegmentBytes("data")

ImageOf ==
  [len       |-> HEADER_SIZE + Len(Payload),
   magic     |-> NSO_MAGIC,
   flags     |-> [compressed |-> IF b.compress THEN SEGMENTS ELSE {}, hashed |-> SEGMENTS],
   segments  |-> [s \in SEGMENTS |->
                    [file_offset   |-> FileOffset(s) % U32,
                     memory_offset |-> b[CASE s = "text" -> "text_vaddr" [] s = "rodata" -> "rodata_vaddr"
                                           [] s = "data" -> "data_vaddr"],
                     size          |-> Len(Padded(b[s])) % U32,
                     file_size     |-> StoredLen(s),
                     hash          |-> Hash(Padded(b[s]))]],
   bss_size  |-> b.bss_size,
   module_id |-> IF b.module_id = None THEN NO_ID ELSE b.module_id,
   payload   |-> Payload]

Build ==
  /\ phase = "set"
  /\ BuildError = "none"
  /\ phase' = "built"
  /\ image' = ImageOf
  /\ UNCHANGED <<b, calls, elf>>

BuildFails ==
  /\ phase = "set"
  /\ BuildError # "none"
  /\ phase' = BuildError
  /\ UNCHANGED <<b, calls, elf, image>>

\* The same call in a profile that checks arithmetic.
BuildOverflows ==
  /\ phase = "set"
  /\ BuildError = "none"
  /\ OffsetsOverflow
  /\ phase' = "overflow"
  /\ UNCHANGED <<b, calls, elf, image>>

BNext ==
  \/ \E f \in DOMAIN Settings : \E v \in Settings[f] : SetField(f, v)
  \/ \E e \in Elfs : FromElf(e)
  \/ Build
  \/ BuildFails
  \/ BuildOverflows
=============================================================================
