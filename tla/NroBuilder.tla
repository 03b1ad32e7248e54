----------------------------- MODULE NroBuilder -----------------------------
(***************************************************************************)
(* NroBuilder of write/nro.rs.  Setters fill the builder in any order, or  *)
(* an ELF fills it at once; build copies each padded segment to the file   *)
(* offset equal to its address, the header over what lies at 0x10, and the *)
(* assets after the end of data.                                           *)
(*                                                                         *)
(* The buffer is sized from the end of data alone, so a copy may leave it  *)
(* and panic.  Bytes are naturals; HdrByte(i) stands for byte i of the     *)
(* headers build writes.                                                   *)
(***************************************************************************)
EXTENDS ElfSegments

CONSTANTS
  Settings,          \* field |-> values its setter is called with
  START,             \* the entry stub: 0x10
  HDR_END,           \* where the header ends: 0x80
  ASSET_HDR,         \* the asset header: 0x38
  MaxCalls,          \* bound on the setter calls before build
  MaxCallsAfterElf   \* the same, on a builder an ELF filled

VARIABLES
  phase,             \* "set", "built", "panic", or the error of parse or build
  b,                 \* the builder
  calls,             \* setter calls so far
  elf,               \* the ELF the builder was filled from, or None
  image              \* what build returned

bVars == <<phase, b, calls, elf, image>>

NRO_MAGIC == "NRO0"
ASSET_MAGIC == "ASET"
SEGMENTS == <<"text", "rodata", "data">>
ASSETS == <<"icon", "nacp", "romfs">>
Vaddr == [text |-> "text_vaddr", rodata |-> "rodata_vaddr", data |-> "data_vaddr"]
NoImage == <<>>
BuildErrors == {"MissingText", "MissingRodata", "MissingData", "panic"}
HdrByte(i) == -1 - i

ASSUME NroUnits == START \in Nat /\ HDR_END \in Nat /\ START =< HDR_END /\ ASSET_HDR \in Nat

\* Segments and assets are bytes, addresses are u32.
ASSUME SettingsSupplied ==
  \A f \in DOMAIN Settings : \A v \in Settings[f] :
    /\ f \in ToSet(SEGMENTS) \union ToSet(ASSETS) => v \in Seq(Int)
    /\ f \in {Vaddr[s] : s \in DOMAIN Vaddr} => v \in 0..(U32 - 1)

NewBuilder ==
  [f \in ToSet(SEGMENTS) \union ToSet(ASSETS) \union {"build_id"} \union {Vaddr[s] : s \in DOMAIN Vaddr}
           \union {"bss_size", "flags"} |->
     IF f \in {"bss_size", "flags"} \union {Vaddr[s] : s \in DOMAIN Vaddr} THEN 0 ELSE None]

BInit == phase = "set" /\ b = NewBuilder /\ calls = 0 /\ elf = None /\ image = NoImage

\* The last call of a setter wins.
SetField(field, value) ==
  /\ phase = "set"
  /\ calls < IF elf = None THEN MaxCalls ELSE MaxCallsAfterElf
  /\ calls' = calls + 1
  /\ b' = [b EXCEPT ![field] = value]
  /\ UNCHANGED <<phase, elf, image>>

\* ElfSegments::parse, then into_nro_builder, which starts from a new builder.
FromElf(e) ==
  /\ phase = "set" /\ calls = 0 /\ elf = None
  /\ IF ParseError(e) # "none"
     THEN phase' = ParseError(e) /\ UNCHANGED <<b, elf>>
     ELSE /\ elf' = e
          /\ b' = [f \in DOMAIN NewBuilder |->
                     IF f \in DOMAIN BuilderFields(e) THEN BuilderFields(e)[f]
                     ELSE IF f = "build_id" THEN BuildIdOf(e) ELSE NewBuilder[f]]
          /\ UNCHANGED phase
  /\ UNCHANGED <<calls, image>>

(***************************************************************************)
(* build                                                                   *)
(***************************************************************************)
BuildError ==
  IF b.text = None THEN "MissingText"
  ELSE IF b.rodata = None THEN "MissingRodata"
  ELSE IF b.data = None THEN "MissingData"
  ELSE "none"

\* div_ceil: an empty segment stays empty.
Padded(bytes) ==
  [i \in 1..(((Len(bytes) + PAGE - 1) \div PAGE) * PAGE) |-> IF i =< Len(bytes) THEN bytes[i] ELSE 0]

At(s) == b[Vaddr[s]]
EndOfSegment(s) == At(s) + Len(Padded(b[s]))

\* A u32 sum: it wraps, and data then leaves the buffer, or it panics.
NroSizeOverflows == EndOfSegment("data") >= U32
nro_size == EndOfSegment("data") % U32

has_assets == \E a \in ToSet(ASSETS) : b[a] # None
AssetLen(a) == IF b[a] = None THEN 0 ELSE Len(b[a])

\* Mutant: the romfs is placed as if there were no nacp.
asset_offset_NoNacp ==
  <<ASSET_HDR, ASSET_HDR + AssetLen("icon"), ASSET_HDR + AssetLen("icon")>>

\* Assets are laid out back to back after the asset header.
asset_offset ==
  <<ASSET_HDR, ASSET_HDR + AssetLen("icon"), ASSET_HDR + AssetLen("icon") + AssetLen("nacp")>>

\* Absent ones are said to be at 0.
AssetOffset(k) == IF b[ASSETS[k]] = None THEN 0 ELSE asset_offset[k]

total_size == IF has_assets THEN nro_size + ASSET_HDR + AssetLen("icon") + AssetLen("nacp") + AssetLen("romfs") ELSE nro_size

\* A copy that would end outside the buffer panics.
CopyPanics ==
  \/ \E k \in 1..3 : EndOfSegment(SEGMENTS[k]) > total_size
  \/ HDR_END > total_size

Write(buf, at, bytes) == [i \in DOMAIN buf |-> IF i > at /\ i =< at + Len(bytes) THEN bytes[i - at] ELSE buf[i]]

\* 0x10..0x80: the stub before it is left as text provided it.
WriteHeader(buf) == Write(buf, START, [i \in 1..(HDR_END - START) |-> HdrByte(START + i)])

WriteSegments(buf) ==
  Write(Write(Write(buf, At("text"), Padded(b.text)), At("rodata"), Padded(b.rodata)), At("data"), Padded(b.data))

WriteAssets(buf) ==
  LET WriteAsset(prev, k) == IF b[ASSETS[k]] = None THEN prev ELSE Write(prev, nro_size + AssetOffset(k), b[ASSETS[k]])
  IN  IF ~has_assets THEN buf
      ELSE WriteAsset(WriteAsset(WriteAsset(
             Write(buf, nro_size, [i \in 1..ASSET_HDR |-> HdrByte(HDR_END + i)]), 1), 2), 3)

AssetHeader ==
  [magic |-> ASSET_MAGIC,
   sections |-> [k \in 1..3 |-> [offset |-> AssetOffset(k), size |-> AssetLen(ASSETS[k])]]]

ImageOf ==
  [len      |-> total_size,
   magic    |-> NRO_MAGIC,
   size     |-> nro_size,
   flags    |-> b.flags,
   segments |-> [k \in 1..3 |-> [file_off |-> At(SEGMENTS[k]), size |-> Len(Padded(b[SEGMENTS[k]]))]],
   bss_size |-> b.bss_size,
   build_id |-> IF b.build_id = None THEN [i \in 1..ID_SIZE |-> 0] ELSE b.build_id,
   assets   |-> IF has_assets THEN AssetHeader ELSE None,       \* what is found at nro_size
   bytes    |-> WriteAssets(WriteHeader(WriteSegments([i \in 1..total_size |-> 0])))]

\* The asset header lies over the header when data ends before the header does.
HeaderOverwritten == has_assets /\ nro_size < HDR_END

Build ==
  /\ phase = "set"
  /\ IF BuildError # "none" THEN phase' = BuildError /\ UNCHANGED image
     ELSE IF CopyPanics THEN phase' = "panic" /\ UNCHANGED image
     ELSE /\ phase' = IF HeaderOverwritten THEN "overwritten" ELSE "built"
          /\ image' = ImageOf
  /\ UNCHANGED <<b, calls, elf>>

\* The same call in a profile that checks arithmetic.
BuildOverflows ==
  /\ phase = "set" /\ BuildError = "none" /\ NroSizeOverflows
  /\ phase' = "panic"
  /\ UNCHANGED <<b, calls, elf, image>>

BNext ==
  \/ \E f \in DOMAIN Settings : \E v \in Settings[f] : SetField(f, v)
  \/ \E e \in Elfs : FromElf(e)
  \/ Build
  \/ BuildOverflows
=============================================================================
