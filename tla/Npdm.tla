-------------------------------- MODULE Npdm --------------------------------
(***************************************************************************)
(* NpdmBuilder of write/npdm.rs and Npdm of read/npdm.rs: what a program   *)
(* requests (ACI0) and may be granted (ACID), each a header and three      *)
(* blocks: filesystem access, service access and kernel capabilities.      *)
(*                                                                         *)
(* Blocks are bytes; headers are fields, with HEADER_BYTE in their place.  *)
(* A capability descriptor is the set of its bits.                         *)
(***************************************************************************)
EXTENDS Integers, FiniteSetsExt, SequencesExt

CONSTANTS
  NoData,            \* Option::None
  Metadatas,         \* what new is given
  Acis, Acids,       \* what with_aci and with_acid are given
  Npdms,             \* buffers the crate did not build
  META_SIZE,         \* 0x80
  ACID_SIZE,         \* 0x240
  ACI0_SIZE,         \* 0x40
  SIGNATURE,         \* 0x100
  NAME_BYTES         \* 16

ASSUME NpdmSizes == META_SIZE \in Nat /\ ACID_SIZE \in Nat /\ ACI0_SIZE \in Nat

\* What the types of AciData and AcidData admit.
CapabilityKinds ==
  {"KernelFlags", "Syscalls", "Map", "MapPage", "MapRegion", "IrqPair", "ApplicationType", "MinKernelVersion",
   "HandleTableSize", "DebugFlags"}

FsSupplied(fs) ==
  /\ fs.permissions \in Int /\ fs.content_owner_ids \in Seq(Int)
  /\ fs.save_data_owner_ids \in Seq([accessibility : 0..255, id : Int])
  /\ fs.content_owner_id_min \in Int /\ fs.content_owner_id_max \in Int
  /\ fs.save_data_owner_id_min \in Int /\ fs.save_data_owner_id_max \in Int

AccessSupplied(a) ==
  /\ FsSupplied(a.fs)
  /\ a.services \in Seq([name : Seq(0..255), is_host : {0, 1}])
  /\ a.capabilities \in Seq({a.capabilities[i] : i \in DOMAIN a.capabilities})
  /\ \A i \in DOMAIN a.capabilities :
       /\ a.capabilities[i].kind \in CapabilityKinds
       /\ a.capabilities[i].kind = "Syscalls" => a.capabilities[i].ids \subseteq Nat

ASSUME AccessesSupplied == \A a \in Acis \union Acids : AccessSupplied(a)

VARIABLES
  npdmPhase,         \* "new", "set", "built", "foreign"
  pb,                \* the builder
  npdm,              \* what build returned, or the foreign buffer
  npdmOpen,          \* try_from_bytes: "no", "yes", or its error
  npdmResult         \* what the last accessor returned

npdmVars == <<npdmPhase, pb, npdm, npdmOpen, npdmResult>>

HEADER_BYTE == -1
MAX_U64 == -1

NpdmInit == npdmPhase = "new" /\ pb = <<>> /\ npdm = <<>> /\ npdmOpen = "no" /\ npdmResult = [status |-> "none"]

NewNpdm(metadata) ==
  /\ npdmPhase = "new"
  /\ npdmPhase' = "set"
  /\ pb' = [metadata |-> metadata, aci |-> NoData, acid |-> NoData]
  /\ UNCHANGED <<npdm, npdmOpen, npdmResult>>

\* with_aci, with_acid
WithData(field, data) ==
  /\ npdmPhase = "set"
  /\ pb' = [pb EXCEPT ![field] = data]
  /\ UNCHANGED <<npdmPhase, npdm, npdmOpen, npdmResult>>

DefaultFs ==
  [permissions |-> MAX_U64, content_owner_ids |-> <<>>, save_data_owner_ids |-> <<>>,
   content_owner_id_min |-> 0, content_owner_id_max |-> MAX_U64,
   save_data_owner_id_min |-> 0, save_data_owner_id_max |-> MAX_U64]

\* A program that says nothing requests everything of the filesystem as its title.
Aci ==
  IF pb.aci # NoData THEN pb.aci
  ELSE [program_id |-> pb.metadata.title_id, fs |-> DefaultFs, services |-> <<>>, capabilities |-> <<>>]

Acid ==
  IF pb.acid # NoData THEN pb.acid
  ELSE [program_id_min |-> 0, program_id_max |-> MAX_U64, flags |-> 0, fs |-> DefaultFs, services |-> <<>>,
        capabilities |-> <<>>]

(***************************************************************************)
(* KernelCapability::encode                                                *)
(***************************************************************************)
Trailer(n) == 0..(n - 1)

\* `(v & mask) << at`
BitsOf(v, width, at) == {at + k : k \in {j \in 0..(width - 1) : (v \div 2^j) % 2 = 1}}

\* Mutant: the mask starts where the trailer's zero is.
SyscallMaskLow(ids, group) ==
  Trailer(4) \union BitsOf(group, 3, 29) \union {(id % 24) + 4 : id \in {i \in ids : i \div 24 = group}}

SyscallMask(ids, group) ==
  Trailer(4) \union BitsOf(group, 3, 29) \union {(id % 24) + 5 : id \in {i \in ids : i \div 24 = group}}

\* Of the eight masks, one for each group of 24, those with any; a call past the
\* eighth is dropped.
EncodeSyscalls(ids) ==
  FlattenSeq([g \in 1..8 |-> IF \E id \in ids : id \div 24 = g - 1 THEN <<SyscallMask(ids, g - 1)>> ELSE <<>>])

\* Two descriptors, the second with the high bits of the address and is_io inverted.
EncodeMap(c) ==
  <<Trailer(6) \union BitsOf(c.address, 24, 7) \union BitsOf(c.is_ro, 1, 31),
    Trailer(6) \union BitsOf(c.size, 20, 7) \union BitsOf(c.address \div 2^24, 4, 27) \union BitsOf(1 - c.is_io, 1, 31)>>

\* The first three regions.
EncodeRegions(regions) ==
  Trailer(10) \union UNION {BitsOf(regions[i].type, 6, 4 + 7 * i) \union BitsOf(regions[i].is_ro, 1, 10 + 7 * i) :
                              i \in DOMAIN regions \intersect 1..3}

encode(c) ==
  CASE c.kind = "KernelFlags"      -> <<Trailer(3) \union BitsOf(c.lowest_thread_priority, 6, 4)
                                          \union BitsOf(c.highest_thread_priority, 6, 10)
                                          \union BitsOf(c.lowest_cpu_id, 8, 16) \union BitsOf(c.highest_cpu_id, 8, 24)>>
    [] c.kind = "Syscalls"         -> EncodeSyscalls(c.ids)
    [] c.kind = "Map"              -> EncodeMap(c)
    [] c.kind = "MapPage"          -> <<Trailer(7) \union BitsOf(c.page, 24, 8)>>
    [] c.kind = "MapRegion"        -> <<EncodeRegions(c.regions)>>
    [] c.kind = "IrqPair"          -> <<Trailer(11) \union BitsOf(c.irqs[1], 10, 12) \union BitsOf(c.irqs[2], 10, 22)>>
    [] c.kind = "ApplicationType"  -> <<Trailer(13) \union BitsOf(c.value, 3, 14)>>
    [] c.kind = "MinKernelVersion" -> <<Trailer(14) \union BitsOf(c.value, 17, 15)>>
    [] c.kind = "HandleTableSize"  -> <<Trailer(15) \union BitsOf(c.value, 10, 16)>>
    [] c.kind = "DebugFlags"       -> <<Trailer(16) \union BitsOf(c.allow_debug, 1, 17)
                                          \union BitsOf(c.force_debug_prod, 1, 18) \union BitsOf(c.force_debug, 1, 19)>>

(***************************************************************************)
(* The blocks                                                              *)
(***************************************************************************)
\* The bytes of a u32 or u64, the lowest first.  A u64 is the number its bits spell
\* in two's complement, so that u64::MAX is -1.
LittleEndian(v, n) ==
  LET shifted[k \in 0..(n - 1)] == IF k = 0 THEN v ELSE shifted[k - 1] \div 256
  IN  [i \in 1..n |-> shifted[i - 1] % 256]

Each(s) == FlattenSeq([i \in DOMAIN s |-> LittleEndian(s[i], 8)])
Zeros(n) == [i \in 1..n |-> 0]
RoundUpTo(v, n) == ((v + n - 1) \div n) * n

build_kernel_capabilities(caps) ==
  LET words == FlattenSeq([i \in DOMAIN caps |-> encode(caps[i])])
      byte(w, j) == SumSet({2^(k - 8 * j) : k \in {bit \in w : bit \div 8 = j}})
  IN  FlattenSeq([i \in DOMAIN words |-> [j \in 1..4 |-> byte(words[i], j - 1)]])

\* At most eight bytes of a name; a service without one is skipped.
build_service_access_control(services) ==
  LET name(s) == SubSeq(s.name, 1, Min({Len(s.name), 8}))
      entry(s) == IF s.name = <<>> THEN <<>> ELSE <<Len(name(s)) - 1 + 128 * s.is_host>> \o name(s)
  IN  FlattenSeq([i \in DOMAIN services |-> entry(services[i])])

\* Mutant: the owners' list is measured without the padding of its flags.
SdoiSizeUnpadded(owners) == IF owners = <<>> THEN 0 ELSE 4 + Len(owners) + 8 * Len(owners)

\* A count, a byte of access for each owner padded to four, the owners.
SdoiSize(owners) == IF owners = <<>> THEN 0 ELSE 4 + RoundUpTo(Len(owners), 4) + 8 * Len(owners)

CoiSize(ids) == IF ids = <<>> THEN 0 ELSE 4 + 8 * Len(ids)

build_filesystem_access_header(fs) ==
  LET owners == fs.save_data_owner_ids
      ids == fs.content_owner_ids
  IN  LittleEndian(1, 4) \o LittleEndian(fs.permissions, 8)
        \o LittleEndian(28, 4) \o LittleEndian(CoiSize(ids), 4)
        \o LittleEndian(28 + CoiSize(ids), 4) \o LittleEndian(SdoiSize(owners), 4)
        \o (IF ids = <<>> THEN <<>> ELSE LittleEndian(Len(ids), 4) \o Each(ids))
        \o (IF owners = <<>> THEN <<>>
            ELSE LittleEndian(Len(owners), 4)
                   \o [i \in DOMAIN owners |-> owners[i].accessibility]
                   \o Zeros(RoundUpTo(Len(owners), 4) - Len(owners))
                   \o Each([i \in DOMAIN owners |-> owners[i].id]))

\* Ranges, where the request has lists.
build_filesystem_access_control(fs) ==
  <<1, 0, 0, 0>> \o Each(<<fs.permissions, fs.content_owner_id_min, fs.content_owner_id_max,
                           fs.save_data_owner_id_min, fs.save_data_owner_id_max>>)

(***************************************************************************)
(* build                                                                   *)
(***************************************************************************)
align_up_16(v) == RoundUpTo(v, 16)

\* Offsets from the section's start, of three blocks after a header.
Layout(header, fac, sac, kc) ==
  LET sac_offset == align_up_16(header + Len(fac))
      kc_offset == align_up_16(sac_offset + Len(sac))
  IN  [fac_offset |-> header, fac_size |-> Len(fac), sac_offset |-> sac_offset, sac_size |-> Len(sac),
       kc_offset |-> kc_offset, kc_size |-> Len(kc), total |-> kc_offset + Len(kc)]

\* A section's bytes: the gaps are zero.
SectionBytes(l, fac, sac, kc) ==
  [i \in 1..l.fac_offset |-> HEADER_BYTE] \o fac \o Zeros(l.sac_offset - l.fac_offset - l.fac_size)
    \o sac \o Zeros(l.kc_offset - l.sac_offset - l.sac_size) \o kc

\* Cut to the field less its terminator, wherever that falls in a character.
NameField(name) == [i \in 1..NAME_BYTES |-> IF i =< Min({Len(name), NAME_BYTES - 1}) THEN name[i] ELSE 0]

NpdmOf ==
  LET fac == build_filesystem_access_header(Aci.fs)
      sac == build_service_access_control(Aci.services)
      kc == build_kernel_capabilities(Aci.capabilities)
      acid_fac == build_filesystem_access_control(Acid.fs)
      acid_sac == build_service_access_control(Acid.services)
      acid_kc == build_kernel_capabilities(Acid.capabilities)
      aci0 == Layout(ACI0_SIZE, fac, sac, kc)
      acid == Layout(ACID_SIZE, acid_fac, acid_sac, acid_kc)
      aci_offset == align_up_16(META_SIZE + acid.total)
  IN  [len |-> aci_offset + aci0.total, magic |-> "META", name |-> NameField(pb.metadata.name),
       acid_offset |-> META_SIZE, acid_size |-> acid.total, aci_offset |-> aci_offset, aci_size |-> aci0.total,
       acid |-> [magic |-> "ACID", size |-> acid.total - SIGNATURE, flags |-> Acid.flags,
                 program_id_min |-> Acid.program_id_min, program_id_max |-> Acid.program_id_max, blocks |-> acid],
       aci0 |-> [magic |-> "ACI0", program_id |-> Aci.program_id, blocks |-> aci0],
       bytes |-> [i \in 1..META_SIZE |-> HEADER_BYTE] \o SectionBytes(acid, acid_fac, acid_sac, acid_kc)
                   \o Zeros(aci_offset - META_SIZE - acid.total) \o SectionBytes(aci0, fac, sac, kc)]

BuildNpdm ==
  /\ npdmPhase = "set"
  /\ npdmPhase' = "built"
  /\ npdm' = NpdmOf
  /\ UNCHANGED <<pb, npdmOpen, npdmResult>>

(***************************************************************************)
(* Reading.  `n.acid` and `n.aci0` are what the bytes at the offsets       *)
(* spell; a usize holds any sum of three u32s.                             *)
(***************************************************************************)
NpdmError(n) ==
  IF n.len < META_SIZE THEN "BufferTooSmall"
  ELSE IF n.magic # "META" THEN "InvalidMetaMagic"
  ELSE IF n.acid_offset + n.acid_size > n.len THEN "BufferTooSmall"
  ELSE IF n.acid_size < ACID_SIZE THEN "InvalidAcidSize"
  ELSE IF n.acid.magic # "ACID" THEN "InvalidAcidMagic"
  ELSE IF n.aci_offset + n.aci_size > n.len THEN "BufferTooSmall"
  ELSE IF n.aci_size < ACI0_SIZE THEN "InvalidAci0Size"
  ELSE IF n.aci0.magic # "ACI0" THEN "InvalidAci0Magic"
  ELSE "none"

OpenNpdm(n) ==
  /\ npdmOpen = "no"
  /\ npdm' = n
  /\ npdmOpen' = IF NpdmError(n) = "none" THEN "yes" ELSE NpdmError(n)
  /\ UNCHANGED <<pb, npdmResult>>

OpenBuiltNpdm == npdmPhase = "built" /\ OpenNpdm(npdm) /\ UNCHANGED npdmPhase

OpenForeignNpdm(n) == npdmPhase = "new" /\ OpenNpdm(n) /\ npdmPhase' = "foreign"

\* Bounded by the buffer, not by ACI0.
Block(name, offset, size) ==
  /\ npdmOpen = "yes"
  /\ npdmResult' =
       LET start == npdm.aci_offset + offset
       IN  IF start + size > npdm.len THEN [status |-> "err", error |-> "Aci0InnerSectionOutOfBounds"]
           ELSE [status |-> "ok", block |-> name, data |-> SubSeq(npdm.bytes, start + 1, start + size)]
  /\ UNCHANGED <<npdmPhase, pb, npdm, npdmOpen>>

aci0_fac_data == Block("fac", npdm.aci0.blocks.fac_offset, npdm.aci0.blocks.fac_size)
aci0_sac_data == Block("sac", npdm.aci0.blocks.sac_offset, npdm.aci0.blocks.sac_size)
aci0_kc_data == Block("kc", npdm.aci0.blocks.kc_offset, npdm.aci0.blocks.kc_size)

NpdmNext ==
  \/ \E m \in Metadatas : NewNpdm(m)
  \/ \E a \in Acis : WithData("aci", a)
  \/ \E a \in Acids : WithData("acid", a)
  \/ BuildNpdm
  \/ OpenBuiltNpdm
  \/ \E n \in Npdms : OpenForeignNpdm(n)
  \/ aci0_fac_data
  \/ aci0_sac_data
  \/ aci0_kc_data

NpdmSpec == NpdmInit /\ [][NpdmNext]_npdmVars
-----------------------------------------------------------------------------
(***************************************************************************)
(* The blocks taken apart again, to compare with what the builder was      *)
(* asked for.  The fields are where the masks and shifts of encode put     *)
(* them, which for Map is not where its comments do: see MapSizeKept.      *)
(***************************************************************************)
U32At(s, at) == s[at + 1] + 256 * (s[at + 2] + 256 * (s[at + 3] + 256 * s[at + 4]))
Signed(byte) == IF byte > 127 THEN byte - 256 ELSE byte
U64At(s, at) ==
  s[at + 1] + 256 * (s[at + 2] + 256 * (s[at + 3] + 256 * (s[at + 4]
    + 256 * (s[at + 5] + 256 * (s[at + 6] + 256 * (s[at + 7] + 256 * Signed(s[at + 8])))))))

ListAt(s, at, n) == [i \in 1..n |-> U64At(s, at + 8 * (i - 1))]

\* From a filesystem access header, by its own offsets.
DecodeHeader(s) ==
  LET coi == U32At(s, 12)
      sdoi == U32At(s, 20)
      owners == IF U32At(s, 24) = 0 THEN 0 ELSE U32At(s, sdoi)
  IN  [permissions         |-> U64At(s, 4),
       content_owner_ids   |-> IF U32At(s, 16) = 0 THEN <<>> ELSE ListAt(s, coi + 4, U32At(s, coi)),
       save_data_owner_ids |-> [i \in 1..owners |->
                                  [accessibility |-> s[sdoi + 4 + i],
                                   id |-> U64At(s, sdoi + U32At(s, 24) - 8 * (owners - i + 1))]],
       ends                |-> sdoi + U32At(s, 24)]

\* From a service access control, entry by entry, while one fits.
DecodeServices(s) ==
  LET Size(at) == (s[at] % 128) + 1
      from[at \in 1..(Len(s) + 1)] ==
        IF at > Len(s) \/ at + Size(at) > Len(s) THEN <<>>
        ELSE <<[name |-> SubSeq(s, at + 1, at + Size(at)), is_host |-> s[at] \div 128]>> \o from[at + 1 + Size(at)]
  IN  from[1]

\* The services that have a name, by its first eight bytes.
Requested(services) ==
  LET short(s) == [s EXCEPT !.name = SubSeq(@, 1, Min({Len(@), 8}))]
  IN  FlattenSeq([i \in DOMAIN services |-> IF services[i].name = <<>> THEN <<>> ELSE <<short(services[i])>>])

AcidBlock(offset, size) == SubSeq(npdm.bytes, META_SIZE + offset + 1, META_SIZE + offset + size)

\* Whatever lists, names and capabilities are set, and although each block moves
\* what follows it, both sections decode by the offsets in their headers to the
\* permissions, owners and services the builder was given.
AccessComesBack ==
  npdmPhase = "built" =>
    /\ npdmOpen \in {"no", "yes"} /\ npdmResult.status # "err"
    /\ npdmResult.status = "ok" /\ npdmResult.block = "fac" =>
         DecodeHeader(npdmResult.data) =
           [permissions |-> Aci.fs.permissions, content_owner_ids |-> Aci.fs.content_owner_ids,
            save_data_owner_ids |-> Aci.fs.save_data_owner_ids, ends |-> Len(npdmResult.data)]
    /\ npdmResult.status = "ok" /\ npdmResult.block = "sac" =>
         DecodeServices(npdmResult.data) = Requested(Aci.services)
    /\ LET l == npdm.acid.blocks IN
       /\ ListAt(AcidBlock(l.fac_offset, l.fac_size), 4, 5) =
            <<Acid.fs.permissions, Acid.fs.content_owner_id_min, Acid.fs.content_owner_id_max,
              Acid.fs.save_data_owner_id_min, Acid.fs.save_data_owner_id_max>>
       /\ DecodeServices(AcidBlock(l.sac_offset, l.sac_size)) = Requested(Acid.services)

\* The descriptors of a kernel capability block.
Words(s) ==
  [i \in 1..(Len(s) \div 4) |->
     UNION {{8 * j + k : k \in {bit \in 0..7 : (s[4 * (i - 1) + j + 1] \div 2^bit) % 2 = 1}} : j \in 0..3}]

Value(w, width, at) == SumSet({2^k : k \in {j \in 0..(width - 1) : at + j \in w}})

\* A descriptor's type is the number of ones below its lowest zero.
Type(w) == Min({k \in 0..32 : k \notin w})

\* What descriptor i grants, as facts; a mapping takes two descriptors in a row.
Grants(ws, i) ==
  LET w == ws[i]
      second == Cardinality({j \in 1..i : Type(ws[j]) = 6}) % 2 = 0
  IN  CASE Type(w) = 3  -> {<<"flags", Value(w, 6, 4), Value(w, 6, 10), Value(w, 8, 16), Value(w, 8, 24)>>}
        [] Type(w) = 4  -> {<<"syscall", 24 * Value(w, 3, 29) + k>> : k \in {j \in 0..23 : j + 5 \in w}}
        [] Type(w) = 6  -> IF second THEN {}
                           ELSE {<<"map", Value(w, 24, 7) + 2^24 * Value(ws[i + 1], 4, 27), Value(ws[i + 1], 20, 7),
                                   Value(w, 1, 31), 1 - Value(ws[i + 1], 1, 31)>>}
        [] Type(w) = 7  -> {<<"page", Value(w, 24, 8)>>}
        [] Type(w) = 10 -> {<<"region", Value(w, 6, at), Value(w, 1, at + 6)>> : at \in {11, 18, 25}}
        [] Type(w) = 11 -> {<<"irq", Value(w, 10, 12)>>, <<"irq", Value(w, 10, 22)>>}
        [] Type(w) = 13 -> {<<"application", Value(w, 3, 14)>>}
        [] Type(w) = 14 -> {<<"kernel", Value(w, 17, 15)>>}
        [] Type(w) = 15 -> {<<"handles", Value(w, 10, 16)>>}
        [] Type(w) = 16 -> {<<"debug", Value(w, 1, 17), Value(w, 1, 18), Value(w, 1, 19)>>}
        [] OTHER        -> {<<"unknown", Type(w)>>}

\* What a capability asks for, as far as its fields reach.
Asks(c) ==
  CASE c.kind = "KernelFlags"      -> {<<"flags", c.lowest_thread_priority % 64, c.highest_thread_priority % 64,
                                         c.lowest_cpu_id, c.highest_cpu_id>>}
    [] c.kind = "Syscalls"         -> {<<"syscall", id>> : id \in {i \in c.ids : i < 192}}
    [] c.kind = "Map"              -> {<<"map", c.address % 2^28, c.size % 2^20, c.is_ro, c.is_io>>}
    [] c.kind = "MapPage"          -> {<<"page", c.page % 2^24>>}
    [] c.kind = "MapRegion"        -> {<<"region", c.regions[i].type % 64, c.regions[i].is_ro>> :
                                         i \in DOMAIN c.regions \intersect 1..3}
    [] c.kind = "IrqPair"          -> {<<"irq", c.irqs[1] % 1024>>, <<"irq", c.irqs[2] % 1024>>}
    [] c.kind = "ApplicationType"  -> {<<"application", c.value % 8>>}
    [] c.kind = "MinKernelVersion" -> {<<"kernel", c.value % 2^17>>}
    [] c.kind = "HandleTableSize"  -> {<<"handles", c.value % 1024>>}
    [] c.kind = "DebugFlags"       -> {<<"debug", c.allow_debug, c.force_debug_prod, c.force_debug>>}

NoRegion == {<<"region", 0, 0>>}

GrantsWhatIsAsked(s, caps) ==
  (UNION {Grants(Words(s), i) : i \in DOMAIN Words(s)}) \ NoRegion = (UNION {Asks(caps[i]) : i \in DOMAIN caps}) \ NoRegion

\* Every descriptor keeps its type and its fields apart for any field values: the
\* block of either section grants exactly the system calls, mappings, interrupts
\* and limits that were asked for, and of a value too wide its low bits.
CapabilitiesDecode ==
  npdmPhase = "built" =>
    /\ npdmResult.status = "ok" /\ npdmResult.block = "kc" => GrantsWhatIsAsked(npdmResult.data, Aci.capabilities)
    /\ GrantsWhatIsAsked(AcidBlock(npdm.acid.blocks.kc_offset, npdm.acid.blocks.kc_size), Acid.capabilities)

\* The comments of encode give a mapping's size 21 bits, `size[20:0]`
\* (write/npdm.rs:198 and :207), so that an ACID for a size 2^20 larger, its bit 20
\* the other way, would be another block.  The code's mask, 0x000F_FFFF, has 20 bits.
MapSizeKept ==
  npdmPhase = "built" =>
    \A i \in {j \in DOMAIN Acid.capabilities : Acid.capabilities[j].kind = "Map"} :
      build_kernel_capabilities([Acid.capabilities EXCEPT ![i].size = @ + 2^20]) #
        AcidBlock(npdm.acid.blocks.kc_offset, npdm.acid.blocks.kc_size)
=============================================================================
