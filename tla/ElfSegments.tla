----------------------------- MODULE ElfSegments -----------------------------
(***************************************************************************)
(* ElfSegments of elf/segments.rs: which loadable segment of an ELF is     *)
(* text, rodata and data, how much bss follows, the build id and the MOD0  *)
(* offset, and what is handed to the NRO and NSO builders.                 *)
(*                                                                         *)
(* An ELF is what the object crate reports of it: whether it parsed, its   *)
(* machine, its program headers and its note sections.  Addresses are u64  *)
(* and are narrowed to u32 only when a builder is filled.                  *)
(***************************************************************************)
EXTENDS Integers, FiniteSetsExt, SequencesExt

CONSTANTS
  None,              \* Option::None
  Elfs,              \* ELF files callers parse
  PAGE,              \* 0x1000
  ID_SIZE,           \* bytes of a build id: 0x20
  U32,               \* 2^32
  U64                \* 2^64

ASSUME ElfUnits ==
  PAGE \in Nat \ {0} /\ U32 \in Nat \ {0} /\ U64 \in Nat \ {0} /\ PAGE =< U32 /\ U32 =< U64

\* Addresses and sizes are the u64 fields of a program header.
ASSUME ElfsSupplied ==
  /\ None \notin Elfs
  /\ \A e \in Elfs :
       e.segments \in Seq([load : BOOLEAN, readable : BOOLEAN, addr : 0..(U64 - 1), bytes : Seq(Int), memsz : 0..(U64 - 1)])

NT_GNU_BUILD_ID == 3
NOTE_HEADER == 12
NAME_SIZE == 4
ParseErrors == {"InvalidElf", "UnsupportedArch", "UnreadableSegment", "MissingText", "MissingRodata", "MissingData"}

PtLoads(e) == {i \in DOMAIN e.segments : e.segments[i].load}

\* The object crate's segments() yields the PT_LOAD headers only, in file order:
\* the header at i comes out as the Turn(e, i)-th of them.
Turn(e, i) == Cardinality({j \in PtLoads(e) : j =< i})

\* The headers zipped with the segments: whether the k-th segment is taken is
\* decided by the type of the k-th header, which is that segment's own only while
\* no other header came before it.
Loads(e) == {i \in PtLoads(e) : e.segments[Turn(e, i)].load}

\* sort_by_key on the address is stable.
Before(e, i, j) ==
  \/ e.segments[i].addr < e.segments[j].addr
  \/ e.segments[i].addr = e.segments[j].addr /\ i < j

\* Mutant: segments are taken in the order the file lists them.
LoadSegmentsAsListed(e) == LET listed == SetToSortSeq(Loads(e), <) IN [k \in DOMAIN listed |-> e.segments[listed[k]]]

\* The k-th of the segments taken is the one with k - 1 before it.
LoadSegments(e) ==
  [k \in 1..Cardinality(Loads(e)) |->
     e.segments[CHOOSE i \in Loads(e) : Cardinality({j \in Loads(e) : Before(e, j, i)}) = k - 1]]

\* The first check that fails.
ParseError(e) ==
  IF ~e.valid THEN "InvalidElf"
  ELSE IF ~e.aarch64 THEN "UnsupportedArch"
  ELSE IF \E i \in Loads(e) : ~e.segments[i].readable THEN "UnreadableSegment"
  ELSE IF Len(LoadSegments(e)) = 0 THEN "MissingText"
  ELSE IF Len(LoadSegments(e)) = 1 THEN "MissingRodata"
  ELSE IF Len(LoadSegments(e)) = 2 THEN "MissingData"
  ELSE "none"

\* `(n + 0xFFF) & !0xFFF`; the u64 sum wraps where the profile does not check it.
RoundUp(n) == ((((n + PAGE - 1) % U64) \div PAGE) * PAGE)

\* A fourth segment is bss; otherwise what data asks for past its last page.
BssSize(e) ==
  LET loads == LoadSegments(e)
      data == loads[3]
      stored == RoundUp(Len(data.bytes))
  IN  IF Len(loads) >= 4 THEN RoundUp(loads[4].memsz)
      ELSE IF data.memsz > Len(data.bytes) /\ data.memsz > stored THEN RoundUp(data.memsz - stored)
      ELSE 0

\* The first note of a section counts, if it is a GNU build id and reaches its name.
IsBuildId(section) ==
  /\ section.note /\ section.readable
  /\ section.len >= NOTE_HEADER + NAME_SIZE
  /\ section.type = NT_GNU_BUILD_ID /\ section.namesz = NAME_SIZE /\ section.name = "GNU"

\* Zero-padded, or cut to the field's width or to what the section holds.
BuildIdOf(e) ==
  LET first == SelectInSeq(e.notes, IsBuildId)
      note == e.notes[first]
      size == Min({note.descsz, ID_SIZE, note.len - NOTE_HEADER - NAME_SIZE})
  IN  IF first = 0 THEN None
      ELSE [i \in 1..ID_SIZE |-> IF i =< size THEN note.desc[i] ELSE 0]

\* A little-endian u32 at a 0-based offset.
Word(bytes, at) == bytes[at + 1] + 256 * (bytes[at + 2] + 256 * (bytes[at + 3] + 256 * bytes[at + 4]))

\* The second word of text, when it names a place inside text.
Mod0Offset(e) ==
  LET text == LoadSegments(e)[1].bytes
  IN  IF Len(text) >= 8 /\ Word(text, 4) > 0 /\ Word(text, 4) < Len(text) THEN Word(text, 4) ELSE None

\* into_nro_builder and into_nso_builder: the setters they call, with `as u32`.
BuilderFields(e) ==
  LET loads == LoadSegments(e)
  IN  [text         |-> loads[1].bytes,
       text_vaddr   |-> loads[1].addr % U32,
       rodata       |-> loads[2].bytes,
       rodata_vaddr |-> loads[2].addr % U32,
       data         |-> loads[3].bytes,
       data_vaddr   |-> loads[3].addr % U32,
       bss_size     |-> BssSize(e) % U32]

\* What the extraction expects of an ELF: its PT_LOAD headers come before any
\* other; three of them store bytes and at most one is bss, which starts where
\* data's pages end at the latest; no two overlap, and all lie in the 32-bit space
\* of the formats.
WellLaid(e) ==
  LET loads == PtLoads(e)
      seg(i) == e.segments[i]
  IN  /\ ParseError(e) = "none"
      /\ \A i \in loads : \A j \in 1..i : seg(j).load
      /\ \A i \in loads : Len(seg(i).bytes) =< seg(i).memsz /\ seg(i).addr + seg(i).memsz + PAGE =< U32
      /\ \A i, j \in loads : i # j => \/ seg(i).addr < seg(j).addr /\ seg(i).addr + seg(i).memsz =< seg(j).addr
                                      \/ seg(j).addr < seg(i).addr /\ seg(j).addr + seg(j).memsz =< seg(i).addr
      /\ \/ Cardinality(loads) = 3
         \/ /\ Cardinality(loads) = 4
            /\ \E bss, data \in loads :
                 /\ data # bss /\ \A i \in loads \ {bss} : seg(i).addr =< seg(data).addr /\ seg(i).addr < seg(bss).addr
                 /\ seg(bss).bytes = <<>>
                 /\ seg(bss).addr =< seg(data).addr + RoundUp(Len(seg(data).bytes))
=============================================================================
