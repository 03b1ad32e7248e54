--------------------------------- MODULE Nro ---------------------------------
(***************************************************************************)
(* An NRO filled by setters or from an ELF, built and read back, and the   *)
(* MOD0 header found through it.  Where nothing was built the reader meets *)
(* foreign images.                                                         *)
(***************************************************************************)
EXTENDS NroBuilder, NroReader

\* The reader's constants are the builder's, and a usize holds any u32 sum.
ASSUME SameNroFormat ==
  /\ HEADERS_SIZE = HDR_END /\ ASSET_HEADER_SIZE = ASSET_HDR
  /\ USIZE_MAX \in Nat /\ 2 * U32 + ASSET_HDR =< USIZE_MAX

\* The stub holds the second word of the file, and a MOD0 header is not empty.
ASSUME StubHoldsOffset == START >= 8 /\ MOD0_SIZE \in Nat \ {0}

\* build copies the assets to a buffer, whose length is a usize.
ASSUME AssetsFit ==
  \A f \in DOMAIN Settings \intersect ToSet(ASSETS) : \A v \in Settings[f] : U32 + ASSET_HDR + 3 * Len(v) =< USIZE_MAX

vars == <<bVars, rVars>>

Init == BInit /\ RInit

Finished ==
  /\ rpc = "done" \/ phase \in ParseErrors \union BuildErrors \union {"overwritten"}
  /\ UNCHANGED vars

Next ==
  \/ rpc = "none" /\ BNext /\ UNCHANGED rVars
  \/ phase = "built" /\ TryFromBytes(image) /\ UNCHANGED bVars
  \/ phase = "set" /\ calls = 0 /\ elf = None /\ ForeignBytes /\ UNCHANGED bVars
  \/ phase = "set" /\ calls = 0 /\ elf = None /\ ForeignPtr /\ UNCHANGED bVars
  \/ RNext /\ UNCHANGED bVars
  \/ Finished

Spec == Init /\ [][Next]_vars
-----------------------------------------------------------------------------
(***************************************************************************)
(* The abstract container: segments and assets under their names.  build   *)
(* writes its header over what a segment has there; an asset of no bytes   *)
(* is not an asset.                                                        *)
(***************************************************************************)
UnderHeader(s) ==
  [i \in DOMAIN Padded(b[s]) |-> IF At(s) + i \in (START + 1)..HDR_END THEN HdrByte(At(s) + i) ELSE Padded(b[s])[i]]

Kept ==
  [k \in ToSet(SEGMENTS) \union ToSet(ASSETS) |->
     IF b[k] = None THEN None
     ELSE IF k \in ToSet(SEGMENTS) THEN UnderHeader(k)
     ELSE IF b[k] = <<>> THEN None ELSE b[k]]

\* Addresses under which no file can hold all three padded segments.
Overlaps ==
  \/ NroSizeOverflows
  \/ \E s \in ToSet(SEGMENTS) : EndOfSegment(s) > nro_size
  \/ \E s, t \in ToSet(SEGMENTS) : s # t /\ At(s) < EndOfSegment(t) /\ At(t) < EndOfSegment(s)

Abstract ==
  INSTANCE Container WITH
    Keys    <- ToSet(SEGMENTS) \union ToSet(ASSETS),
    content <- Kept,
    state   <- IF phase = "built" THEN IF Overlaps THEN "lossy" ELSE "sealed"
               ELSE IF phase # "set" THEN "failed"
               ELSE IF rpc # "none" THEN "foreign" ELSE "open",
    answer  <- IF result.status = "ok" THEN <<result.key, result.data>>
               ELSE IF result.status = "absent" THEN <<result.key, None>>
               ELSE IF result.status \in {"mod0", "no_mod0"} THEN <<"aside">>
               ELSE <<result.status>>

\* Segments that do not overlap and any assets come back whole and under their own
\* names, in whatever order the setters were called, whichever assets are missing
\* or empty, and although nothing but the end of data says where assets begin.
ImplementsContainer == Abstract!Spec

\* The builder still holds what the ELF gave it.
FromElfOnly == elf # None /\ \A f \in DOMAIN BuilderFields(elf) : b[f] = BuilderFields(elf)[f]

\* "The executable code, taken from the lowest-addressed `PT_LOAD` segment": what
\* the doc of text() says of any ELF the extraction accepts.
TextIsLowestLoad ==
  FromElfOnly =>
    \E i \in PtLoads(elf) :
      b.text = elf.segments[i].bytes /\ \A j \in PtLoads(elf) : elf.segments[i].addr =< elf.segments[j].addr

\* What a loader has at an address: the image, then bss.
Memory(a) == IF a < image.size THEN image.bytes[a + 1] ELSE 0

\* A program built from an ELF finds in memory what the ELF says: every segment's
\* bytes at its address (the header's place aside) and zeros up to its memory size,
\* all of it inside image and bss, although the three segments are padded over one
\* another, in order of address whatever order the file lists them in, and bss is
\* a fourth segment or the tail of data.
LoadsLikeElf ==
  phase = "built" /\ FromElfOnly /\ WellLaid(elf) =>
    \A i \in PtLoads(elf) :
      LET seg == elf.segments[i] IN
      \A a \in seg.addr..(seg.addr + seg.memsz - 1) :
        /\ a < image.size + image.bss_size
        /\ \/ a \in START..(HDR_END - 1)
           \/ Memory(a) = IF a - seg.addr < Len(seg.bytes) THEN seg.bytes[a - seg.addr + 1] ELSE 0

\* When text sits at 0 and its second word names a MOD0 header inside it and past
\* the NRO header, a reader following start().mod_offset finds that header.
Mod0Found ==
  phase = "built" /\ FromElfOnly /\ WellLaid(elf) /\ b.text_vaddr = 0 /\ result.status \in {"mod0", "no_mod0"} =>
    LET at == Mod0Offset(elf)
        named == at # None /\ at >= HDR_END /\ at + MOD0_SIZE =< Len(b.text)
    IN  named => (result.status = "mod0" <=> b.text[at + 1] = MOD0_MAGIC)
                 /\ (result.status = "mod0" => result.header = SubSeq(b.text, at + 1, at + MOD0_SIZE))
=============================================================================
