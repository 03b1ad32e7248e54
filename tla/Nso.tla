--------------------------------- MODULE Nso ---------------------------------
(***************************************************************************)
(* An NSO image filled by setters or from an ELF, built and read back.     *)
(* Where nothing was built the reader meets foreign images.                *)
(***************************************************************************)
EXTENDS NsoBuilder, NsoReader

\* The bytes a segment may be given, by a setter or from an ELF.
ElfBytesGiven == UNION {{e.segments[i].bytes : i \in DOMAIN e.segments} : e \in Elfs}
Given == (UNION {Settings[s] : s \in SEGMENTS \intersect DOMAIN Settings}) \union ElfBytesGiven

\* Setters take what their fields hold, and a usize holds any u32.
ASSUME NsoSettings ==
  /\ DOMAIN Settings \subseteq DOMAIN NewBuilder /\ Given \subseteq Seq(Int)
  /\ "compress" \in DOMAIN Settings => Settings["compress"] \subseteq BOOLEAN
  /\ USIZE_MAX \in Nat /\ U32 =< USIZE_MAX

\* What build relies on from LZ4: a block expands to what it was made from when
\* it is given that much room.
ASSUME Lz4RoundTrip ==
  \A bytes \in Given :
    /\ Compress(Padded(bytes)) \in Seq(Int)
    /\ Decompress(Compress(Padded(bytes)), Len(Padded(bytes))) = [status |-> "ok", data |-> Padded(bytes)]

vars == <<bVars, rVars>>

Init == BInit /\ RInit

Finished == (rpc = "done" \/ phase \in ParseErrors \union BuildErrors \union {"overflow"}) /\ UNCHANGED vars

Next ==
  \/ rpc = "none" /\ BNext /\ UNCHANGED rVars
  \/ phase = "built" /\ TryFromBytes(image) /\ UNCHANGED bVars
  \/ phase = "set" /\ calls = 0 /\ elf = None /\ ForeignBytes /\ UNCHANGED bVars
  \/ phase = "set" /\ calls = 0 /\ elf = None /\ ForeignPtr /\ UNCHANGED bVars
  \/ RNext /\ UNCHANGED bVars
  \/ Finished

Spec == Init /\ [][Next]_vars
-----------------------------------------------------------------------------
\* The image and each of its expanded segments can be described in 32 bits.
Fits == image.len < U32 /\ \A s \in SEGMENTS : Len(Padded(b[s])) < U32

\* The builder still holds what the ELF gave it.
FromElfOnly == elf # None /\ \A f \in DOMAIN BuilderFields(elf) : b[f] = BuilderFields(elf)[f]

\* What a loader has at an address: of the expanded segments that cover it the one
\* that starts last; zeros where there is none.
Memory(a) ==
  LET covers(s) == a \in image.segments[s].memory_offset..(image.segments[s].memory_offset + image.segments[s].size - 1)
      over == {s \in SEGMENTS : covers(s)}
      s == CHOOSE s \in over : \A t \in over : image.segments[t].memory_offset =< image.segments[s].memory_offset
  IN  IF over = {} THEN 0 ELSE Padded(b[s])[a - image.segments[s].memory_offset + 1]

\* Every byte of the ELF is where the ELF says, zeros fill its memory size, and
\* all of it lies below the end of data and bss.
LoadsLikeElf ==
  \A i \in PtLoads(elf) :
    LET seg == elf.segments[i]
        data == image.segments["data"]
    IN  \A a \in seg.addr..(seg.addr + seg.memsz - 1) :
          /\ a < data.memory_offset + data.size + image.bss_size
          /\ Memory(a) = IF a - seg.addr < Len(seg.bytes) THEN seg.bytes[a - seg.addr + 1] ELSE 0

\* Whatever order the setters came in, an image that fits in 32 bits is accepted,
\* each accessor returns the padded segment its setter was last given, and the
\* header's hash is the hash of exactly those bytes ("the header's size and its
\* hash both cover that padding"); an image filled from an ELF loads like it.
SegmentsComeBack ==
  phase = "built" /\ Fits =>
    /\ result.status \notin {"err", "panic"}
    /\ result.status = "ok" =>
         /\ result.expanded => result.data = Padded(b[result.segment])
         /\ result.expanded => Hash(result.data) = nso.segments[result.segment].hash
         /\ ~result.expanded => result.data = SegmentBytes(result.segment)
    /\ FromElfOnly /\ WellLaid(elf) => LoadsLikeElf
=============================================================================
