-------------------------------- MODULE MCNso --------------------------------
(***************************************************************************)
(* Segments that are empty, short of a page, a page and more than one; an  *)
(* address space of 272 bytes, so that three uncompressed segments may be  *)
(* laid out past it; foreign images whose extents sit on both sides of the *)
(* buffer's end and of usize, overlap the header, and whose sizes disagree *)
(* with what is stored.  The ELFs list segments out of order, have bss as  *)
(* a segment or as the tail of data, lie on page boundaries or not, and    *)
(* have a header that is not PT_LOAD before or after the others.           *)
(***************************************************************************)
EXTENDS Nso

MCSettings ==
  [text        |-> {<<>>, <<1, 1, 1, 1>>, <<1, 1, 1, 2, 2>>},
   rodata      |-> {<<2>>, <<5, 5, 5, 5, 5>>},
   data        |-> {<<3, 4>>, <<7, 7, 7, 7, 7, 7, 7, 7>>},
   text_vaddr  |-> {4},
   rodata_vaddr |-> {16},
   data_vaddr  |-> {32},
   bss_size    |-> {64},
   compress    |-> {TRUE, FALSE},
   module_id   |-> {"id"}]

Load(addr, bytes, memsz) == [load |-> TRUE, readable |-> TRUE, addr |-> addr, bytes |-> bytes, memsz |-> memsz]

\* A header that is not PT_LOAD.
Other == [Load(2, <<1>>, 1) EXCEPT !.load = FALSE]

BuildIdNote ==
  [note |-> TRUE, readable |-> TRUE, len |-> 18, type |-> 3, namesz |-> 4, name |-> "GNU", descsz |-> 2, desc |-> <<81, 82>>]

MCElfs ==
  {[valid |-> TRUE, aarch64 |-> TRUE, segments |-> segs, notes |-> notes] :
     segs \in {<<Load(20, <<2, 2, 2>>, m), Load(0, <<1, 1, 1, 1>>, 4), Load(ro, <<3>>, 1)>> : m \in {3, 4, 9}, ro \in {4, 5}}
             \union {<<Load(0, <<1>>, 1), Load(8, <<7, 8>>, 2), Load(12, <<2>>, 2), Load(14, <<>>, m)>> : m \in {1, 6}}
             \union {<<Load(0, <<1>>, 1)>>},
     notes \in {<<>>, <<BuildIdNote>>}}
  \union {[valid |-> TRUE, aarch64 |-> TRUE, segments |-> segs, notes |-> <<>>] :
     segs \in {<<Load(0, <<1>>, 1), Load(8, <<7, 8>>, 2), Load(12, <<2>>, 2), Other>>,
               <<Other, Load(0, <<1>>, 1), Load(8, <<7, 8>>, 2), Load(12, <<2>>, 2)>>}}

\* A codec with the contract of an LZ4 block: a run becomes its byte and its
\* length, anything else is stored, and the first byte tells which.
MCCompress(bytes) ==
  IF Len(bytes) > 3 /\ Cardinality(ToSet(bytes)) = 1
  THEN <<1, bytes[1], Len(bytes)>>
  ELSE <<0>> \o bytes

\* Refuses a malformed block and one that expands past the room given for it.
MCDecompress(stream, room) ==
  LET packed == Len(stream) = 3 /\ stream[1] = 1
      stored == stream # <<>> /\ Head(stream) = 0
      data == IF packed THEN [i \in 1..stream[3] |-> stream[2]] ELSE Tail(stream)
  IN  IF (packed \/ stored) /\ Len(data) =< room
      THEN [status |-> "ok", data |-> data]
      ELSE [status |-> "err", error |-> "Lz4"]

MCHash(bytes) == [of |-> bytes]

Extent(offset, file_size, size) ==
  [file_offset |-> offset, memory_offset |-> 0, size |-> size, file_size |-> file_size, hash |-> "none"]

Foreign(len, magic, flags, segs) ==
  [len |-> len, magic |-> magic, flags |-> [compressed |-> flags, hashed |-> {}],
   segments |-> segs, bss_size |-> 0, module_id |-> NO_ID,
   payload |-> [k \in 1..(IF len < HEADER_SIZE THEN 0 ELSE len - HEADER_SIZE) |-> k % 2]]

Extents == {Extent(off, stored, size) : off \in {0, 256, 259, 990}, stored \in {0, 3, 20}, size \in {0, 2}}

MCNsos ==
  {Foreign(len, magic, flags, [s \in SEGMENTS |-> CASE s = "text" -> t [] s = "rodata" -> r [] OTHER -> Extent(256, 3, 3)]) :
     len \in {255, 256, 259, 262}, magic \in {"NSO0", "NSO1"}, flags \in {{}, {"text", "data"}},
     t \in Extents, r \in {Extent(257, 2, 2), Extent(258, 4, 4)}}
=============================================================================
