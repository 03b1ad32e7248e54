-------------------------------- MODULE MCNro --------------------------------
(***************************************************************************)
(* Pages of 4 bytes, a stub of 8, a header that ends at 12, an asset       *)
(* header of 2; addresses 0 to 20 in a 32-bit space of 64, so that         *)
(* segments may overlap, leave the image, end before the header does, or   *)
(* wrap; assets that are missing, empty and not.                           *)
(*                                                                         *)
(* The ELFs list segments out of order, have three to five of them, bss as *)
(* a segment or as the tail of data, page-aligned and not; headers that    *)
(* are not PT_LOAD come before, among and after them; their notes are      *)
(* cut, of another type, and in the second section.  The foreign images    *)
(* have every extent on both sides of its check.                           *)
(***************************************************************************)
EXTENDS Nro

Bytes(n, x) == [i \in 1..n |-> x + i]

MCSettings ==
  [text         |-> {<<>>, Bytes(14, 20)},
   rodata       |-> {Bytes(3, 40)},
   data         |-> {<<>>, Bytes(5, 60)},
   text_vaddr   |-> {4},
   rodata_vaddr |-> {14, 16},
   data_vaddr   |-> {3, 20, 60},
   bss_size     |-> {4},
   icon         |-> {<<>>, <<91, 92, 93>>},
   nacp         |-> {<<94>>},
   romfs        |-> {<<>>, <<95, 96>>}]

Load(addr, bytes, memsz) == [load |-> TRUE, readable |-> TRUE, addr |-> addr, bytes |-> bytes, memsz |-> memsz]
Plain(segs, notes) == [valid |-> TRUE, aarch64 |-> TRUE, segments |-> segs, notes |-> notes]

\* Its second word points at `at`; a MOD0 header may be there.
Text(n, at) == [i \in 1..n |-> IF i \in 6..8 THEN 0 ELSE IF i = 5 THEN at ELSE IF i = 15 THEN 77 ELSE 20 + i]

Note(type, descsz, len) ==
  [note |-> TRUE, readable |-> TRUE, len |-> len, type |-> type, namesz |-> 4, name |-> "GNU", descsz |-> descsz,
   desc |-> <<81, 82>>]

\* A header that is not PT_LOAD.
Other == [Load(2, <<1>>, 1) EXCEPT !.load = FALSE]
Unreadable(addr) == [Load(addr, <<1>>, 1) EXCEPT !.readable = FALSE]

Layouts ==
  {<<Load(0, Text(18, at), 18), Load(20, Bytes(3, 40), 3), Load(24, Bytes(5, 60), m)>> :
     at \in {14, 17}, m \in {4, 5, 8, 9, 13}}
  \union {<<Load(0, Text(18, at), 18), Load(20, <<>>, 3), Load(24, <<>>, 5)>> : at \in {0, 12, 30}}
  \union {<<Load(24, Bytes(n, 60), n), Load(0, Text(18, 14), 18), Load(bss, <<>>, m), Load(20, Bytes(3, 40), 4)>> :
            n \in {5, 8}, bss \in {29, 32, 33}, m \in {1, 4, 5}}
  \union {<<Load(0, Text(18, 14), 18), Load(ro, Bytes(3, 40), 3), Load(da, Bytes(n, 60), 4)>> :
            ro \in {18, 22}, da \in {21, 25, 66}, n \in {0, 4}}
  \union {<<Load(4, Bytes(6, 20), 6)>>, <<Load(0, Bytes(6, 20), 6), Load(8, <<>>, 6)>>, <<>>,
          <<Load(0, Bytes(9, 20), 9), Unreadable(12)>>,
          <<Other, Load(0, Text(12, 6), 12), Load(12, <<9>>, 1), Load(16, <<8>>, 1), Load(20, <<>>, 3), Load(24, <<>>, 9)>>}
  \union {<<Load(0, Text(18, 14), 18), Load(20, <<1>>, 1), Load(24, <<2>>, 1), Other>>,
          <<Load(0, Text(18, 14), 18), Load(20, <<1>>, 1), Other, Load(24, <<2>>, 1), Load(28, <<>>, 4)>>,
          <<Other, Load(0, Text(18, 14), 18), Load(20, <<1>>, 1), Load(24, <<2>>, 1)>>,
          <<Other, Unreadable(0), Load(4, Text(14, 13), 14), Load(20, <<1>>, 1), Load(24, <<2>>, 1)>>}

Notes ==
  {<<>>, <<Note(3, 2, 18)>>, <<Note(3, 2, 17)>>, <<Note(3, 5, 30)>>, <<Note(3, 0, 15), Note(1, 2, 18), Note(3, 1, 18)>>,
   <<[Note(3, 2, 18) EXCEPT !.name = "XEN"], [Note(3, 2, 18) EXCEPT !.note = FALSE]>>}

MCElfs ==
  {Plain(l, <<>>) : l \in Layouts}
  \union {Plain(<<Load(0, Text(18, 14), 18), Load(20, <<1>>, 1), Load(24, <<2>>, 1)>>, n) : n \in Notes}
  \union {[Plain(<<>>, <<>>) EXCEPT !.valid = FALSE], [Plain(<<>>, <<>>) EXCEPT !.aarch64 = FALSE]}

Extent(off, size) == [file_off |-> off, size |-> size]
Section(off, size) == [offset |-> off, size |-> size]

Foreign(len, magic, size, seg, asset_magic, asset) ==
  [len |-> len, magic |-> magic, size |-> size, flags |-> 0, bss_size |-> 0, build_id |-> <<0, 0>>,
   segments |-> [k \in 1..3 |-> IF k = 2 THEN seg ELSE Extent(0, 4)],
   assets   |-> [magic |-> asset_magic, sections |-> [k \in 1..3 |-> IF k = 2 THEN asset ELSE Section(2, 1)]],
   bytes    |-> [i \in 1..len |-> IF i \in 6..8 THEN 0 ELSE i]]

MCNros ==
  {Foreign(len, "NRO0", size, Extent(0, 0), magic, Section(off, sz)) :
     len \in {12, 18, 19, 22}, size \in {12, 16}, magic \in {"ASET", "none"},
     off \in {0, 2, 5, 300, 995}, sz \in {0, 1, 2, 900}}
  \union {Foreign(len, magic, 12, Extent(off, size), "none", Section(0, 0)) :
     len \in {11, 12, 16}, magic \in {"NRO0", "NRO1"}, off \in {0, 8, 900}, size \in {0, 4, 8, 300}}
=============================================================================
