------------------------------ MODULE MCMetadata ------------------------------
(***************************************************************************)
(* The three metadata files of a title and a KIP1 image, which share       *)
(* nothing: each machine runs with the others at rest.                     *)
(*                                                                         *)
(* NPDM: lists of zero to five owners, so that their flags pad to one word *)
(* and to two; names of no, eight and nine bytes; every capability with    *)
(* field values at, inside and past the field's width, system calls on     *)
(* both sides of a group's boundary and of the last group.  CNMT: sizes at *)
(* and below the limit, repeated types, buffers that end at every bound.   *)
(* NACP: every language, texts that are empty, fit and are too long.       *)
(*                                                                         *)
(* KIP1: names on both sides of the eleven bytes kept, one of them cut     *)
(* inside a character; segments that compress, that do not, and an empty   *)
(* one; flags that mark some segments packed and not others.  The foreign  *)
(* images have stored sizes whose running sum sits on both sides of the    *)
(* buffer's end and of usize, and a bss that claims to store bytes.        *)
(***************************************************************************)
EXTENDS Npdm, Cnmt, Nacp, Kip1

TitleVars == <<npdmVars, cnmtVars, nacpVars, bVars, rVars>>

TitleInit == NpdmInit /\ CnmtInit /\ NacpInit /\ Init

NpdmIdle == npdmPhase = "new"
CnmtIdle == cnmtPhase = "new"
NacpIdle == nacpPhase = "set" /\ nacpCalls = 0
KipIdle == phase = "set" /\ calls = 0 /\ rpc = "none"

TitleFinished ==
  /\ \/ npdmOpen \notin {"no", "yes"}
     \/ cnmtOpen \notin {"no", "yes"} \/ cnmtPhase \in AddContentErrors
     \/ nacpPhase \in NacpErrors
  /\ UNCHANGED TitleVars

TitleNext ==
  \/ CnmtIdle /\ NacpIdle /\ KipIdle /\ NpdmNext /\ UNCHANGED <<cnmtVars, nacpVars, bVars, rVars>>
  \/ NpdmIdle /\ NacpIdle /\ KipIdle /\ CnmtNext /\ UNCHANGED <<npdmVars, nacpVars, bVars, rVars>>
  \/ NpdmIdle /\ CnmtIdle /\ KipIdle /\ NacpNext /\ UNCHANGED <<npdmVars, cnmtVars, bVars, rVars>>
  \/ NpdmIdle /\ CnmtIdle /\ NacpIdle /\ Next /\ UNCHANGED <<npdmVars, cnmtVars, nacpVars>>
  \/ TitleFinished

TitleSpec == TitleInit /\ [][TitleNext]_TitleVars
-----------------------------------------------------------------------------
MCMetadatas == {[name |-> <<97, 98, 99>>, title_id |-> 11], [name |-> <<97, 98, 99, 195, 169>>, title_id |-> 12]}

Fs(permissions, ids, owners) ==
  [permissions |-> permissions, content_owner_ids |-> ids,
   save_data_owner_ids |-> [i \in 1..owners |-> [accessibility |-> i % 4, id |-> 70 + i]],
   content_owner_id_min |-> 3, content_owner_id_max |-> 300, save_data_owner_id_min |-> 5, save_data_owner_id_max |-> MAX_U64]

Service(n, host) == [name |-> [i \in 1..n |-> 96 + i], is_host |-> host]

CapabilitiesGiven ==
  {[kind |-> "KernelFlags", highest_thread_priority |-> 63, lowest_thread_priority |-> 64, highest_cpu_id |-> 3,
    lowest_cpu_id |-> 255],
   [kind |-> "Syscalls", ids |-> {}],
   [kind |-> "Syscalls", ids |-> {0, 23, 24, 191, 192}],
   [kind |-> "Syscalls", ids |-> 0..47 \union {127}],
   [kind |-> "Map", address |-> 2^24 + 1, size |-> 2^20 + 2, is_ro |-> 1, is_io |-> 0],
   [kind |-> "Map", address |-> 2^28 - 1, size |-> 2^20 - 1, is_ro |-> 0, is_io |-> 1],
   [kind |-> "MapPage", page |-> 2^24 - 1],
   [kind |-> "MapRegion", regions |-> <<>>],
   [kind |-> "MapRegion", regions |-> <<[type |-> 1, is_ro |-> 1], [type |-> 64, is_ro |-> 0], [type |-> 63, is_ro |-> 1],
                                        [type |-> 2, is_ro |-> 0]>>],
   [kind |-> "IrqPair", irqs |-> <<1023, 1025>>],
   [kind |-> "ApplicationType", value |-> 15],
   [kind |-> "MinKernelVersion", value |-> 2^17 - 1],
   [kind |-> "HandleTableSize", value |-> 1023],
   [kind |-> "DebugFlags", allow_debug |-> 1, force_debug_prod |-> 0, force_debug |-> 0],
   [kind |-> "DebugFlags", allow_debug |-> 0, force_debug_prod |-> 1, force_debug |-> 0],
   [kind |-> "DebugFlags", allow_debug |-> 0, force_debug_prod |-> 0, force_debug |-> 1]}

AciOf(fs, services, capabilities) ==
  [program_id |-> 9, fs |-> fs, services |-> services, capabilities |-> capabilities]
AcidOf(services, capabilities) ==
  [program_id_min |-> 1, program_id_max |-> 9, flags |-> 1, fs |-> Fs(6, <<>>, 0), services |-> services,
   capabilities |-> capabilities]

ServiceLists == {<<>>, <<Service(8, 1)>>, <<Service(0, 1), Service(9, 0), Service(1, 1)>>}

\* The second mapping is read behind another descriptor, of its own kind too.
MCAcis ==
  {AciOf(Fs(7, ids, n), s, <<>>) : ids \in {<<>>, <<40>>, <<40, 41>>}, n \in {0, 1, 4, 5}, s \in ServiceLists}
  \union {AciOf(DefaultFs, <<Service(2, 0)>>, <<c>> \o d) :
            c \in CapabilitiesGiven, d \in {<<>>, <<CHOOSE m \in CapabilitiesGiven : m.kind = "Map" /\ m.is_io = 1>>}}
MCAcids ==
  {AcidOf(s, <<>>) : s \in ServiceLists} \union {AcidOf(<<Service(1, 1)>>, <<c>>) : c \in CapabilitiesGiven}

Blocks(offset, size) ==
  [fac_offset |-> 4, fac_size |-> 0, sac_offset |-> offset, sac_size |-> size, kc_offset |-> 4, kc_size |-> 60]

Foreign(len, magics, acid, aci, blocks) ==
  [len |-> len, magic |-> magics[1], name |-> <<>>, acid_offset |-> acid[1], acid_size |-> acid[2],
   aci_offset |-> aci[1], aci_size |-> aci[2], acid |-> [magic |-> magics[2]],
   aci0 |-> [magic |-> magics[3], blocks |-> blocks], bytes |-> [i \in 1..len |-> 0]]

Good == <<"META", "ACID", "ACI0">>

MCNpdms ==
  {Foreign(20, Good, <<4, a>>, <<i, 4>>, Blocks(o, z)) :
     a \in {7, 8, 16, 17}, i \in {12, 16, 17}, o \in {0, 4, 90}, z \in {0, 1, 4}}
  \union {Foreign(len, <<m, c, i>>, <<4, 8>>, <<12, z>>, Blocks(0, 0)) :
     len \in {3, 4, 20}, m \in {"META", "none"}, c \in {"ACID", "none"}, i \in {"ACI0", "none"}, z \in {3, 4}}

MCContents ==
  {[hash |-> <<10 + t, 20 + t>>, size |-> z, content_type |-> t] : t \in {0, 1, 3, 6}, z \in {0, SIZE_LIMIT - 1}}
  \union {[hash |-> <<1, 2>>, size |-> SIZE_LIMIT, content_type |-> 4]}

\* Every length, with counts and sizes that fit and do not.
MCCnmts ==
  {SubSeq(<<1, 0, meta, ext, count, 0>> \o <<9, 9, 9, 1, 2, 3, 4, type, 5, 6, 7, 8, 3>>, 1, len) :
     meta \in {128, 131}, ext \in {0, 3, 4}, count \in {0, 1, 2}, type \in {3, 9}, len \in {5, 6, 8, 9, 13, 14, 18, 19}}

MCNacpCalls ==
  [names     |-> {<<>>, <<5>>, <<1, 2, 3>>},
   authors   |-> {<<7>>, <<8, 8>>},
   languages |-> [names |-> DOMAIN language_to_index, authors |-> {"ES", "ZHHANS"}],
   texts     |-> [names |-> {<<6>>, <<>>}, authors |-> {<<9>>}],
   fields    |-> [display_version |-> {<<9>>, <<9, 0>>, <<1, 1, 1>>},
                  application_id |-> {1, NACP_U64 - 1},
                  save_data_owner_id |-> {4},
                  user_account_save_data_size |-> {3},
                  user_account_save_data_journal_size |-> {2}]]

NacpWith(slots) ==
  [lang |-> [i \in LangSlots |-> [name |-> IF i \in slots THEN <<i + 1, i + 1, i + 1>> ELSE <<0, 1, 1>>, author |-> <<i, 0>>]],
   display_version |-> <<1, 1, 1>>]

MCNacpBuffers == {[len |-> n, nacp |-> NacpWith(slots)] : n \in {1, 2}, slots \in {{}, {3}, {5, 15}}}

As(n) == [i \in 1..n |-> 97]

MCSettings ==
  [name           |-> {As(3), As(10) \o <<LEAD, CONT>>},
   flags          |-> {{1, 3}, {0, 1, 2, 3, 6}},
   text           |-> {<<>>, <<1, 1, 1, 1>>},
   rodata         |-> {<<2>>, <<5, 5, 5, 5, 5>>},
   data           |-> {<<3, 4>>},
   title_id       |-> {7},
   text_vaddr     |-> {16},
   rodata_vaddr   |-> {32},
   rodata_attributes |-> {64},
   data_vaddr     |-> {48},
   bss_vaddr      |-> {96},
   bss_size       |-> {128}]

MCCapLists == {<<>>, <<1>>, <<2, 3>>}

\* A codec with BLZ's contract: a run becomes its byte and its length, anything
\* else is stored, and the last byte tells which.
MCCompress(bytes) ==
  IF Len(bytes) > 3 /\ Cardinality(ToSet(bytes)) = 1
  THEN <<bytes[1], Len(bytes), 1>>
  ELSE bytes \o <<0>>

MCDecompress(stream, want) ==
  LET data == IF Len(stream) = 3 /\ Last(stream) = 1 THEN [i \in 1..stream[2] |-> stream[1]]
              ELSE IF stream # <<>> /\ Last(stream) = 0 THEN Front(stream)
              ELSE <<>>
  IN  IF stream = <<>> \/ Len(data) # want
      THEN [status |-> "err", error |-> "Blz"]
      ELSE [status |-> "ok", data |-> data]

Descriptor(comp) == [dst_addr |-> 0, decomp_size |-> 2, comp_size |-> comp, attributes |-> 0]

Kip(sizes, len, flags) ==
  [len |-> len, magic |-> "KIP1", name |-> <<>>, flags |-> flags,
   segments |-> [i \in 0..5 |-> Descriptor(IF i < 4 THEN sizes[i] ELSE 0)],
   payload |-> [k \in 1..(len - HEADER_SIZE) |-> k % 3]]

MCKips ==
  {Kip(sizes, len, flags) :
     sizes \in {[i \in 0..3 |-> CASE i = 0 -> t [] i = 1 -> r [] i = 2 -> d [] OTHER -> s] :
                  t \in {0, 1, 4}, r \in {0, 3, 4}, d \in {0, 1, 2, USIZE_MAX - 100}, s \in {0, 2}},
     len \in {256, 260, 263}, flags \in {{}, {0, 2, 3}}}
  \union {[len |-> 255, magic |-> "KIP1"]}
  \union {[Kip([i \in 0..3 |-> 0], 256, {}) EXCEPT !.magic = "KIP2"]}
=============================================================================
