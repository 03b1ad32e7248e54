-------------------------------- MODULE MCNca --------------------------------
(***************************************************************************)
(* Media units of 4 bytes after a header of 8, digests of 2, IVFC blocks   *)
(* of 4, so that tables and levels end inside, on and past a boundary; up  *)
(* to three sections, an empty one among them, and a unit limit that only  *)
(* three large sections exceed.                                            *)
(*                                                                         *)
(* The foreign images have each bound of a section, each type and each     *)
(* field of a superblock on both sides of its check, in an image whose     *)
(* other slots are fine.                                                   *)
(***************************************************************************)
EXTENDS Nca, SequencesExt

Mix(h, x) == (h * 31 + x + 7) % 9973
MCHash(bytes) == LET h == FoldLeft(Mix, Len(bytes) + 1, bytes) IN <<1 + (h % 97), 1 + (h \div 97)>>
MCHashHeader(fs) == [of |-> fs]

Bytes(n) == [i \in 1..n |-> 100 + ((i * i) % 7)]
RomFsOf(n, e) == [kind |-> "RomFs", bytes |-> Bytes(n), encryption |-> e]
ArchiveOf(n, block, e) == [kind |-> "Pfs0", bytes |-> Bytes(n), block |-> block, encryption |-> e]

MCSettings ==
  [content_type   |-> {2},
   sdk_version    |-> {9},
   key_generation |-> {-1, 0, 1, 2, 3, 32, 33, 256},
   key            |-> {7},
   index          |-> {0, 2, 3, 4},
   section        |-> {RomFsOf(0, "None"), RomFsOf(9, "Ctr"), ArchiveOf(3, 4, "Ctr"), ArchiveOf(8, 4, "None"),
                       ArchiveOf(0, 2, "Ctr"), ArchiveOf(5, 0, "None")}]

Superblock(offset, size, count) ==
  [pfs0_offset |-> offset, pfs0_size |-> size, level_count |-> count,
   levels |-> [i \in 0..5 |-> [logical_offset |-> IF i = 5 THEN offset ELSE i, hash_data_size |-> size]]]

Fs(hash, crypt, sb) == [fs_type |-> 3 - hash, hash_type |-> hash, crypt_type |-> crypt, section_ctr |-> 5, superblock |-> sb]

Image(len, magic, type, entry, fs) ==
  [len |-> len, magic |-> magic, content_type |-> type, nca_size |-> len, crypto_type |-> 0, crypto_type2 |-> 0,
   section_entries |-> [i \in Slots |-> CASE i = 1 -> entry [] i = 3 -> [start |-> 2, end |-> 3]
                                          [] OTHER -> [start |-> 0, end |-> 0]],
   fs_headers |-> [i \in Slots |-> CASE i = 1 -> fs [] i = 3 -> Fs(2, 1, Superblock(0, 4, 0))
                                     [] OTHER -> Fs(1, 0, Superblock(0, 99, 0))],
   body |-> [k \in 1..(IF len < HEADER THEN 0 ELSE len - HEADER) |-> k % 3]]

Entry(s, e) == [start |-> s, end |-> e]

MCNcas ==
  {Image(16, "NCA3", 0, Entry(s, e), Fs(2, 3, Superblock(off, size, 0))) :
     s \in {0, 1, 2, 3}, e \in {0, 2, 3, 4, 5}, off \in {0, 3, 4, 9}, size \in {0, 1, U64_MAX}}
  \union {Image(16, "NCA3", 0, Entry(s, 4), Fs(hash, crypt, Superblock(off, 1, count))) :
     s \in {0, 2}, hash \in {1, 2, 3, 4}, crypt \in {0, 1, 3, 4, 5}, off \in {7, 8}, count \in {1, 2, 7, 8}}
  \union {Image(len, magic, type, Entry(2, 2), Fs(2, 3, Superblock(0, 0, 0))) :
            len \in {7, 8, 12}, magic \in {"NCA3", "NCA2"}, type \in {5, 6}}
=============================================================================
