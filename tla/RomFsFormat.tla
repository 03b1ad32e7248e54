----------------------------- MODULE RomFsFormat -----------------------------
(***************************************************************************)
(* What a RomFS image is made of (raw/romfs.rs), shared by the builder and *)
(* the reader.  An entry is addressed by its byte offset in a metadata     *)
(* table.  A table is its byte length and the entries at the offsets they  *)
(* start at; an image is its header and what lies at each offset.          *)
(*                                                                         *)
(* A name is a sequence of character codes and a full path the sequence    *)
(* format!("{}/{}") builds, so comparing paths compares characters, the    *)
(* separator among them.                                                   *)
(***************************************************************************)
EXTENDS NameOrder

CONSTANTS
  SEP,                \* the character '/'
  NO_ENTRY,           \* u32::MAX: the end of every chain
  PathHash(_, _)      \* path_hash: a parent's offset and a name

\* No table reaches the offset that stands for "nothing here".
ASSUME NoEntryAssumption == NO_ENTRY \notin Int
ASSUME SepAssumption == SEP \in Nat

HEADER_SIZE == 80                       \* size_of::<RomFsHeader>()
DIR_ENTRY_SIZE == 24                    \* size_of::<RomFsDirEntry>()
FILE_ENTRY_SIZE == 32                   \* size_of::<RomFsFileEntry>()

DirEntrySize(name) == DIR_ENTRY_SIZE + Align(Len(name), 4)
FileEntrySize(name) == FILE_ENTRY_SIZE + Align(Len(name), 4)

\* romfs_get_hash_table_count.  One more than a multiple of all the primes has
\* none of them as a factor, so the search of the code ends within their product.
HashTableCount(n) ==
  IF n < 3 THEN 3
  ELSE IF n < 19 THEN n + 1 - (n % 2)
  ELSE Min({m \in n..(n + 2 * 3 * 5 * 7 * 11 * 13 * 17) : \A p \in {2, 3, 5, 7, 11, 13, 17} : m % p # 0})
=============================================================================
