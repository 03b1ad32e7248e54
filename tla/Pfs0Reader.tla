----------------------------- MODULE Pfs0Reader -----------------------------
(***************************************************************************)
(* Pfs0 of read/pfs0.rs: try_from_bytes checks everything once, and the    *)
(* accessors slice without checking again.  A slice outside its region     *)
(* would panic, which a lookup records as its result.                      *)
(***************************************************************************)
EXTENDS Integers, FiniteSetsExt, SequencesExt

CONSTANTS
  Archives,      \* buffers the crate did not build
  Lookups,       \* names callers look up
  INVALID,       \* a byte that occurs in no UTF-8 string
  USIZE_MAX

ASSUME UsizeAssumption == USIZE_MAX \in Nat

VARIABLES
  rpc,           \* "none", "ready", "done"
  arc,           \* the archive handed to try_from_bytes
  looked,        \* argument of file_by_name
  result

rVars == <<rpc, arc, looked, result>>

HEADER_MAGIC == "PFS0"
PFS0_HEADER_SIZE == 16                  \* size_of::<Pfs0Header>()

NoResult == [status |-> "none"]
RInit == rpc = "none" /\ arc = <<>> /\ looked = <<>> /\ result = NoResult

StringTable(a) == SubSeq(a.rest, 1, a.string_table_size)
DataRegion(a) == SubSeq(a.rest, a.string_table_size + 1, Len(a.rest))

\* check_file_bounds
FileError(e, available) ==
  IF e.offset + e.size > USIZE_MAX THEN "FileBoundsOverflow"
  ELSE IF e.offset + e.size > available THEN "FileOutOfBounds"
  ELSE "none"

\* Mutant: a name may run to the end of the string table.
NameErrorUnterminated(e, table) ==
  IF e.string_table_offset > Len(table) THEN "NameOutOfBounds" ELSE "none"

\* check_name_bounds
NameError(e, table) ==
  IF e.string_table_offset > Len(table) THEN "NameOutOfBounds"
  ELSE IF \A i \in (e.string_table_offset + 1)..Len(table) : table[i] # 0 THEN "NameUnterminated"
  ELSE "none"

EntryError(a, e) ==
  IF FileError(e, Len(DataRegion(a))) # "none"
  THEN FileError(e, Len(DataRegion(a)))
  ELSE NameError(e, StringTable(a))

\* `entries` is the entry table the buffer has room for; the header may claim
\* more.  The first entry that breaks a rule decides the error.
HeaderError(a) ==
  LET bad == SelectInSeq(a.entries, LAMBDA e : EntryError(a, e) # "none") IN
  IF a.len < PFS0_HEADER_SIZE THEN "BufferTooSmall"
  ELSE IF a.magic # HEADER_MAGIC THEN "InvalidMagic"
  ELSE IF a.file_count > Len(a.entries) THEN "EntryTableOutOfBounds"
  ELSE IF a.string_table_size > Len(a.rest) THEN "StringTableOutOfBounds"
  ELSE IF bad # 0 THEN EntryError(a, a.entries[bad])
  ELSE "none"

TryFromBytes(a) ==
  /\ rpc = "none"
  /\ arc' = a
  /\ IF HeaderError(a) = "none"
     THEN rpc' = "ready" /\ UNCHANGED result
     ELSE rpc' = "done" /\ result' = [status |-> "err", error |-> HeaderError(a)]
  /\ UNCHANGED looked

(***************************************************************************)
(* resolve                                                                 *)
(***************************************************************************)
Resolvable(e) ==
  /\ e.string_table_offset =< arc.string_table_size
  /\ arc.string_table_size + e.offset + e.size =< Len(arc.rest)

\* The name runs to its terminator, and reads as empty when it is not UTF-8.
NameAt(e) ==
  LET bytes == SubSeq(arc.rest, e.string_table_offset + 1, arc.string_table_size)
      nul == SelectInSeq(bytes, LAMBDA b : b = 0)
      name == IF nul = 0 THEN bytes ELSE SubSeq(bytes, 1, nul - 1)
  IN  IF INVALID \in ToSet(name) THEN <<>> ELSE name

DataAt(e) == SubSeq(DataRegion(arc), e.offset + 1, e.offset + e.size)

\* Mutant: an entry matches when its name starts with the name looked up.
FileByNamePrefix(name) ==
  /\ rpc = "ready"
  /\ looked' = name
  /\ LET hit == SelectInSeq(arc.entries, LAMBDA e : IsPrefix(name, NameAt(e)))
     IN  result' = IF hit = 0 THEN [status |-> "absent"]
                   ELSE [status |-> "ok", entry |-> arc.entries[hit], data |-> DataAt(arc.entries[hit])]
  /\ rpc' = "done"
  /\ UNCHANGED arc

\* files().find(..): entries are resolved one by one up to the first match.
FileByName(name) ==
  /\ rpc = "ready"
  /\ looked' = name
  /\ LET hit == SelectInSeq(arc.entries, LAMBDA e : Resolvable(e) /\ NameAt(e) = name)
         panic == SelectInSeq(arc.entries, LAMBDA e : ~Resolvable(e))
     IN  result' = IF panic # 0 /\ (hit = 0 \/ panic < hit) THEN [status |-> "panic"]
                   ELSE IF hit = 0 THEN [status |-> "absent"]
                   ELSE [status |-> "ok", entry |-> arc.entries[hit], data |-> DataAt(arc.entries[hit])]
  /\ rpc' = "done"
  /\ UNCHANGED arc

\* files(): every entry, in table order.
Listing == [k \in DOMAIN arc.entries |-> [name |-> NameAt(arc.entries[k]), data |-> DataAt(arc.entries[k])]]

RNext == \E name \in Lookups : FileByName(name)

\* try_from_bytes called on bytes the crate did not build.
ForeignArchive == rpc = "none" /\ \E a \in Archives : TryFromBytes(a)
-----------------------------------------------------------------------------
\* "a `Pfs0` that exists is one whose files lie inside the buffer and whose names
\* are terminated inside the string table": no lookup on a validated archive
\* slices outside a region, and no name runs on into the data.
ReaderStaysInside ==
  /\ result.status # "panic"
  /\ rpc = "ready" =>
       \A k \in DOMAIN arc.entries :
         arc.entries[k].string_table_offset + Len(NameAt(arc.entries[k])) < arc.string_table_size
=============================================================================
