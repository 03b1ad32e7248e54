----------------------------- MODULE Pfs0Builder -----------------------------
(***************************************************************************)
(* Pfs0Builder of write/pfs0.rs.  Files are added by name, or collected    *)
(* from a directory in whatever order read_dir returns them; build sorts   *)
(* them and writes the header, the entry table, the string table and the   *)
(* data.  The builder is taken by value: a failed call ends its life.      *)
(*                                                                         *)
(* An archive is its header fields, its entry table, and the bytes that    *)
(* follow: string table and data in one sequence, since only the header's  *)
(* string_table_size says where one ends and the other begins.             *)
(***************************************************************************)
EXTENDS NameOrder

CONSTANTS
  Names,        \* names callers pass to add_file
  Contents,     \* file contents
  Directories,  \* directories from_directory may be pointed at: sets of entries
  MaxFiles,     \* bound on the files added by hand
  ISIZE_MAX,    \* no buffer is longer
  U32_MAX       \* bound on the string table: past it the casts of build would wrap

VARIABLES
  phase,        \* "add", "scan", "sum", "write", "built", or how a call failed
  files,        \* the builder's vector
  listing,      \* entries read_dir has not returned yet
  scanned,      \* from_directory's file_entries
  sums,         \* history: the offsets build's sums passed, the totals last
  at,           \* string_offset and data_offset of build's loop
  archive,      \* what build has written
  stored        \* history: the files the builder accepted

bVars == <<phase, files, listing, scanned, sums, at, archive, stored>>

NUL == 0
SLASH == 47
BACKSLASH == 92
PFS0_MAGIC == "PFS0"
HEADER_SIZE == 16
ENTRY_SIZE == 24
NoArchive == <<>>
Start == [string_offset |-> 0, data_offset |-> 0]

BuilderErrors == {"EmptyFileName", "InvalidFileName", "DuplicateFile", "Io", "InvalidUtf8", "CapacityOverflow"}

\* Pfs0Builder::new, by a caller or by from_directory.
BInit ==
  /\ files = <<>> /\ scanned = <<>> /\ sums = <<>> /\ at = Start /\ archive = NoArchive /\ stored = {}
  /\ \/ phase = "add" /\ listing = {}
     \/ phase = "scan" /\ listing \in Directories

BFail(error) ==
  /\ phase' = error
  /\ UNCHANGED <<files, listing, scanned, sums, at, archive, stored>>

(***************************************************************************)
(* add_file                                                                *)
(***************************************************************************)
\* The first rule the name breaks, or "none".
AddFileError(fls, name) ==
  IF name = <<>> THEN "EmptyFileName"
  ELSE IF {NUL, SLASH, BACKSLASH} \intersect ToSet(name) # {} THEN "InvalidFileName"
  ELSE IF \E i \in DOMAIN fls : fls[i].name = name THEN "DuplicateFile"
  ELSE "none"

File(name, data) == [name |-> name, data |-> data]

AddFile(name, data) ==
  /\ phase = "add"
  /\ Len(files) < MaxFiles
  /\ IF AddFileError(files, name) # "none"
     THEN BFail(AddFileError(files, name))
     ELSE /\ files' = Append(files, File(name, data))
          /\ stored' = stored \union {File(name, data)}
          /\ UNCHANGED <<phase, listing, scanned, sums, at, archive>>

(***************************************************************************)
(* from_directory                                                          *)
(***************************************************************************)
\* Directories and whatever is not a regular file are skipped.
ScanEntry(e) ==
  /\ phase = "scan"
  /\ listing' = listing \ {e}
  /\ IF ~e.regular
     THEN UNCHANGED <<phase, scanned>>
     ELSE IF ~e.utf8
     THEN phase' = "InvalidUtf8" /\ UNCHANGED scanned
     ELSE scanned' = Append(scanned, File(e.name, e.data)) /\ UNCHANGED phase
  /\ UNCHANGED <<files, sums, at, archive, stored>>

IoFails ==
  /\ phase = "scan"
  /\ listing # {}
  /\ BFail("Io")

\* The scan is sorted by name, then every file goes through add_file.
ScanDone ==
  /\ phase = "scan"
  /\ listing = {}
  /\ LET sorted == Remap(SortedBy(NamesOf(scanned)), scanned)
         bad == SelectInSeq([i \in DOMAIN sorted |-> i],
                            LAMBDA i : AddFileError(SubSeq(sorted, 1, i - 1), sorted[i].name) # "none")
     IN  IF bad # 0
         THEN BFail(AddFileError(SubSeq(sorted, 1, bad - 1), sorted[bad].name))
         ELSE /\ files' = sorted
              /\ stored' = ToSet(sorted)
              /\ phase' = "add"
              /\ UNCHANGED <<listing, scanned, sums, at, archive>>

(***************************************************************************)
(* build                                                                   *)
(***************************************************************************)
Build ==
  /\ phase = "add"
  /\ files' = Remap(SortedBy(NamesOf(files)), files)
  /\ sums' = <<Start>>
  /\ phase' = "sum"
  /\ UNCHANGED <<listing, scanned, at, archive, stored>>

\* The offsets after a file: its name is terminated, its data is not.
Past(o, f) ==
  [string_offset |-> o.string_offset + Len(f.name) + 1, data_offset |-> o.data_offset + Len(f.data)]

\* The sums that size the string table and the data.
AddUp ==
  /\ phase = "sum"
  /\ Len(sums) =< Len(files)
  /\ sums' = Append(sums, Past(Last(sums), files[Len(sums)]))
  /\ UNCHANGED <<phase, files, listing, scanned, at, archive, stored>>

\* Mutant: the string table is not aligned.
string_table_size_Raw(raw) == raw

string_table_size(raw) == Align(raw, 32)

\* The buffer, zeroed, with the header in it; vec! refuses what no buffer can hold.
Allocate ==
  LET table == string_table_size(Last(sums).string_offset)
      size == table + Last(sums).data_offset
      total == HEADER_SIZE + ENTRY_SIZE * Len(files) + size
  IN  /\ phase = "sum"
      /\ Len(sums) > Len(files)
      /\ table =< U32_MAX
      /\ IF total > ISIZE_MAX
         THEN BFail("CapacityOverflow")
         ELSE /\ archive' = [len |-> total, magic |-> PFS0_MAGIC, file_count |-> Len(files), string_table_size |-> table,
                             entries |-> <<>>, rest |-> [k \in 1..size |-> 0]]
              /\ at' = Start
              /\ phase' = "write"
              /\ UNCHANGED <<files, listing, scanned, sums, stored>>

\* copy_from_slice
WriteAt(buf, offset, bytes) ==
  [i \in DOMAIN buf |-> IF i \in (offset + 1)..(offset + Len(bytes)) THEN bytes[i - offset] ELSE buf[i]]

\* One iteration of the loop that writes entries, names and data.
WriteFile ==
  LET f == files[Len(archive.entries) + 1]
      named == WriteAt(archive.rest, at.string_offset, f.name)
  IN  /\ phase = "write"
      /\ Len(archive.entries) < Len(files)
      /\ archive' = [archive EXCEPT
           !.entries = Append(@, [offset |-> at.data_offset, size |-> Len(f.data), string_table_offset |-> at.string_offset]),
           !.rest = WriteAt(named, archive.string_table_size + at.data_offset, f.data)]
      /\ at' = Past(at, f)
      /\ UNCHANGED <<phase, files, listing, scanned, sums, stored>>

BuildReturns ==
  /\ phase = "write"
  /\ Len(archive.entries) = Len(files)
  /\ phase' = "built"
  /\ UNCHANGED <<files, listing, scanned, sums, at, archive, stored>>

BNext ==
  \/ \E name \in Names, data \in Contents : AddFile(name, data)
  \/ \E e \in listing : ScanEntry(e)
  \/ IoFails
  \/ ScanDone
  \/ Build \/ AddUp \/ Allocate \/ WriteFile \/ BuildReturns
=============================================================================
