----------------------------- MODULE RomFsReader -----------------------------
(***************************************************************************)
(* RomFs of read/romfs.rs: try_from_bytes checks the header once, and the  *)
(* entries are checked as open and the directory iterator walk them.  One  *)
(* step per entry looked at.  The reader keeps no state between calls, so  *)
(* a behaviour is one image and one call on it.                            *)
(*                                                                         *)
(* A path handed to open is what split('/') makes of it.                   *)
(***************************************************************************)
EXTENDS RomFsFormat

CONSTANTS
  Images,        \* buffers the crate did not build
  OpenPaths,     \* paths callers open
  INVALID,       \* a byte that occurs in no UTF-8 string
  USIZE_MAX

ASSUME UsizeAssumption == USIZE_MAX \in Nat

VARIABLES
  rpc,           \* "none", "ready", "find_dir", "find_file", "data", "iter", "done"
  img,           \* the buffer handed to try_from_bytes
  asked,         \* argument of open
  rest,          \* components still to resolve
  dir,           \* offset of the directory the call stands in
  cursor,        \* next_dir_offset: next entry of the sibling chain walked
  fcursor,       \* next_file_offset of the iterator
  yielded,       \* what the iterator has returned
  result         \* what the call returned

rVars == <<rpc, img, asked, rest, dir, cursor, fcursor, yielded, result>>

NoResult == [status |-> "none"]
Err(error) == [status |-> "err", error |-> error]
Ok(bytes) == [status |-> "ok", data |-> bytes]

RInit ==
  /\ rpc = "none" /\ img = <<>>
  /\ asked = <<>> /\ rest = <<>>
  /\ dir = 0 /\ cursor = NO_ENTRY /\ fcursor = NO_ENTRY
  /\ yielded = <<>> /\ result = NoResult

RReturn(value) ==
  /\ rpc' = "done"
  /\ result' = value
  /\ UNCHANGED <<img, asked, rest, dir, cursor, fcursor, yielded>>

(***************************************************************************)
(* try_from_bytes                                                          *)
(***************************************************************************)
\* The first check that fails, in the order they are made.
Tables == <<"dir_meta", "dir_hash", "file_meta", "file_hash">>

Overflows(extent) == extent.offset + extent.size > USIZE_MAX
PastEnd(extent, len) == extent.offset + extent.size > len

HeaderError(i) ==
  LET failing == SelectInSeq(Tables, LAMBDA t : Overflows(i.header[t]) \/ PastEnd(i.header[t], i.len))
  IN  IF i.len < HEADER_SIZE THEN "BufferTooSmall"
      ELSE IF i.header.header_size # HEADER_SIZE THEN "InvalidHeaderSize"
      ELSE IF failing # 0
      THEN IF Overflows(i.header[Tables[failing]]) THEN "BoundsOverflow" ELSE "TableOutOfBounds"
      ELSE IF i.header.file_data_offset > i.len THEN "FileDataOffsetOutOfBounds"
      ELSE "none"

TryFromBytes(i) ==
  /\ rpc = "none"
  /\ img' = i
  /\ IF HeaderError(i) = "none"
     THEN rpc' = "ready" /\ UNCHANGED result
     ELSE rpc' = "done" /\ result' = Err(HeaderError(i))
  /\ UNCHANGED <<asked, rest, dir, cursor, fcursor, yielded>>

(***************************************************************************)
(* from_offset: the entry's prefix and its name lie inside the table.      *)
(***************************************************************************)
Prefix == [dir_meta |-> DIR_ENTRY_SIZE, file_meta |-> FILE_ENTRY_SIZE]

EntryEnd(t, offset) == offset + Prefix[t] + Len(img[t].entries[offset].name)

Readable(t, offset) ==
  /\ offset < img.header[t].size
  /\ offset + Prefix[t] =< img.header[t].size
  /\ EntryEnd(t, offset) =< img.header[t].size

DirAt(offset) == img.dir_meta.entries[offset]
FileAt(offset) == img.file_meta.entries[offset]
ReadableDir(offset) == Readable("dir_meta", offset)
ReadableFile(offset) == Readable("file_meta", offset)

\* The fields of a foreign image are unsigned, and so are the offsets in whatever
\* entry its bytes spell wherever the fixed part of one fits in the table.
Link == {NO_ENTRY} \union Nat

Decodable(i, t) ==
  \A o \in 0..(i.header[t].size - Prefix[t]) :
    /\ o \in DOMAIN i[t].entries
    /\ Len(i[t].entries[o].name) \in Nat /\ i[t].entries[o].sibling \in Link
    /\ t = "dir_meta" => i[t].entries[o].child \in Link /\ i[t].entries[o].file \in Link
    /\ t = "file_meta" => i[t].entries[o].data_offset \in Nat /\ i[t].entries[o].data_size \in Nat

Unsigned(i) ==
  /\ i.len \in Nat /\ i.header.file_data_offset \in Nat
  /\ \A t \in ToSet(Tables) : i.header[t].offset \in Nat /\ i.header[t].size \in Nat

ASSUME ImagesSupplied ==
  \A i \in Images : Unsigned(i) /\ Decodable(i, "dir_meta") /\ Decodable(i, "file_meta")

\* A name that is not UTF-8 reads as empty.
NameOf(entry) == IF INVALID \in ToSet(entry.name) THEN <<>> ELSE entry.name

(***************************************************************************)
(* open                                                                    *)
(***************************************************************************)
\* trim_start_matches('/')
Trimmed(path) ==
  LET first == SelectInSeq(path, LAMBDA part : part # <<>>)
  IN  IF first = 0 THEN <<>> ELSE SubSeq(path, first, Len(path))

\* The search for the first of `parts` in the directory at `offset`.
Resolve(parts, offset) ==
  /\ rest' = parts
  /\ dir' = offset
  /\ IF Len(parts) > 1
     THEN rpc' = "find_dir" /\ cursor' = DirAt(offset).child
     ELSE rpc' = "find_file" /\ cursor' = DirAt(offset).file

Open(path) ==
  /\ rpc = "ready"
  /\ asked' = path
  /\ IF Trimmed(path) = <<>>
     THEN /\ rpc' = "done" /\ result' = Err("PathNotFound")
          /\ UNCHANGED <<rest, dir, cursor>>
     ELSE IF ~ReadableDir(0)
     THEN /\ rpc' = "done" /\ result' = Err("BufferTooSmall")
          /\ UNCHANGED <<rest, dir, cursor>>
     ELSE Resolve(Trimmed(path), 0) /\ UNCHANGED result
  /\ UNCHANGED <<img, fcursor, yielded>>

\* Mutant: the walk does not advance.
FindDirStuck ==
  /\ rpc = "find_dir"
  /\ IF cursor = NO_ENTRY THEN RReturn(Err("DirNotFound"))
     ELSE IF ~ReadableDir(cursor) THEN RReturn(Err("BufferTooSmall"))
     ELSE /\ IF NameOf(DirAt(cursor)) = Head(rest)
             THEN Resolve(Tail(rest), cursor)
             ELSE UNCHANGED <<rpc, rest, dir, cursor>>
          /\ UNCHANGED <<img, asked, fcursor, yielded, result>>

\* Mutant: a match is returned before its entry is checked against the table.
FindDirUnchecked ==
  /\ rpc = "find_dir"
  /\ IF cursor = NO_ENTRY THEN RReturn(Err("DirNotFound"))
     ELSE IF cursor \notin DOMAIN img.dir_meta.entries THEN RReturn(Err("BufferTooSmall"))
     ELSE /\ IF NameOf(DirAt(cursor)) = Head(rest)
             THEN Resolve(Tail(rest), cursor)
             ELSE cursor' = DirAt(cursor).sibling /\ UNCHANGED <<rpc, rest, dir>>
          /\ UNCHANGED <<img, asked, fcursor, yielded, result>>

FindDir ==
  /\ rpc = "find_dir"
  /\ IF cursor = NO_ENTRY THEN RReturn(Err("DirNotFound"))
     ELSE IF ~ReadableDir(cursor) THEN RReturn(Err("BufferTooSmall"))
     ELSE /\ IF NameOf(DirAt(cursor)) = Head(rest)
             THEN Resolve(Tail(rest), cursor)
             ELSE cursor' = DirAt(cursor).sibling /\ UNCHANGED <<rpc, rest, dir>>
          /\ UNCHANGED <<img, asked, fcursor, yielded, result>>

\* Mutant: the first file of the directory is returned whatever its name.
FindFileFirst ==
  /\ rpc = "find_file"
  /\ IF cursor = NO_ENTRY THEN RReturn(Err("FileNotFound"))
     ELSE IF ~ReadableFile(cursor) THEN RReturn(Err("BufferTooSmall"))
     ELSE /\ rpc' = "data"
          /\ UNCHANGED <<img, asked, rest, dir, cursor, fcursor, yielded, result>>

FindFile ==
  /\ rpc = "find_file"
  /\ IF cursor = NO_ENTRY THEN RReturn(Err("FileNotFound"))
     ELSE IF ~ReadableFile(cursor) THEN RReturn(Err("BufferTooSmall"))
     ELSE /\ IF NameOf(FileAt(cursor)) = Head(rest)
             THEN rpc' = "data" /\ UNCHANGED cursor
             ELSE cursor' = FileAt(cursor).sibling /\ UNCHANGED rpc
          /\ UNCHANGED <<img, asked, rest, dir, fcursor, yielded, result>>

(***************************************************************************)
(* RomFsFile::data.  abs_start and abs_end are positions in the buffer;    *)
(* the data region is what lies from file_data_offset on.                  *)
(***************************************************************************)
abs_start == img.header.file_data_offset + FileAt(cursor).data_offset
abs_end == abs_start + FileAt(cursor).data_size

\* Slicing past the end of the buffer panics.
Slice(offset, size) ==
  IF img.header.file_data_offset + offset + size =< img.len
  THEN Ok(SubSeq(img.data, offset + 1, offset + size))
  ELSE [status |-> "panic"]

Data ==
  /\ rpc = "data"
  /\ IF abs_end > USIZE_MAX THEN RReturn(Err("FileDataBoundsOverflow"))
     ELSE IF abs_end > img.len THEN RReturn(Err("FileDataOutOfBounds"))
     ELSE RReturn(Slice(FileAt(cursor).data_offset, FileAt(cursor).data_size))

(***************************************************************************)
(* root_dir, entries and DirIterator::next.  A directory the iterator      *)
(* returned can be walked in turn.                                         *)
(***************************************************************************)
Dirs(ys) == {y.at : y \in {ys[k] : k \in {j \in DOMAIN ys : ys[j].kind = "dir"}}}

BeginEntries(offset) ==
  /\ rpc' = "iter"
  /\ dir' = offset
  /\ cursor' = DirAt(offset).child
  /\ fcursor' = DirAt(offset).file
  /\ yielded' = <<>>
  /\ UNCHANGED <<img, asked, rest, result>>

RootEntries ==
  /\ rpc = "ready"
  /\ IF ReadableDir(0) THEN BeginEntries(0) ELSE RReturn(Err("RootDirError"))

DirReady == cursor # NO_ENTRY /\ ReadableDir(cursor)
FileReady == fcursor # NO_ENTRY /\ ReadableFile(fcursor)

\* Mutant: the iterator follows a subdirectory's children.
NextDirDescends ==
  /\ rpc = "iter"
  /\ DirReady
  /\ yielded' = Append(yielded, [kind |-> "dir", at |-> cursor, name |-> NameOf(DirAt(cursor))])
  /\ cursor' = DirAt(cursor).child
  /\ UNCHANGED <<rpc, img, asked, rest, dir, fcursor, result>>

NextDir ==
  /\ rpc = "iter"
  /\ DirReady
  /\ yielded' = Append(yielded, [kind |-> "dir", at |-> cursor, name |-> NameOf(DirAt(cursor))])
  /\ cursor' = DirAt(cursor).sibling
  /\ UNCHANGED <<rpc, img, asked, rest, dir, fcursor, result>>

NextFile ==
  /\ rpc = "iter"
  /\ ~DirReady
  /\ FileReady
  /\ yielded' = Append(yielded, [kind |-> "file", at |-> fcursor, name |-> NameOf(FileAt(fcursor))])
  /\ fcursor' = FileAt(fcursor).sibling
  /\ UNCHANGED <<rpc, img, asked, rest, dir, cursor, result>>

EntriesEnd ==
  /\ rpc = "iter"
  /\ ~DirReady
  /\ ~FileReady
  /\ rpc' = "listed"
  /\ UNCHANGED <<img, asked, rest, dir, cursor, fcursor, yielded, result>>

Descend ==
  /\ rpc = "listed"
  /\ \E offset \in Dirs(yielded) : BeginEntries(offset)

RStep == FindDir \/ FindFile \/ Data \/ NextDir \/ NextFile \/ EntriesEnd

RCall == (\E path \in OpenPaths : Open(path)) \/ RootEntries \/ Descend

\* try_from_bytes called on bytes the crate did not build: any header, any
\* entries, any links between them.  The data of such an image is every byte
\* from file_data_offset to the end of the buffer.
ForeignImage == rpc = "none" /\ \E i \in Images : TryFromBytes(i)
-----------------------------------------------------------------------------
\* Where the entry at `offset` ends in the buffer.
InBuffer(t, offset) == img.header[t].offset + EntryEnd(t, offset) =< img.len

\* No image makes a read leave the buffer: every entry a walk stands on or hands
\* out, checked only against the size of its table, lies with its name where the
\* header puts that table in the buffer, so do the four tables themselves, and
\* data() never slices past the end ("SAFETY: Bounds validated").
ReaderStaysInside ==
  /\ result.status # "panic"
  /\ rpc \notin {"none", "done"} =>
       \A t \in ToSet(Tables) : img.header[t].offset + img.header[t].size =< img.len
  /\ rpc \in {"find_dir", "find_file", "iter", "listed"} => InBuffer("dir_meta", dir)
  /\ rpc = "data" => InBuffer("file_meta", cursor)
  /\ \A k \in DOMAIN yielded :
       InBuffer(IF yielded[k].kind = "dir" THEN "dir_meta" ELSE "file_meta", yielded[k].at)

\* Every call on an image the crate built returns, and so does every call on
\* another image whose chains have no cycle.
CallsReturn == (rpc \in {"find_dir", "find_file", "data", "iter"}) ~> (rpc \in {"done", "listed"})

=============================================================================
