---------------------------- MODULE RomFsBuilder ----------------------------
(***************************************************************************)
(* RomFsBuilder of write/romfs.rs.  Files arrive through add_file, or a    *)
(* directory of the filesystem is walked by from_directory; build sorts    *)
(* what arrived, assigns every offset, threads the hash and sibling chains *)
(* and writes the image.  The builder is taken by value: a failed call     *)
(* ends its life.                                                          *)
(*                                                                         *)
(* Vectors are sequences, so indices start at 1 and dirs[1] is the root.   *)
(* A path handed to add_file is what split('/') makes of it: whether it is *)
(* absolute, and its parts, an empty part for every doubled separator.     *)
(***************************************************************************)
EXTENDS RomFsFormat

CONSTANTS
  Paths,       \* paths callers pass to add_file
  Contents,    \* file contents callers store
  FsTrees,     \* filesystem trees from_directory may be pointed at
  MaxFiles     \* bound on the files added by hand

VARIABLES
  phase,       \* "add", "walk", "built", or the error the last call returned
  dirs, files, \* the builder's two vectors
  fs,          \* the filesystem walked
  stack,       \* from_directory's stack of <<dir_idx, filesystem path>>
  listing,     \* entries of the directory being read that are still to come
  image,       \* what build returned
  tree         \* history: what was stored, as directories and files

bVars == <<phase, dirs, files, fs, stack, listing, image, tree>>

FILEPARTITION_OFS == 512
NoImage == <<>>
NoFs == <<>>

BuilderErrors == {"Empty", "InvalidPath", "DuplicateEntry", "Io", "Symlink", "InvalidFileName"}

Root == [path |-> <<>>, name |-> <<>>, children |-> <<>>, files |-> <<>>, parent |-> 1]

\* RomFsBuilder::new, by either of its two callers.
BInit ==
  /\ dirs = <<Root>> /\ files = <<>>
  /\ image = NoImage
  /\ tree = [dirs |-> {<<>>}, files |-> {}]
  /\ listing = {}
  /\ \/ phase = "add" /\ fs = NoFs /\ stack = <<>>
     \/ phase = "walk" /\ fs \in FsTrees /\ stack = <<[dir |-> 1, at |-> <<>>]>>

BFail(error) ==
  /\ phase' = error
  /\ UNCHANGED <<dirs, files, fs, stack, listing, image, tree>>

(***************************************************************************)
(* The two pushes both ways of filling the builder make.                   *)
(***************************************************************************)
PushDir(ds, parent, name) ==
  Append([ds EXCEPT ![parent].children = Append(@, Len(ds) + 1)],
         [path |-> ds[parent].path \o <<SEP>> \o name, name |-> name,
          children |-> <<>>, files |-> <<>>, parent |-> parent])

PushFile(ds, fls, parent, name, data) ==
  [dirs  |-> [ds EXCEPT ![parent].files = Append(@, Len(fls) + 1)],
   files |-> Append(fls, [path |-> ds[parent].path \o <<SEP>> \o name, name |-> name,
                          data |-> data, parent |-> parent])]

(***************************************************************************)
(* add_file                                                                *)
(***************************************************************************)
Components(path) ==
  FlattenSeq([k \in DOMAIN path.parts |-> IF path.parts[k] = <<>> THEN <<>> ELSE <<path.parts[k]>>])

\* Find or create the child directory `name` of where the walk stands.
EnterDir(walk, name) ==
  LET children == walk.dirs[walk.at].children
      hit == SelectInSeq(children, LAMBDA idx : walk.dirs[idx].name = name)
  IN  IF hit # 0
      THEN [walk EXCEPT !.at = children[hit]]
      ELSE [dirs |-> PushDir(walk.dirs, walk.at, name), at |-> Len(walk.dirs) + 1]

EnterDirs(components) ==
  LET walk[k \in 0..Len(components)] ==
        IF k = 0 THEN [dirs |-> dirs, at |-> 1] ELSE EnterDir(walk[k - 1], components[k])
  IN  walk[Len(components)]

AddFile(path, data) ==
  LET components == Components(path)
      name == Last(components)
      walk == EnterDirs(Front(components))
      duplicate == \E i \in ToSet(walk.dirs[walk.at].files) : files[i].name = name
      pushed == PushFile(walk.dirs, files, walk.at, name, data)
  IN  /\ phase = "add"
      /\ Len(files) < MaxFiles
      /\ IF ~path.absolute \/ components = <<>>
         THEN BFail("InvalidPath")
         ELSE IF duplicate
         THEN BFail("DuplicateEntry")
         ELSE /\ dirs' = pushed.dirs
              /\ files' = pushed.files
              /\ tree' = [dirs  |-> tree.dirs \union Prefixes(Front(components)),
                          files |-> tree.files \union {[at |-> components, data |-> data]}]
              /\ UNCHANGED <<phase, fs, stack, listing, image>>

(***************************************************************************)
(* from_directory.  A filesystem maps the path of a directory to the       *)
(* entries in it, which read_dir returns in any order.                     *)
(***************************************************************************)
Reading == phase = "walk" /\ listing # {}

PopDir ==
  /\ phase = "walk"
  /\ listing = {}
  /\ stack # <<>>
  /\ listing' = {[dir |-> Last(stack).dir, at |-> Last(stack).at, entry |-> e] : e \in fs[Last(stack).at]}
  /\ stack' = Front(stack)
  /\ UNCHANGED <<phase, dirs, files, fs, image, tree>>

TakeDir(item) ==
  /\ item.entry.kind = "dir"
  /\ dirs' = PushDir(dirs, item.dir, item.entry.name)
  /\ stack' = Append(stack, [dir |-> Len(dirs) + 1, at |-> Append(item.at, item.entry.name)])
  /\ tree' = [tree EXCEPT !.dirs = @ \union {Append(item.at, item.entry.name)}]
  /\ UNCHANGED <<phase, files, fs, image>>

TakeFile(item) ==
  /\ item.entry.kind = "file"
  /\ LET pushed == PushFile(dirs, files, item.dir, item.entry.name, item.entry.data) IN
       dirs' = pushed.dirs /\ files' = pushed.files
  /\ tree' = [tree EXCEPT !.files = @ \union 
              {[at |-> Append(item.at, item.entry.name), data |-> item.entry.data]}]
  /\ UNCHANGED <<phase, fs, stack, image>>

\* Neither directory, file nor symlink: passed over.
SkipOther(item) ==
  /\ item.entry.kind = "other"
  /\ UNCHANGED <<phase, dirs, files, fs, stack, image, tree>>

TakeEntry(item) ==
  /\ Reading
  /\ item.entry.kind # "symlink" /\ item.entry.utf8
  /\ TakeDir(item) \/ TakeFile(item) \/ SkipOther(item)
  /\ listing' = listing \ {item}

\* The name is decoded before the kind is looked at.
RefuseEntry(item) ==
  /\ Reading
  /\ \/ ~item.entry.utf8 /\ BFail("InvalidFileName")
     \/ item.entry.utf8 /\ item.entry.kind = "symlink" /\ BFail("Symlink")

\* read_dir, file_type or read fails.
IoFails ==
  /\ phase = "walk"
  /\ listing # {} \/ stack # <<>>
  /\ BFail("Io")

WalkDone ==
  /\ phase = "walk"
  /\ listing = {}
  /\ stack = <<>>
  /\ phase' = "add"
  /\ UNCHANGED <<dirs, files, fs, stack, listing, image, tree>>

(***************************************************************************)
(* build: sort_entries_by_path and the sort of children and files by name. *)
(***************************************************************************)
\* Where each entry ends up.
NewIndex(order) == [old \in DOMAIN order |-> CHOOSE new \in DOMAIN order : order[new] = old]

\* Mutant: the vectors are sorted and the indices into them are not remapped.
SortWithoutRemap ==
  [dirs  |-> Remap(SortedBy(PathsOf(dirs)), dirs),
   files |-> Remap(SortedBy(PathsOf(files)), files)]

SortEntriesByPath ==
  LET dir_order == SortedBy(PathsOf(dirs))
      file_order == SortedBy(PathsOf(files))
      new_dir_index == NewIndex(dir_order)
      new_file_index == NewIndex(file_order)
  IN  [dirs  |-> [k \in DOMAIN dirs |->
                    LET d == dirs[dir_order[k]]
                    IN  [d EXCEPT !.parent = new_dir_index[@],
                                  !.children = Remap(@, new_dir_index),
                                  !.files = Remap(@, new_file_index)]],
       files |-> [k \in DOMAIN files |->
                    LET f == files[file_order[k]]
                    IN  [f EXCEPT !.parent = new_dir_index[@]]]]

SortByName(indices, entries) ==
  Remap(SortedBy(NamesOf(Remap(indices, entries))), indices)

SortChildren(b) ==
  [dirs  |-> [k \in DOMAIN b.dirs |->
                [b.dirs[k] EXCEPT !.children = SortByName(@, b.dirs), !.files = SortByName(@, b.files)]],
   files |-> b.files]

(***************************************************************************)
(* build: calculate_offsets, the hash tables and the metadata tables.      *)
(***************************************************************************)
\* Offset of every entry and, last, the size of the table.
EntryOffsets(sizes) ==
  LET offs[k \in 1..(Len(sizes) + 1)] == IF k = 1 THEN 0 ELSE offs[k - 1] + sizes[k - 1]
  IN  offs

\* Data offset of every file, and where the data ends.
DataOffsets(fls) ==
  LET ends[k \in 0..Len(fls)] == IF k = 0 THEN 0 ELSE Align(ends[k - 1], 16) + Len(fls[k].data)
  IN  [starts |-> [k \in DOMAIN fls |-> Align(ends[k - 1], 16)], end |-> ends[Len(fls)]]

BucketOf(entry, dirOffs, count) == PathHash(dirOffs[entry.parent], entry.name) % count

\* Mutant: a bucket keeps the first entry it was given as its head.
HashTableKeepsHead(entries, offs, dirOffs) ==
  LET count == HashTableCount(Len(entries))
      bucket(k) == BucketOf(entries[k], dirOffs, count)
      heads[k \in 0..Len(entries)] ==
        IF k = 0 THEN [b \in 0..(count - 1) |-> NO_ENTRY]
        ELSE [heads[k - 1] EXCEPT ![bucket(k)] = IF @ = NO_ENTRY THEN offs[k] ELSE @]
  IN  [table |-> heads[Len(entries)], siblings |-> [k \in DOMAIN entries |-> heads[k - 1][bucket(k)]]]

\* A new entry becomes the head of its bucket and points to the old head.
HashTable(entries, offs, dirOffs) ==
  LET count == HashTableCount(Len(entries))
      bucket(k) == BucketOf(entries[k], dirOffs, count)
      heads[k \in 0..Len(entries)] ==
        IF k = 0 THEN [b \in 0..(count - 1) |-> NO_ENTRY]
        ELSE [heads[k - 1] EXCEPT ![bucket(k)] = offs[k]]
  IN  [table |-> heads[Len(entries)], siblings |-> [k \in DOMAIN entries |-> heads[k - 1][bucket(k)]]]

FirstOf(indices, offs) == IF indices = <<>> THEN NO_ENTRY ELSE offs[indices[1]]

\* find_sibling_dir, find_sibling_file: the entry after `own` in its parent.
FindSibling(indices, offs, own) ==
  LET k == SelectInSeq(indices, LAMBDA i : offs[i] = own)
  IN  IF k \in 1..(Len(indices) - 1) THEN offs[indices[k + 1]] ELSE NO_ENTRY

\* A table: its size, and every entry at its offset.
TableOf(entries, offs) ==
  [size    |-> Last(offs),
   entries |-> [o \in {offs[i] : i \in DOMAIN entries} |->
                  entries[CHOOSE i \in DOMAIN entries : offs[i] = o]]]

DirTable(b, dirOffs, fileOffs, hash) ==
  TableOf(
    [i \in DOMAIN b.dirs |-> LET d == b.dirs[i] IN
      [parent       |-> dirOffs[d.parent],
       sibling      |-> FindSibling(b.dirs[d.parent].children, dirOffs, dirOffs[i]),
       child        |-> FirstOf(d.children, dirOffs),
       file         |-> FirstOf(d.files, fileOffs),
       hash_sibling |-> hash.siblings[i],
       name         |-> d.name]],
    dirOffs)

FileTable(b, dirOffs, fileOffs, hash) ==
  LET data == DataOffsets(b.files) IN
  TableOf(
    [i \in DOMAIN b.files |-> LET f == b.files[i] IN
      [parent       |-> dirOffs[f.parent],
       sibling      |-> FindSibling(b.dirs[f.parent].files, fileOffs, fileOffs[i]),
       data_offset  |-> data.starts[i],
       data_size    |-> Len(f.data),
       hash_sibling |-> hash.siblings[i],
       name         |-> f.name]],
    fileOffs)

(***************************************************************************)
(* build: the buffer.  The data is padded against its place in the buffer, *)
(* the header is computed from the sizes: two computations that must agree.*)
(***************************************************************************)
PadTo(bytes, n) == [i \in 1..n |-> IF i =< Len(bytes) THEN bytes[i] ELSE 0]

FileData(fls) ==
  LET buf[k \in 0..Len(fls)] ==
        IF k = 0 THEN <<>>
        ELSE PadTo(buf[k - 1], Align(FILEPARTITION_OFS + Len(buf[k - 1]), 16) - FILEPARTITION_OFS) \o fls[k].data
  IN  buf[Len(fls)]

Extent(offset, size) == [offset |-> offset, size |-> size]

WriteHeader(sizes, file_partition_size) ==
  LET dir_hash == Align(FILEPARTITION_OFS + file_partition_size, 4)
      dir_meta == dir_hash + sizes.dir_hash
      file_hash == dir_meta + sizes.dir_meta
      file_meta == file_hash + sizes.file_hash
  IN  [header_size      |-> HEADER_SIZE,
       dir_hash         |-> Extent(dir_hash, sizes.dir_hash),
       dir_meta         |-> Extent(dir_meta, sizes.dir_meta),
       file_hash        |-> Extent(file_hash, sizes.file_hash),
       file_meta        |-> Extent(file_meta, sizes.file_meta),
       file_data_offset |-> FILEPARTITION_OFS]

ImageOf(b) ==
  LET dirOffs == EntryOffsets([i \in DOMAIN b.dirs |-> DirEntrySize(b.dirs[i].name)])
      fileOffs == EntryOffsets([i \in DOMAIN b.files |-> FileEntrySize(b.files[i].name)])
      dirHash == HashTable(b.dirs, dirOffs, dirOffs)
      fileHash == HashTable(b.files, fileOffs, dirOffs)
      dirTable == DirTable(b, dirOffs, fileOffs, dirHash)
      fileTable == FileTable(b, dirOffs, fileOffs, fileHash)
      bytes == FileData(b.files)
      sizes == [dir_hash  |-> 4 * Cardinality(DOMAIN dirHash.table), dir_meta  |-> dirTable.size,
                file_hash |-> 4 * Cardinality(DOMAIN fileHash.table), file_meta |-> fileTable.size]
      start == Align(FILEPARTITION_OFS + Len(bytes), 4)
  IN  [header    |-> WriteHeader(sizes, DataOffsets(b.files).end),
       data      |-> bytes,
       tables    |-> start,            \* where the first table really starts
       dir_hash  |-> dirHash.table,
       dir_meta  |-> dirTable,
       file_hash |-> fileHash.table,
       file_meta |-> fileTable,
       len       |-> start + sizes.dir_hash + sizes.dir_meta + sizes.file_hash + sizes.file_meta]

Build ==
  /\ phase = "add"
  /\ IF files = <<>>
     THEN BFail("Empty")
     ELSE LET b == SortChildren(SortEntriesByPath) IN
          /\ dirs' = b.dirs
          /\ files' = b.files
          /\ image' = ImageOf(b)
          /\ phase' = "built"
          /\ UNCHANGED <<fs, stack, listing, tree>>

BNext ==
  \/ \E path \in Paths, data \in Contents : AddFile(path, data)
  \/ PopDir
  \/ \E item \in listing : TakeEntry(item) \/ RefuseEntry(item)
  \/ IoFails
  \/ WalkDone
  \/ Build
=============================================================================
