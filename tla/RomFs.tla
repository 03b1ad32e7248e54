------------------------------- MODULE RomFs -------------------------------
(***************************************************************************)
(* A RomFS image built and read back: RomFsBuilder::build returns the      *)
(* bytes RomFs::try_from_bytes is called on.  The properties compare what  *)
(* the reader returns, and what the image holds, with the tree that was    *)
(* stored.  Where nothing was built the reader meets foreign images.       *)
(***************************************************************************)
EXTENDS RomFsBuilder, RomFsReader

CONSTANT None        \* no file

\* A path is UTF-8 text split at every '/'; a name on a filesystem is not empty, and
\* no two entries of a directory share one.  Contents are bytes.
Text == Seq(Nat \ {SEP, INVALID})
Name == Text \ {<<>>}
Bytes == Seq(0..255)

ASSUME PathsSupplied == \A path \in Paths : path.absolute \in BOOLEAN /\ path.parts \in Seq(Text)
ASSUME OpenPathsSupplied == \A path \in OpenPaths : path \in Seq(Text)
ASSUME ContentsSupplied == \A data \in Contents : data \in Bytes
ASSUME FsTreesSupplied ==
  \A t \in FsTrees :
    /\ <<>> \in DOMAIN t
    /\ \A at \in DOMAIN t : \A e \in t[at] :
         /\ e.utf8 => e.name \in Name /\ e.data \in Bytes
         /\ e.utf8 /\ e.kind = "dir" => Append(at, e.name) \in DOMAIN t
         /\ \A f \in t[at] : e.name = f.name => e = f

vars == <<bVars, rVars>>

Init == BInit /\ RInit

Over == rpc = "done" \/ rpc = "listed" \/ phase \in BuilderErrors

Finished == Over /\ UNCHANGED vars

Next ==
  \/ rpc = "none" /\ BNext /\ UNCHANGED rVars
  \/ phase = "built" /\ TryFromBytes(image) /\ UNCHANGED bVars
  \/ phase = "add" /\ files = <<>> /\ ForeignImage /\ UNCHANGED bVars
  \/ (RCall \/ RStep) /\ UNCHANGED bVars
  \/ Finished

\* A call on the reader runs to its end once it is made.
Spec == Init /\ [][Next]_vars /\ WF_vars(RStep /\ UNCHANGED bVars)
-----------------------------------------------------------------------------
(***************************************************************************)
(* The image of a tree, defined from the tree alone: no vectors, indices   *)
(* or insertion order.  A directory or file is named by its components.    *)
(***************************************************************************)
Full(p) == FlattenSeq([k \in DOMAIN p |-> <<SEP>> \o p[k]])
PathLess(p, q) == NameLess(Full(p), Full(q))
BaseName(p) == IF p = <<>> THEN <<>> ELSE Last(p)
Parent(p) == IF p = <<>> THEN <<>> ELSE Front(p)
Before(S, p) == {q \in S : PathLess(q, p)}
In(S, p) == {q \in S : q # <<>> /\ Front(q) = p}

TreeDirs == tree.dirs
TreeFiles == {f.at : f \in tree.files}
DataOf(p) == (CHOOSE f \in tree.files : f.at = p).data

\* Entries before p take up the space before p.
DirOffset(p) == SumFunctionOnSet([q \in TreeDirs |-> DirEntrySize(BaseName(q))], Before(TreeDirs, p))
FileOffset(p) == SumFunctionOnSet([q \in TreeFiles |-> FileEntrySize(BaseName(q))], Before(TreeFiles, p))
DataOffset(p) == SumFunctionOnSet([q \in TreeFiles |-> Align(Len(DataOf(q)), 16)], Before(TreeFiles, p))

\* The offset of the first, or last, of some entries.
Least(S, Offset(_)) == IF S = {} THEN NO_ENTRY ELSE Min({Offset(q) : q \in S})
Greatest(S, Offset(_)) == IF S = {} THEN NO_ENTRY ELSE Max({Offset(q) : q \in S})

Bucket(S, p) == PathHash(DirOffset(Parent(p)), BaseName(p)) % HashTableCount(Cardinality(S))

ExpectedDir(p) ==
  [parent       |-> DirOffset(Parent(p)),
   sibling      |-> Least({q \in In(TreeDirs, Parent(p)) : p # <<>> /\ PathLess(p, q)}, DirOffset),
   child        |-> Least(In(TreeDirs, p), DirOffset),
   file         |-> Least(In(TreeFiles, p), FileOffset),
   hash_sibling |-> Greatest({q \in Before(TreeDirs, p) : Bucket(TreeDirs, q) = Bucket(TreeDirs, p)}, DirOffset),
   name         |-> BaseName(p)]

ExpectedFile(p) ==
  [parent       |-> DirOffset(Parent(p)),
   sibling      |-> Least({q \in In(TreeFiles, Parent(p)) : PathLess(p, q)}, FileOffset),
   data_offset  |-> DataOffset(p),
   data_size    |-> Len(DataOf(p)),
   hash_sibling |-> Greatest({q \in Before(TreeFiles, p) : Bucket(TreeFiles, q) = Bucket(TreeFiles, p)}, FileOffset),
   name         |-> Last(p)]

\* "Insertion order does not reach the image": every entry, every link and
\* every file's bytes are where the tree alone puts them, whatever order
\* add_file or read_dir delivered them in, and the header, computed from the
\* sizes, locates the tables where the buffer really has them.
ImageIsTheTree ==
  phase = "built" =>
    /\ DOMAIN image.dir_meta.entries = {DirOffset(p) : p \in TreeDirs}
    /\ \A p \in TreeDirs : image.dir_meta.entries[DirOffset(p)] = ExpectedDir(p)
    /\ DOMAIN image.file_meta.entries = {FileOffset(p) : p \in TreeFiles}
    /\ \A p \in TreeFiles :
         /\ image.file_meta.entries[FileOffset(p)] = ExpectedFile(p)
         /\ SubSeq(image.data, DataOffset(p) + 1, DataOffset(p) + Len(DataOf(p))) = DataOf(p)
    /\ LET h == image.header IN
       /\ h.file_data_offset + Len(image.data) =< h.dir_hash.offset
       /\ h.dir_hash.offset = image.tables
       /\ h.dir_hash.size = 4 * Cardinality(DOMAIN image.dir_hash)
       /\ h.dir_meta.offset = h.dir_hash.offset + h.dir_hash.size
       /\ h.dir_meta.size = image.dir_meta.size
       /\ h.file_hash.offset = h.dir_meta.offset + h.dir_meta.size
       /\ h.file_meta.offset = h.file_hash.offset + h.file_hash.size
       /\ h.file_meta.size = image.file_meta.size
       /\ h.file_meta.offset + h.file_meta.size = image.len

\* What a loader that uses the hash tables does: from the bucket of an entry
\* the chain reaches the entry (path_hash: "a writer hashes each name it places
\* and threads the chain the reader will walk").
Chain(table, start) ==
  LET Grow(seen) == seen \union {table.entries[o].hash_sibling : o \in seen \ {NO_ENTRY}}
      walk[n \in 0..Cardinality(DOMAIN table.entries)] ==
        IF n = 0 THEN {start} ELSE Grow(walk[n - 1])
  IN  walk[Cardinality(DOMAIN table.entries)]

\* From the bucket its hash names, every directory and every file is reached along
\* the collision chain build threaded.
HashLookupFinds ==
  phase = "built" =>
    /\ \A p \in TreeDirs :
         DirOffset(p) \in Chain(image.dir_meta, image.dir_hash[Bucket(TreeDirs, p)])
    /\ \A p \in TreeFiles :
         FileOffset(p) \in Chain(image.file_meta, image.file_hash[Bucket(TreeFiles, p)])

(***************************************************************************)
(* The abstract container: files under their paths.                        *)
(***************************************************************************)
Kept ==
  [p \in {Trimmed(path) : path \in OpenPaths} |->
     IF \E i \in DOMAIN files : files[i].path = Full(p)
     THEN files[CHOOSE i \in DOMAIN files : files[i].path = Full(p)].data ELSE None]

Abstract ==
  INSTANCE Container WITH
    Keys    <- {Trimmed(path) : path \in OpenPaths},
    content <- Kept,
    state   <- IF phase = "built" THEN "sealed"
               ELSE IF phase \in BuilderErrors THEN "failed"
               ELSE IF rpc # "none" THEN "foreign" ELSE "open",
    answer  <- IF rpc # "done" THEN <<"none">>
               ELSE IF result.status = "ok" THEN <<Trimmed(asked), result.data>>
               ELSE IF result = Err("PathNotFound") THEN <<"aside">>
               ELSE IF result \in {Err("FileNotFound"), Err("DirNotFound")} THEN <<Trimmed(asked), None>>
               ELSE <<"unreadable">>

\* Through sorting, renumbering, the tables and a walk over them, open returns for
\* every path the bytes add_file or from_directory stored under it, and finds
\* nothing exactly where nothing was stored: not a file of another directory, nor
\* a directory of that name, nor a file stored later.
ImplementsContainer == Abstract!Spec

\* A finished iteration listed the subdirectories and then the files of the
\* directory, each in name order and none twice.
EntriesListDirectory ==
  phase = "built" /\ rpc = "listed" =>
    LET p == CHOOSE q \in TreeDirs : DirOffset(q) = dir
        subdirs == {[kind |-> "dir", at |-> DirOffset(q), name |-> Last(q)] : q \in In(TreeDirs, p)}
        members == {[kind |-> "file", at |-> FileOffset(q), name |-> Last(q)] : q \in In(TreeFiles, p)}
    IN  /\ ToSet(yielded) = subdirs \union members
        /\ Len(yielded) = Cardinality(subdirs) + Cardinality(members)
        /\ \A j, k \in DOMAIN yielded : j < k =>
             \/ yielded[j].kind = "dir" /\ yielded[k].kind = "file"
             \/ yielded[j].kind = yielded[k].kind /\ NameLess(yielded[j].name, yielded[k].name)

=============================================================================
