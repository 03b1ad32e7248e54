------------------------------- MODULE MCRomFs -------------------------------
(***************************************************************************)
(* Trees whose full-path order is not the order of a walk: `a.` sorts      *)
(* before the files of `a`, because the dot precedes the separator.  A     *)
(* file and a directory may share a path.  Contents sit on both sides of   *)
(* the 16-byte alignment.                                                  *)
(*                                                                         *)
(* The foreign images have one directory and two files, with every link,   *)
(* length and header field moved to the values on both sides of the check  *)
(* that guards it.  Their chains have no cycle.                            *)
(***************************************************************************)
EXTENDS RomFs

\* '.', '/' and 'a', in the order of their codes.
Dot == 46
Slash == 47
A == 97

a == <<A>>
adot == <<A, Dot>>
long == <<A, A, A, A, A>>

Abs(parts) == [absolute |-> TRUE, parts |-> parts]

MCPaths ==
  {Abs(<<a>>), Abs(<<adot, a>>), Abs(<<a, a>>), Abs(<<a, adot>>), Abs(<<long, a, long>>),
   Abs(<<a, <<>>, long>>), Abs(<<<<>>>>), [absolute |-> FALSE, parts |-> <<a>>]}

MCContents == {<<1>>, [i \in 1..17 |-> 2]}

MCOpenPaths ==
  {<<<<>>, a>>, <<<<>>, a, a>>, <<a, adot>>, <<<<>>, adot, a>>, <<<<>>, a, <<>>, long>>,
   <<<<>>, a, long>>, <<<<>>, long, a, long>>, <<<<>>, <<>>>>, <<<<>>, a, <<>>>>, <<a, a, a>>}

Entry(name, kind, data) == [name |-> name, kind |-> kind, data |-> data, utf8 |-> TRUE]

MCFsTrees ==
  {\* a nested tree with an empty directory
   [at \in {<<>>, <<a>>, <<adot>>, <<a, long>>} |->
      CASE at = <<>>   -> {Entry(a, "dir", <<>>), Entry(adot, "dir", <<>>), Entry(long, "file", <<3>>)}
        [] at = <<a>>  -> {Entry(long, "dir", <<>>), Entry(a, "file", <<>>), Entry(adot, "other", <<>>)}
        [] OTHER       -> IF at = <<a, long>> THEN {Entry(a, "file", <<4>>)} ELSE {}],
   [at \in {<<>>} |-> {Entry(a, "symlink", <<>>), Entry(long, "file", <<3>>)}],
   [at \in {<<>>} |-> {[name |-> adot, kind |-> "symlink", data |-> <<>>, utf8 |-> FALSE]}]}

\* Two buckets are enough for every chain to hold several entries.
MCPathHash(parent, name) == (parent \div 4) + Len(name)

Names == {a, <<INVALID>>, <<97, 97, 97, 97, 97>>}

\* Every offset an entry's prefix fits at reads as some entry.
DirMeta(child, file, name, file2) ==
  [entries |-> [o \in 0..28 |->
     IF o = 0 THEN [sibling |-> NO_ENTRY, child |-> child, file |-> file, name |-> <<>>]
     ELSE [sibling |-> NO_ENTRY, child |-> NO_ENTRY, file |-> file2, name |-> name]]]

FileMeta(sibling, name, offset, length) ==
  [entries |-> [o \in 0..40 |->
     IF o = 0 THEN [sibling |-> sibling, name |-> name, data_offset |-> 0, data_size |-> 1]
     ELSE [sibling |-> NO_ENTRY, name |-> a, data_offset |-> offset, data_size |-> length]]]

Header == [header_size |-> 80, file_data_offset |-> 90,
           dir_hash |-> [offset |-> 80, size |-> 12], dir_meta |-> [offset |-> 80, size |-> 52],
           file_hash |-> [offset |-> 80, size |-> 12], file_meta |-> [offset |-> 60, size |-> 72]]

Image(dtable, ftable, header) ==
  [len |-> 132, header |-> header, dir_meta |-> dtable, file_meta |-> ftable,
   data |-> [k \in 1..(132 - header.file_data_offset) |-> k]]

Plain == DirMeta(24, 0, a, NO_ENTRY)
PlainFiles == FileMeta(36, a, 2, 3)

MCImages ==
  {Image(DirMeta(child, file, name, file2), FileMeta(sibling, fname, 0, 1), Header) :
     child \in {NO_ENTRY, 24, 52}, file \in {NO_ENTRY, 0, 72}, name \in Names,
     file2 \in {NO_ENTRY, 0, 36}, sibling \in {NO_ENTRY, 36, 72}, fname \in Names}
  \union {Image(DirMeta(24, 36, a, NO_ENTRY), FileMeta(NO_ENTRY, a, offset, length),
                  [Header EXCEPT !.dir_meta.size = size]) :
            size \in {0, 23, 24, 47, 48, 49}, offset \in {0, 1, 41, 42}, length \in {0, 1, 42, 43, USIZE_MAX}}
  \union {Image(Plain, PlainFiles, [Header EXCEPT ![t].offset = 132 - Header[t].size + k]) :
            t \in {"dir_hash", "dir_meta", "file_hash", "file_meta"}, k \in {0, 1, USIZE_MAX}}
  \union {Image(Plain, PlainFiles, [Header EXCEPT !.file_data_offset = 133]),
          Image(Plain, PlainFiles, [Header EXCEPT !.header_size = 79]),
          [Image(Plain, PlainFiles, Header) EXCEPT !.len = 79]}
=============================================================================
