-------------------------------- MODULE Pfs0 --------------------------------
(***************************************************************************)
(* A PFS0 archive built and read back.  Where nothing was built the reader *)
(* meets foreign archives.                                                 *)
(***************************************************************************)
EXTENDS Pfs0Builder, Pfs0Reader

CONSTANT None        \* no file

\* Names and data are bytes; a Rust string is UTF-8.
UTF8 == {name \in Seq(Int) : INVALID \notin ToSet(name)}

ASSUME FilesSupplied ==
  /\ Names \subseteq UTF8 /\ Contents \subseteq Seq(Int)
  /\ \A d \in Directories : \A e \in d : e.utf8 => e.name \in UTF8 /\ e.data \in Seq(Int)

\* A buffer that exists can be indexed.
ASSUME BuffersFit == ISIZE_MAX \in Nat /\ ISIZE_MAX =< USIZE_MAX

\* The fields of an archive are unsigned.
ASSUME ArchivesSupplied ==
  \A a \in Archives :
    /\ a.string_table_size \in Nat /\ a.rest \in Seq(Int)
    /\ a.entries \in Seq([offset : Nat, size : Nat, string_table_offset : Nat])

vars == <<bVars, rVars>>

Init == BInit /\ RInit

Finished == (rpc = "done" \/ phase \in BuilderErrors) /\ UNCHANGED vars

Next ==
  \/ rpc = "none" /\ BNext /\ UNCHANGED rVars
  \/ phase = "built" /\ TryFromBytes(archive) /\ UNCHANGED bVars
  \/ phase = "add" /\ files = <<>> /\ ForeignArchive /\ UNCHANGED bVars
  \/ RNext /\ UNCHANGED bVars
  \/ Finished

Spec == Init /\ [][Next]_vars
-----------------------------------------------------------------------------
\* The place of a file among the stored ones, in name order, and its entry.
Rank(f) == Cardinality({g \in stored : NameLess(g.name, f.name)})
EntryOf(f) == archive.entries[Rank(f) + 1]
InName(f, i) == i \in (EntryOf(f).string_table_offset + 1)..(EntryOf(f).string_table_offset + Len(f.name))

\* "the same set of files always produces the same bytes": the set alone says what
\* every entry and every byte is.  Files follow one another in name order, from 0 to
\* the ends the header gives, what lies between names is zero, and files() lists
\* each file once, in that order.
ArchiveIsTheSet ==
  phase = "built" =>
    /\ archive.file_count = Cardinality(stored) /\ Len(archive.entries) = Cardinality(stored)
    /\ stored = {} => archive.string_table_size = 0 /\ archive.rest = <<>>
    /\ \A f \in stored :
         LET e == EntryOf(f)
             past == Past([string_offset |-> e.string_table_offset, data_offset |-> e.offset], f)
         IN  /\ e.size = Len(f.data)
             /\ Rank(f) = 0 => e.offset = 0 /\ e.string_table_offset = 0
             /\ \A g \in stored : Rank(g) = Rank(f) + 1 =>
                  EntryOf(g).offset = past.data_offset /\ EntryOf(g).string_table_offset = past.string_offset
             /\ Rank(f) + 1 = Cardinality(stored) =>
                  /\ archive.string_table_size % 32 = 0
                  /\ archive.string_table_size \in past.string_offset..(past.string_offset + 31)
                  /\ Len(archive.rest) = archive.string_table_size + past.data_offset
             /\ SubSeq(archive.rest, e.string_table_offset + 1, e.string_table_offset + Len(f.name)) = f.name
             /\ LET from == archive.string_table_size + e.offset
                IN  SubSeq(archive.rest, from + 1, from + Len(f.data)) = f.data
    /\ \A i \in 1..archive.string_table_size : (\A f \in stored : ~InName(f, i)) => archive.rest[i] = 0
    /\ rpc = "ready" =>
         /\ ToSet(Listing) = stored
         /\ \A j, k \in DOMAIN Listing : j < k => NameLess(Listing[j].name, Listing[k].name)

(***************************************************************************)
(* The abstract container: files under their names.                        *)
(***************************************************************************)
Kept ==
  [name \in Lookups |->
     IF \E i \in DOMAIN files : files[i].name = name
     THEN files[CHOOSE i \in DOMAIN files : files[i].name = name].data ELSE None]

Abstract ==
  INSTANCE Container WITH
    Keys    <- Lookups,
    content <- Kept,
    state   <- IF phase = "built" THEN "sealed"
               ELSE IF phase \in BuilderErrors THEN "failed"
               ELSE IF rpc # "none" THEN "foreign" ELSE "open",
    answer  <- IF result.status = "ok" THEN <<looked, result.data>>
               ELSE IF result.status = "absent" THEN <<looked, None>>
               ELSE <<result.status>>

\* Through the sort, the string table and a linear search, file_by_name returns the
\* data stored under exactly that name, or nothing where nothing was stored.
ImplementsContainer == Abstract!Spec
=============================================================================
