------------------------------- MODULE MCPfs0 -------------------------------
(***************************************************************************)
(* Names that are prefixes of each other, a name of the length that fills  *)
(* the string table's alignment exactly, and every kind of refused name.   *)
(*                                                                         *)
(* The foreign archives have two entries over a four-byte string table and *)
(* two bytes of data, each offset and size on both sides of its bound;     *)
(* names that are not UTF-8, empty, shared or unterminated.                *)
(***************************************************************************)
EXTENDS Pfs0

a == <<97>>
ab == <<97, 98>>
b == <<98>>
fills == [i \in 1..31 |-> 97]

MCNames == {a, ab, b, fills, <<>>, <<97, NUL>>, <<97, SLASH, 98>>, <<BACKSLASH>>}
MCContents == {<<>>, <<1, 2>>}
MCLookups == {a, ab, b, fills, <<>>, <<99>>}

Entry(name, data) == [name |-> name, data |-> data, regular |-> TRUE, utf8 |-> TRUE]

MCDirectories ==
  {{Entry(ab, <<1>>), Entry(a, <<2, 3>>), Entry(b, <<>>), [Entry(<<100>>, <<>>) EXCEPT !.regular = FALSE]},
   {Entry(a, <<2>>), [Entry(<<INVALID>>, <<>>) EXCEPT !.utf8 = FALSE]},
   {Entry(a, <<2>>), Entry(<<97, BACKSLASH>>, <<1>>)}}

Entries == [offset : {0, 1, 3}, size : {0, 2, USIZE_MAX}, string_table_offset : {0, 2, 4, 5}]

MCArchives ==
  {[len |-> 70, magic |-> "PFS0", file_count |-> 2, string_table_size |-> size, entries |-> <<e, f>>,
    rest |-> table \o <<7, 8>>] :
     size \in {0, 4, 7}, e \in Entries, f \in {[offset |-> 0, size |-> 2, string_table_offset |-> 2]},
     table \in {<<97, 0, 98, 0>>, <<INVALID, 0, 98, 0>>, <<97, 0, 98, 98>>}}
  \union {[len |-> len, magic |-> magic, file_count |-> count, string_table_size |-> 0, entries |-> <<>>, rest |-> <<>>] :
            len \in {15, 16}, magic \in {"PFS0", "HFS0"}, count \in {0, 1}}
=============================================================================
