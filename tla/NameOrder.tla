------------------------------ MODULE NameOrder ------------------------------
(***************************************************************************)
(* What the archive writers (write/romfs.rs, write/pfs0.rs) share: the     *)
(* order of names, the stable sort they put their entries in and the       *)
(* rounding of sizes.  A name is a sequence of character codes.            *)
(***************************************************************************)
EXTENDS Integers, FiniteSetsExt, SequencesExt

\* align32, align64, align_up: the alignments are powers of two.
Align(value, alignment) == ((value + alignment - 1) \div alignment) * alignment

\* str::cmp
NameLess(a, b) ==
  \/ \E i \in 1..Min({Len(a), Len(b)}) :
       a[i] < b[i] /\ \A j \in 1..(i - 1) : a[j] = b[j]
  \/ IsStrictPrefix(a, b)

\* sort_by is stable: by key, ties in place.
SortsBefore(keys, i, j) == NameLess(keys[i], keys[j]) \/ (keys[i] = keys[j] /\ i < j)

\* The indices of keys in the order the sort leaves them: the k-th has k - 1 before it.
SortedBy(keys) ==
  [k \in DOMAIN keys |->
     CHOOSE i \in DOMAIN keys : Cardinality({j \in DOMAIN keys : SortsBefore(keys, j, i)}) = k - 1]

PathsOf(entries) == [i \in DOMAIN entries |-> entries[i].path]
NamesOf(entries) == [i \in DOMAIN entries |-> entries[i].name]

\* A sequence of indices, each looked up in `index`.
Remap(indices, index) == [k \in DOMAIN indices |-> index[indices[k]]]
=============================================================================
