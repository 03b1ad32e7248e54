------------------------------ MODULE Pfs0Proofs ------------------------------
(***************************************************************************)
(* PFS0 for every set of files and every foreign archive: the archive is   *)
(* the one its set of files determines, file_by_name answers as the        *)
(* abstract container does, and no accessor leaves its region.             *)
(***************************************************************************)
EXTENDS Pfs0, LayoutLemmas, TLAPS

LEMMA SortedIs ==
  ASSUME NEW T, \A f \in T : f.name \in Seq(Int), NEW fls \in Seq(T)
  PROVE  LET sorted == Remap(SortedBy(NamesOf(fls)), fls)
         IN  /\ sorted \in Seq(T) /\ Len(sorted) = Len(fls) /\ DOMAIN sorted = DOMAIN fls
             /\ ToSet(sorted) = ToSet(fls)
             /\ (\A i, j \in DOMAIN fls : fls[i].name = fls[j].name => i = j) =>
                  \A j, k \in DOMAIN sorted : j < k => NameLess(sorted[j].name, sorted[k].name)
<1>. DEFINE S == DOMAIN fls
            n == Len(fls)
            keys == NamesOf(fls)
            sorted == Remap(SortedBy(keys), fls)
            R == {p \in S \X S : SortsBefore(keys, p[1], p[2])}
            place(k) == Placed(S, R, k)
<1>1. n \in Nat /\ S = 1..n /\ \A i \in S : fls[i] \in T
  BY LenProperties, ElementOfSeq
<1>2. IsFiniteSet(S) /\ Cardinality(S) = n
  <2>1. IsFiniteSet(1..n) /\ Cardinality(1..n) = IF 1 > n THEN 0 ELSE n - 1 + 1
    BY <1>1, FS_Interval, SMTT(60)
  <2>. HIDE DEF S, n
  <2>. QED
    BY <1>1, <2>1
<1>3. DOMAIN keys = S /\ \A i \in S : keys[i] = fls[i].name /\ keys[i] \in Seq(Int)
  <2>1. \A i \in S : fls[i].name \in Seq(Int)
    BY <1>1
  <2>. QED
    BY <2>1 DEF NamesOf
<1>. HIDE DEF keys
<1>4. \A i, j \in S : <<i, j>> \in R <=> SortsBefore(keys, i, j)
  OBVIOUS
<1>5. \A i, j \in S : SortsBefore(keys, i, j) <=> NameLess(keys[i], keys[j]) \/ (keys[i] = keys[j] /\ i < j)
  BY DEF SortsBefore
<1>6. StrictTotalOrder(S, R)
  <2>0. \A i \in S : i \in Int
    BY <1>1
  <2>. HIDE DEF S, R
  <2>1. ASSUME NEW x \in S PROVE <<x, x>> \notin R
    <3>1. ~NameLess(keys[x], keys[x])
      BY <1>3, NamesOrdered
    <3>. QED
      BY <1>4, <1>5, <2>0, <3>1
  <2>2. ASSUME NEW x \in S, NEW y \in S, x # y PROVE <<x, y>> \in R \/ <<y, x>> \in R
    <3>1. keys[x] # keys[y] => NameLess(keys[x], keys[y]) \/ NameLess(keys[y], keys[x])
      BY <1>3, NamesOrdered
    <3>2. x < y \/ y < x
      BY <2>0, <2>2
    <3>. QED
      BY <1>4, <1>5, <3>1, <3>2
  <2>3. ASSUME NEW x \in S, NEW y \in S, NEW z \in S, <<x, y>> \in R, <<y, z>> \in R PROVE <<x, z>> \in R
    <3>1. /\ NameLess(keys[x], keys[y]) \/ (keys[x] = keys[y] /\ x < y)
          /\ NameLess(keys[y], keys[z]) \/ (keys[y] = keys[z] /\ y < z)
      BY <1>4, <1>5, <2>3
    <3>2. NameLess(keys[x], keys[y]) /\ NameLess(keys[y], keys[z]) => NameLess(keys[x], keys[z])
      BY <1>3, NamesOrdered
    <3>3. x < y /\ y < z => x < z
      BY <2>0
    <3>4. NameLess(keys[x], keys[z]) \/ (keys[x] = keys[z] /\ x < z)
      BY <3>1, <3>2, <3>3
    <3>. QED
      BY <1>4, <1>5, <3>4
  <2>. QED
    BY <2>1, <2>2, <2>3 DEF StrictTotalOrder
<1>7. \A i \in S : Below(S, R, i) = {j \in S : SortsBefore(keys, j, i)}
  BY <1>4 DEF Below
<1>8. \A k \in S : sorted[k] = fls[place(k)]
  <2>. SUFFICES ASSUME NEW k \in S PROVE sorted[k] = fls[place(k)]
    OBVIOUS
  <2>1. SortedBy(keys)[k] = CHOOSE i \in S : Cardinality({j \in S : SortsBefore(keys, j, i)}) = k - 1
    BY <1>3 DEF SortedBy
  <2>2. (CHOOSE i \in S : Cardinality({j \in S : SortsBefore(keys, j, i)}) = k - 1)
          = CHOOSE i \in S : Cardinality(Below(S, R, i)) = k - 1
    <3>. HIDE DEF S, R
    <3>. QED
      BY <1>7
  <2>3. SortedBy(keys)[k] = place(k)
    BY <2>1, <2>2 DEF Placed
  <2>4. DOMAIN SortedBy(keys) = S
    BY <1>3 DEF SortedBy
  <2>. QED
    BY <2>3, <2>4 DEF Remap
<1>9. DOMAIN sorted = S
  BY <1>3 DEF SortedBy, Remap
<1>. HIDE DEF S, R, sorted
<1>10. /\ \A k \in 1..n : place(k) \in S
       /\ \A j, k \in 1..n : j < k => <<place(j), place(k)>> \in R
       /\ \A x \in S : \E k \in 1..n : place(k) = x
  BY <1>2, <1>6, Placing
<1>. HIDE DEF place, n
<1>11. \A k \in 1..n : sorted[k] \in T
  BY <1>1, <1>8, <1>10
<1>12. sorted \in Seq(T) /\ Len(sorted) = n
  <2>1. sorted = [k \in 1..n |-> sorted[k]]
    <3>1. sorted = [k \in DOMAIN sorted |-> sorted[k]]
      BY DEF sorted, Remap
    <3>. QED
      BY <1>1, <1>9, <3>1
  <2>2. sorted \in [1..n -> T]
    BY <1>11, <2>1
  <2>. QED
    BY <1>1, <2>2, IsASeq, LenProperties
<1>13. ToSet(sorted) = ToSet(fls)
  <2>1. ASSUME NEW k \in DOMAIN sorted PROVE \E i \in DOMAIN fls : sorted[k] = fls[i]
    BY <1>1, <1>8, <1>9, <1>10 DEF S
  <2>2. ASSUME NEW i \in DOMAIN fls PROVE \E k \in DOMAIN sorted : fls[i] = sorted[k]
    BY <1>1, <1>8, <1>9, <1>10 DEF S
  <2>. QED
    BY <2>1, <2>2 DEF ToSet
<1>14. ASSUME \A i, j \in DOMAIN fls : fls[i].name = fls[j].name => i = j, NEW j \in DOMAIN sorted, NEW k \in DOMAIN sorted, j < k
       PROVE  NameLess(sorted[j].name, sorted[k].name)
  <2>1. /\ place(j) \in S /\ place(k) \in S /\ <<place(j), place(k)>> \in R
        /\ sorted[j] = fls[place(j)] /\ sorted[k] = fls[place(k)]
    BY <1>1, <1>8, <1>9, <1>10, <1>14
  <2>2. NameLess(keys[place(j)], keys[place(k)]) \/ (keys[place(j)] = keys[place(k)] /\ place(j) < place(k))
    BY <1>4, <1>5, <2>1
  <2>3. place(j) # place(k)
    BY <1>6, <2>1 DEF StrictTotalOrder
  <2>4. keys[place(j)] # keys[place(k)]
    BY <1>3, <1>14, <2>1, <2>3 DEF S
  <2>. QED
    BY <1>3, <2>1, <2>2, <2>4
<1>. QED
  BY <1>9, <1>12, <1>13, <1>14 DEF sorted, keys, n, S

(***************************************************************************)
(* Slices and searches                                                     *)
(***************************************************************************)
LEMMA Slice ==
  ASSUME NEW s \in Seq(Int), NEW m \in Nat, NEW n \in Nat, m =< n, n =< Len(s)
  PROVE  /\ SubSeq(s, m + 1, n) \in Seq(Int) /\ Len(SubSeq(s, m + 1, n)) = n - m
         /\ \A i \in 1..(n - m) : SubSeq(s, m + 1, n)[i] = s[m + i]
<1>. DEFINE u == SubSeq(s, m + 1, n)
<1>1. \A i \in (m + 1)..n : s[i] \in Int
  <2>. SUFFICES ASSUME NEW i \in (m + 1)..n PROVE s[i] \in Int
    OBVIOUS
  <2>1. i \in 1..Len(s)
    BY LenProperties
  <2>. QED
    BY <2>1, ElementOfSeq
<1>2. /\ u \in Seq(Int) /\ Len(u) = IF m + 1 =< n THEN n - (m + 1) + 1 ELSE 0
      /\ \A i \in 1..(n - (m + 1) + 1) : u[i] = s[(m + 1) + i - 1]
  <2>1. m + 1 \in Int /\ n \in Int
    OBVIOUS
  <2>. QED
    BY <1>1, <2>1, SubSeqProperties
<1>. HIDE DEF u
<1>3. Len(u) = n - m
  BY <1>2
<1>4. ASSUME NEW i \in 1..(n - m) PROVE u[i] = s[m + i]
  <2>1. i \in 1..(n - (m + 1) + 1) /\ (m + 1) + i - 1 = m + i
    OBVIOUS
  <2>. QED
    BY <1>2, <2>1
<1>. QED
  BY <1>2, <1>3, <1>4 DEF u

\* The first position of a set of positions, 0 where there is none.
FirstOf(I) == IF I # {} THEN Min(I) ELSE 0

LEMMA FirstIs ==
  ASSUME NEW n \in Nat, NEW I \in SUBSET (1..n)
  PROVE  /\ FirstOf(I) = 0 <=> I = {}
         /\ I # {} => FirstOf(I) \in I /\ \A i \in I : FirstOf(I) =< i
<1>1. I \in SUBSET Nat
  OBVIOUS
<1>2. I # {} => Min(I) \in I /\ \A i \in I : Min(I) =< i
  BY <1>1, MinIs
<1>3. I # {} => Min(I) # 0
  BY <1>2
<1>. QED
  BY <1>2, <1>3 DEF FirstOf

(***************************************************************************)
(* What try_from_bytes accepts                                             *)
(***************************************************************************)
Entry == [offset : Nat, size : Nat, string_table_offset : Nat]

Typed(a) == a.string_table_size \in Nat /\ a.rest \in Seq(Int) /\ a.entries \in Seq(Entry)

\* The regions of an archive whose string table fits.
LEMMA Regions ==
  ASSUME NEW a, Typed(a), a.string_table_size =< Len(a.rest)
  PROVE  /\ Len(a.rest) \in Nat
         /\ StringTable(a) \in Seq(Int) /\ Len(StringTable(a)) = a.string_table_size
         /\ \A i \in 1..a.string_table_size : StringTable(a)[i] = a.rest[i]
         /\ DataRegion(a) \in Seq(Int) /\ Len(DataRegion(a)) = Len(a.rest) - a.string_table_size
         /\ \A i \in 1..(Len(a.rest) - a.string_table_size) : DataRegion(a)[i] = a.rest[a.string_table_size + i]
<1>. DEFINE t == a.string_table_size
            rest == a.rest
<1>1. t \in Nat /\ rest \in Seq(Int) /\ Len(rest) \in Nat /\ t =< Len(rest)
  BY LenProperties DEF Typed
<1>. HIDE DEF t, rest
<1>2. /\ SubSeq(rest, 0 + 1, t) \in Seq(Int) /\ Len(SubSeq(rest, 0 + 1, t)) = t - 0
      /\ \A i \in 1..(t - 0) : SubSeq(rest, 0 + 1, t)[i] = rest[0 + i]
  BY <1>1, Slice
<1>3. /\ SubSeq(rest, t + 1, Len(rest)) \in Seq(Int) /\ Len(SubSeq(rest, t + 1, Len(rest))) = Len(rest) - t
      /\ \A i \in 1..(Len(rest) - t) : SubSeq(rest, t + 1, Len(rest))[i] = rest[t + i]
  BY <1>1, Slice
<1>4. 0 + 1 = 1 /\ t - 0 = t /\ \A i \in 1..t : 0 + i = i
  BY <1>1
<1>5. StringTable(a) = SubSeq(rest, 1, t) /\ DataRegion(a) = SubSeq(rest, t + 1, Len(rest))
  BY DEF StringTable, DataRegion, t, rest
<1>6. /\ StringTable(a) \in Seq(Int) /\ Len(StringTable(a)) = t
      /\ \A i \in 1..t : StringTable(a)[i] = rest[i]
  BY <1>2, <1>4, <1>5
<1>. QED
  BY <1>1, <1>3, <1>5, <1>6 DEF t, rest

\* The entry's data lies in the data region, its name begins in the string table
\* and is terminated there.
Inside(a, e) ==
  /\ a.string_table_size + e.offset + e.size =< Len(a.rest)
  /\ \E i \in (e.string_table_offset + 1)..a.string_table_size : a.rest[i] = 0

LEMMA EntryInside ==
  ASSUME NEW a, Typed(a), a.string_table_size =< Len(a.rest), NEW e \in Entry
  PROVE  /\ EntryError(a, e) = "none" => Inside(a, e)
         /\ Inside(a, e) /\ e.offset + e.size =< USIZE_MAX => EntryError(a, e) = "none"
<1>. DEFINE t == a.string_table_size
            n == Len(a.rest)
            table == StringTable(a)
            from == e.string_table_offset
            end == e.offset + e.size
<1>1. /\ t \in Nat /\ n \in Nat /\ t =< n /\ from \in Nat /\ end \in Nat /\ USIZE_MAX \in Nat
      /\ e.offset \in Nat /\ e.size \in Nat
  BY LenProperties, UsizeAssumption DEF Typed, Entry
<1>2. /\ Len(table) = t /\ Len(DataRegion(a)) = n - t
      /\ \A i \in 1..t : table[i] = a.rest[i]
  BY Regions
<1>3. \A i \in (from + 1)..t : table[i] = a.rest[i]
  <2>. SUFFICES ASSUME NEW i \in (from + 1)..t PROVE table[i] = a.rest[i]
    OBVIOUS
  <2>1. i \in 1..t
    BY <1>1
  <2>. QED
    BY <1>2, <2>1
<1>4. (t + e.offset + e.size =< n) <=> ~(end > n - t)
  BY <1>1, SMTT(60)
<1>. HIDE DEF t, n, table, from, end
<1>5. EntryError(a, e) = "none" <=> ~(end > USIZE_MAX) /\ ~(end > n - t) /\ ~(from > t) /\ \E i \in (from + 1)..t : table[i] = 0
  BY <1>2 DEF EntryError, FileError, NameError, t, n, table, from, end
<1>6. Inside(a, e) <=> (t + e.offset + e.size =< n) /\ \E i \in (from + 1)..t : a.rest[i] = 0
  BY DEF Inside, t, n, from
<1>7. (\E i \in (from + 1)..t : table[i] = 0) <=> \E i \in (from + 1)..t : a.rest[i] = 0
  BY <1>3
<1>8. (\E i \in (from + 1)..t : TRUE) => ~(from > t)
  BY <1>1
<1>9. end =< USIZE_MAX => ~(end > USIZE_MAX)
  BY <1>1
<1>. QED
  BY <1>4, <1>5, <1>6, <1>7, <1>8, <1>9 DEF end

LEMMA Accepted ==
  ASSUME NEW a, Typed(a)
  PROVE  /\ HeaderError(a) = "none" =>
              a.string_table_size =< Len(a.rest) /\ \A k \in DOMAIN a.entries : EntryError(a, a.entries[k]) = "none"
         /\ /\ a.len \in Nat /\ a.len >= PFS0_HEADER_SIZE /\ a.magic = HEADER_MAGIC
            /\ a.file_count = Len(a.entries) /\ a.string_table_size =< Len(a.rest)
            /\ \A k \in DOMAIN a.entries : EntryError(a, a.entries[k]) = "none"
            => HeaderError(a) = "none"
<1>. DEFINE I == {i \in 1..Len(a.entries) : EntryError(a, a.entries[i]) # "none"}
            bad == SelectInSeq(a.entries, LAMBDA e : EntryError(a, e) # "none")
<1>1. /\ a.string_table_size \in Nat /\ Len(a.rest) \in Nat /\ Len(a.entries) \in Nat
      /\ DOMAIN a.entries = 1..Len(a.entries)
  BY LenProperties DEF Typed
<1>2. bad = FirstOf(I)
  BY DEF SelectInSeq, FirstOf
<1>3. (bad = 0 <=> I = {}) /\ (I # {} => bad \in I)
  <2>1. I \in SUBSET (1..Len(a.entries))
    OBVIOUS
  <2>. HIDE DEF I, bad
  <2>2. (FirstOf(I) = 0 <=> I = {}) /\ (I # {} => FirstOf(I) \in I)
    BY <1>1, <2>1, FirstIs
  <2>. QED
    BY <1>2, <2>2
<1>5. I = {} <=> \A k \in DOMAIN a.entries : EntryError(a, a.entries[k]) = "none"
  BY <1>1
<1>6. HeaderError(a) =
        IF a.len < PFS0_HEADER_SIZE THEN "BufferTooSmall"
        ELSE IF a.magic # HEADER_MAGIC THEN "InvalidMagic"
        ELSE IF a.file_count > Len(a.entries) THEN "EntryTableOutOfBounds"
        ELSE IF a.string_table_size > Len(a.rest) THEN "StringTableOutOfBounds"
        ELSE IF bad # 0 THEN EntryError(a, a.entries[bad])
        ELSE "none"
  BY DEF HeaderError
<1>7. I # {} => EntryError(a, a.entries[bad]) # "none"
  BY <1>3
<1>. HIDE DEF bad, I
<1>8. HeaderError(a) = "none" => ~(a.string_table_size > Len(a.rest)) /\ I = {}
  BY <1>3, <1>6, <1>7
<1>9. /\ a.len \in Nat /\ a.len >= PFS0_HEADER_SIZE /\ a.magic = HEADER_MAGIC
      /\ a.file_count = Len(a.entries) /\ a.string_table_size =< Len(a.rest) /\ I = {}
      => HeaderError(a) = "none"
  BY <1>1, <1>3, <1>6 DEF PFS0_HEADER_SIZE
<1>. QED
  BY <1>1, <1>5, <1>8, <1>9

(***************************************************************************)
(* Names                                                                   *)
(***************************************************************************)
\* What follows an entry's offset in the string table, and its terminator.
TableFrom(e) == SubSeq(arc.rest, e.string_table_offset + 1, arc.string_table_size)
Nuls(e) == {i \in 1..Len(TableFrom(e)) : TableFrom(e)[i] = 0}

LEMMA NameAtBy ==
  ASSUME NEW e
  PROVE  NameAt(e) =
           LET name == IF FirstOf(Nuls(e)) = 0 THEN TableFrom(e) ELSE SubSeq(TableFrom(e), 1, FirstOf(Nuls(e)) - 1)
           IN  IF INVALID \in ToSet(name) THEN <<>> ELSE name
<1>1. SelectInSeq(TableFrom(e), LAMBDA c : c = 0) = FirstOf(Nuls(e))
  BY DEF SelectInSeq, FirstOf, Nuls
<1>. QED
  BY <1>1 DEF NameAt, TableFrom

LEMMA TableFromIs ==
  ASSUME Typed(arc), arc.string_table_size =< Len(arc.rest), NEW e \in Entry, e.string_table_offset =< arc.string_table_size
  PROVE  /\ TableFrom(e) \in Seq(Int) /\ Len(TableFrom(e)) = arc.string_table_size - e.string_table_offset
         /\ Len(TableFrom(e)) \in Nat
         /\ \A i \in 1..Len(TableFrom(e)) : TableFrom(e)[i] = arc.rest[e.string_table_offset + i]
<1>. DEFINE m == e.string_table_offset
            n == arc.string_table_size
<1>1. m \in Nat /\ n \in Nat /\ m =< n /\ n =< Len(arc.rest) /\ arc.rest \in Seq(Int)
  BY DEF Typed, Entry
<1>2. TableFrom(e) = SubSeq(arc.rest, m + 1, n)
  BY DEF TableFrom
<1>. HIDE DEF m, n
<1>3. /\ TableFrom(e) \in Seq(Int) /\ Len(TableFrom(e)) = n - m
      /\ \A i \in 1..(n - m) : TableFrom(e)[i] = arc.rest[m + i]
  BY <1>1, <1>2, Slice
<1>4. n - m \in Nat
  BY <1>1
<1>. QED
  BY <1>3, <1>4 DEF m, n

\* A name whose terminator is in the table ends before the table does.
LEMMA NameEnds ==
  ASSUME Typed(arc), arc.string_table_size =< Len(arc.rest), NEW e \in Entry, Inside(arc, e)
  PROVE  Resolvable(e) /\ e.string_table_offset + Len(NameAt(e)) < arc.string_table_size
<1>. DEFINE m == e.string_table_offset
            n == arc.string_table_size
            t == TableFrom(e)
            I == Nuls(e)
            nul == FirstOf(I)
            name == SubSeq(t, 1, nul - 1)
<1>1. m \in Nat /\ n \in Nat
  BY DEF Typed, Entry
<1>2. PICK i \in (m + 1)..n : arc.rest[i] = 0
  BY DEF Inside
<1>3. m < n /\ i - m \in 1..(n - m) /\ m + (i - m) = i
  BY <1>1
<1>4. t \in Seq(Int) /\ Len(t) = n - m /\ \A j \in 1..(n - m) : t[j] = arc.rest[m + j]
  BY <1>1, <1>3, TableFromIs, SMTT(60)
<1>5. i - m \in I
  BY <1>2, <1>3, <1>4 DEF Nuls
<1>6. nul \in 1..(n - m)
  <2>1. I \in SUBSET (1..(n - m)) /\ n - m \in Nat
    BY <1>1, <1>3, <1>4 DEF Nuls
  <2>. HIDE DEF I
  <2>2. FirstOf(I) \in I
    BY <1>5, <2>1, FirstIs
  <2>. QED
    BY <2>1, <2>2
<1>7. NameAt(e) = IF INVALID \in ToSet(name) THEN <<>> ELSE name
  BY <1>1, <1>6, NameAtBy
<1>. HIDE DEF t, I, nul
<1>8. Len(name) = nul - 1
  <2>1. nul - 1 \in Nat /\ 0 =< nul - 1 /\ nul - 1 =< Len(t) /\ 0 + 1 = 1 /\ (nul - 1) - 0 = nul - 1
    BY <1>1, <1>4, <1>6
  <2>2. Len(SubSeq(t, 0 + 1, nul - 1)) = (nul - 1) - 0
    BY <1>4, <2>1, Slice
  <2>. QED
    BY <2>1, <2>2
<1>9. Len(NameAt(e)) \in 0..(n - m - 1)
  <2>1. Len(<<>>) = 0
    OBVIOUS
  <2>. HIDE DEF name
  <2>. QED
    BY <1>1, <1>3, <1>6, <1>7, <1>8, <2>1
<1>10. m + Len(NameAt(e)) < n
  BY <1>1, <1>3, <1>9, SMTT(60)
<1>11. Resolvable(e)
  BY <1>1, <1>3 DEF Resolvable, Inside
<1>. QED
  BY <1>10, <1>11

\* A name that was written with a zero after it is the name that is read.
LEMMA NameAtIs ==
  ASSUME Typed(arc), arc.string_table_size =< Len(arc.rest), NEW e \in Entry, NEW name \in UTF8, 0 \notin ToSet(name),
         LiesAt(arc.rest, e.string_table_offset, name),
         e.string_table_offset + Len(name) < arc.string_table_size,
         arc.rest[e.string_table_offset + (Len(name) + 1)] = 0
  PROVE  NameAt(e) = name
<1>. DEFINE m == e.string_table_offset
            n == arc.string_table_size
            k == Len(name)
            t == TableFrom(e)
            I == Nuls(e)
            nul == FirstOf(I)
<1>1. /\ m \in Nat /\ n \in Nat /\ k \in Nat /\ name \in Seq(Int) /\ m + k < n /\ DOMAIN name = 1..k
      /\ INVALID \notin ToSet(name)
  <2>1. name \in Seq(Int) /\ INVALID \notin ToSet(name)
    BY DEF UTF8
  <2>. QED
    BY <2>1, LenProperties DEF Typed, Entry
<1>2. /\ t \in Seq(Int) /\ Len(t) = n - m /\ \A j \in 1..(n - m) : t[j] = arc.rest[m + j]
  <2>1. m =< n
    BY <1>1
  <2>. QED
    BY <2>1, TableFromIs
<1>3. \A j \in 1..k : arc.rest[m + j] = name[j] /\ name[j] # 0 /\ j \in 1..(n - m)
  <2>. SUFFICES ASSUME NEW j \in 1..k PROVE arc.rest[m + j] = name[j] /\ name[j] # 0 /\ j \in 1..(n - m)
    OBVIOUS
  <2>1. arc.rest[m + j] = name[j]
    BY DEF LiesAt
  <2>2. name[j] # 0
    BY <1>1 DEF ToSet
  <2>3. j \in 1..(n - m)
    BY <1>1
  <2>. QED
    BY <2>1, <2>2, <2>3
<1>4. k + 1 \in I /\ \A j \in I : k + 1 =< j
  <2>1. I = {j \in 1..(n - m) : arc.rest[m + j] = 0}
    BY <1>2 DEF Nuls
  <2>2. k + 1 \in 1..(n - m) /\ arc.rest[m + (k + 1)] = 0
    BY <1>1
  <2>. HIDE DEF I
  <2>3. ASSUME NEW j \in I, ~(k + 1 =< j) PROVE FALSE
    <3>1. j \in 1..k
      BY <1>1, <2>1, <2>3
    <3>. QED
      BY <1>3, <2>1, <3>1
  <2>. QED
    BY <2>1, <2>2, <2>3
<1>5. nul = k + 1
  <2>1. I \in SUBSET (1..(n - m)) /\ n - m \in Nat
    BY <1>1, <1>2 DEF Nuls
  <2>. HIDE DEF I
  <2>2. FirstOf(I) \in I /\ \A j \in I : FirstOf(I) =< j
    BY <1>4, <2>1, FirstIs
  <2>3. FirstOf(I) \in 1..(n - m)
    BY ONLY <2>1, <2>2
  <2>. QED
    BY <1>1, <1>4, <2>2, <2>3
<1>. HIDE DEF t, I, nul
<1>6. SubSeq(t, 1, nul - 1) = name
  <2>1. LiesAt(t, 0, name)
    <3>1. 0 + k =< n - m
      BY <1>1
    <3>2. \A j \in 1..k : t[0 + j] = name[j]
      <4>. SUFFICES ASSUME NEW j \in 1..k PROVE t[0 + j] = name[j]
        OBVIOUS
      <4>1. 0 + j = j
        BY <1>1
      <4>. QED
        BY <1>2, <1>3, <4>1
    <3>. QED
      BY <1>2, <3>1, <3>2 DEF LiesAt
  <2>2. SubSeq(t, 0 + 1, 0 + k) = name
    BY <1>1, <1>2, <2>1, SliceIs
  <2>3. 0 + 1 = 1 /\ 0 + k = nul - 1
    BY <1>1, <1>5
  <2>. QED
    BY <2>2, <2>3
<1>7. nul # 0
  BY <1>1, <1>5
<1>8. NameAt(e) = IF INVALID \in ToSet(SubSeq(t, 1, nul - 1)) THEN <<>> ELSE SubSeq(t, 1, nul - 1)
  BY <1>7, NameAtBy DEF t, I, nul
<1>. QED
  BY <1>1, <1>6, <1>8

(***************************************************************************)
(* What build writes                                                       *)
(***************************************************************************)
\* The files add_file lets in.
ArchivedFile == {f \in [name : UTF8, data : Seq(Int)] : f.name # <<>> /\ NUL \notin ToSet(f.name)}

Offsets == [string_offset : Nat, data_offset : Nat]

\* The running offsets: each follows from the one before, so that they only grow.
SumsFor(s, fls) ==
  /\ s \in Seq(Offsets) /\ Len(s) \in 1..(Len(fls) + 1)
  /\ s[1] = Start
  /\ \A k \in 1..(Len(s) - 1) : s[k + 1] = Past(s[k], fls[k])
  /\ \A j, k \in 1..Len(s) : j =< k => s[j].string_offset =< s[k].string_offset /\ s[j].data_offset =< s[k].data_offset

LEMMA FileIs ==
  ASSUME NEW f \in ArchivedFile
  PROVE  /\ f.name \in UTF8 /\ f.name \in Seq(Int) /\ f.data \in Seq(Int) /\ Len(f.name) \in Nat /\ Len(f.data) \in Nat
         /\ 0 \notin ToSet(f.name)
<1>1. f.name \in UTF8 /\ f.data \in Seq(Int) /\ 0 \notin ToSet(f.name)
  BY DEF ArchivedFile, NUL
<1>2. f.name \in Seq(Int)
  BY <1>1 DEF UTF8
<1>. QED
  BY <1>1, <1>2, LenProperties

LEMMA PastIs ==
  ASSUME NEW o \in Offsets, NEW f \in ArchivedFile
  PROVE  /\ Past(o, f) \in Offsets
         /\ Past(o, f).string_offset = o.string_offset + Len(f.name) + 1 /\ Past(o, f).data_offset = o.data_offset + Len(f.data)
<1>1. Len(f.name) \in Nat /\ Len(f.data) \in Nat
  BY FileIs
<1>. QED
  BY <1>1, SMTT(60) DEF Past, Offsets

\* One more file is added up.
LEMMA AddedUp ==
  ASSUME NEW fls \in Seq(ArchivedFile), NEW s, SumsFor(s, fls), Len(s) =< Len(fls)
  PROVE  SumsFor(Append(s, Past(Last(s), fls[Len(s)])), fls)
<1>. DEFINE n == Len(s)
            m == Len(fls)
            p == Past(Last(s), fls[n])
            t == Append(s, p)
<1>1. n \in 1..m /\ m \in Nat /\ s \in Seq(Offsets) /\ DOMAIN s = 1..n
  BY LenProperties DEF SumsFor
<1>2. fls[n] \in ArchivedFile /\ Last(s) = s[n] /\ s[n] \in Offsets /\ \A k \in 1..n : s[k] \in Offsets
  BY <1>1, ElementOfSeq DEF Last
<1>3. /\ p \in Offsets
      /\ p.string_offset = s[n].string_offset + Len(fls[n].name) + 1 /\ p.data_offset = s[n].data_offset + Len(fls[n].data)
  BY <1>2, PastIs, SMTT(60)
<1>4. Len(fls[n].name) \in Nat /\ Len(fls[n].data) \in Nat
  BY <1>2, FileIs
<1>5. p = Past(s[n], fls[n])
  BY <1>2
<1>. HIDE DEF p
<1>6. t \in Seq(Offsets) /\ Len(t) = n + 1 /\ t[n + 1] = p /\ \A k \in 1..n : t[k] = s[k]
  BY <1>1, <1>3, AppendProperties
<1>. HIDE DEF t
<1>7. Len(t) \in 1..(m + 1)
  <2>. HIDE DEF n, m
  <2>. QED
    BY <1>1, <1>6
<1>8. t[1] = Start
  BY <1>1, <1>6 DEF SumsFor
<1>9. ASSUME NEW k \in 1..(Len(t) - 1) PROVE t[k + 1] = Past(t[k], fls[k])
  <2>1. CASE k = n
    <3>1. t[k + 1] = p /\ t[k] = s[n]
      BY <1>1, <1>6, <2>1
    <3>. QED
      BY <1>5, <2>1, <3>1
  <2>2. CASE k # n
    <3>1. k \in 1..(n - 1) /\ k \in 1..n /\ k + 1 \in 1..n
      <4>. HIDE DEF n
      <4>. QED
        BY <1>1, <1>6, <2>2
    <3>2. s[k + 1] = Past(s[k], fls[k])
      BY <3>1 DEF SumsFor
    <3>. QED
      BY <1>6, <3>1, <3>2
  <2>. QED
    BY <2>1, <2>2
<1>10. ASSUME NEW j \in 1..Len(t), NEW k \in 1..Len(t), j =< k
       PROVE  t[j].string_offset =< t[k].string_offset /\ t[j].data_offset =< t[k].data_offset
  <2>1. \A i \in 1..Len(t) : t[i] \in Offsets
    BY <1>6, ElementOfSeq
  <2>2. CASE k \in 1..n
    <3>1. j \in 1..n
      BY <1>1, <1>6, <1>10, <2>2
    <3>. QED
      BY <1>6, <1>10, <2>2, <3>1 DEF SumsFor
  <2>3. CASE j = n + 1
    <3>1. k = n + 1
      BY <1>1, <1>6, <1>10, <2>3
    <3>2. p.string_offset \in Nat /\ p.data_offset \in Nat
      BY <1>3 DEF Offsets
    <3>. QED
      BY <1>6, <2>3, <3>1, <3>2
  <2>4. CASE k = n + 1 /\ j # n + 1
    <3>1. j \in 1..n /\ n \in 1..n /\ j =< n
      <4>. HIDE DEF n
      <4>. QED
        BY <1>1, <1>6, <2>4
    <3>2. s[j].string_offset =< s[n].string_offset /\ s[j].data_offset =< s[n].data_offset
      BY <3>1 DEF SumsFor
    <3>3. /\ s[j].string_offset \in Nat /\ s[n].string_offset \in Nat /\ s[j].data_offset \in Nat /\ s[n].data_offset \in Nat
      BY <1>2, <3>1 DEF Offsets
    <3>4. s[j].string_offset =< p.string_offset /\ s[j].data_offset =< p.data_offset
      <4>. DEFINE a == s[j].string_offset
                  b == s[n].string_offset
                  c == s[j].data_offset
                  d == s[n].data_offset
                  x == Len(fls[n].name)
                  y == Len(fls[n].data)
                  v == p.string_offset
                  w == p.data_offset
      <4>1. v = b + x + 1 /\ w = d + y /\ x \in Nat /\ y \in Nat
        BY <1>3, <1>4
      <4>2. a =< b /\ c =< d /\ a \in Nat /\ b \in Nat /\ c \in Nat /\ d \in Nat
        BY <3>2, <3>3
      <4>. HIDE DEF a, b, c, d, x, y, v, w
      <4>3. a =< v /\ c =< w
        BY ONLY <4>1, <4>2
      <4>. QED
        BY <4>3 DEF a, c, v, w
    <3>. QED
      BY <1>6, <2>4, <3>1, <3>4
  <2>5. k \in 1..n \/ k = n + 1
    <3>. HIDE DEF n
    <3>. QED
      BY <1>1, <1>6
  <2>. QED
    BY <2>2, <2>3, <2>4, <2>5
<1>. QED
  BY <1>6, <1>7, <1>8, <1>9, <1>10 DEF SumsFor, t, p, m, n

\* A file ends before the next one, and before every later one, begins.
LEMMA FilesApart ==
  ASSUME NEW fls \in Seq(ArchivedFile), NEW s, SumsFor(s, fls), NEW j \in 1..Len(s), NEW k \in 1..Len(s), j < k
  PROVE  /\ s[j] \in Offsets /\ s[k] \in Offsets /\ fls[j] \in ArchivedFile
         /\ s[j + 1].string_offset = s[j].string_offset + Len(fls[j].name) + 1
         /\ s[j + 1].data_offset = s[j].data_offset + Len(fls[j].data)
         /\ s[j].string_offset + Len(fls[j].name) + 1 =< s[k].string_offset
         /\ s[j].data_offset + Len(fls[j].data) =< s[k].data_offset
<1>1. Len(s) \in Nat /\ Len(fls) \in Nat /\ Len(s) =< Len(fls) + 1 /\ s \in Seq(Offsets)
  BY LenProperties DEF SumsFor
<1>2. j \in 1..(Len(s) - 1) /\ j + 1 \in 1..Len(s) /\ j + 1 =< k /\ j \in 1..Len(fls)
  BY <1>1
<1>3. s[j] \in Offsets /\ s[k] \in Offsets /\ fls[j] \in ArchivedFile
  BY <1>1, <1>2, ElementOfSeq
<1>4. s[j + 1] = Past(s[j], fls[j])
  BY <1>2 DEF SumsFor
<1>5. s[j + 1].string_offset =< s[k].string_offset /\ s[j + 1].data_offset =< s[k].data_offset
  BY <1>2 DEF SumsFor
<1>6. /\ s[j + 1].string_offset = s[j].string_offset + Len(fls[j].name) + 1
      /\ s[j + 1].data_offset = s[j].data_offset + Len(fls[j].data)
  <2>1. /\ Past(s[j], fls[j]).string_offset = s[j].string_offset + Len(fls[j].name) + 1
        /\ Past(s[j], fls[j]).data_offset = s[j].data_offset + Len(fls[j].data)
    BY <1>3, PastIs
  <2>. QED
    BY ONLY <1>4, <2>1
<1>. QED
  BY <1>3, <1>5, <1>6

\* The string table holds what its names need, and less than 32 bytes more.
LEMMA TableSize ==
  ASSUME NEW raw \in Nat
  PROVE  /\ string_table_size(raw) \in Nat /\ raw =< string_table_size(raw) /\ string_table_size(raw) =< raw + 31
         /\ string_table_size(raw) % 32 = 0
<1>. DEFINE v == raw + 31
            q == v \div 32
<1>1. v \in Nat /\ raw + 32 - 1 = v
  OBVIOUS
<1>2. q \in Nat /\ v % 32 \in 0..31 /\ v = 32 * q + (v % 32)
  BY <1>1
<1>3. string_table_size(raw) = q * 32
  BY <1>1 DEF string_table_size, Align
<1>4. (q * 32) % 32 = 0
  BY <1>2
<1>. HIDE DEF q
<1>. QED
  BY <1>2, <1>3, <1>4

\* A copy changes its own range and nothing else.
LEMMA Copied ==
  ASSUME NEW b \in Seq(Int), NEW m \in Nat, NEW u \in Seq(Int), m + Len(u) =< Len(b)
  PROVE  /\ WriteAt(b, m, u) \in Seq(Int) /\ Len(WriteAt(b, m, u)) = Len(b)
         /\ LiesAt(WriteAt(b, m, u), m, u)
         /\ \A i \in 1..Len(b) : i \notin (m + 1)..(m + Len(u)) => WriteAt(b, m, u)[i] = b[i]
<1>. DEFINE c == WriteAt(b, m, u)
            n == Len(b)
            k == Len(u)
<1>1. n \in Nat /\ k \in Nat /\ DOMAIN b = 1..n /\ m + k =< n /\ \A i \in 1..n : b[i] \in Int
  BY LenProperties, ElementOfSeq
<1>2. c = [i \in 1..n |-> IF i \in (m + 1)..(m + k) THEN u[i - m] ELSE b[i]]
  BY <1>1 DEF WriteAt
<1>. HIDE DEF c
<1>3. ASSUME NEW i \in 1..n PROVE (IF i \in (m + 1)..(m + k) THEN u[i - m] ELSE b[i]) \in Int
  <2>1. CASE i \in (m + 1)..(m + k)
    <3>1. i - m \in 1..Len(u)
      BY <1>1, <2>1
    <3>2. u[i - m] \in Int
      BY <3>1, ElementOfSeq
    <3>. QED
      BY <2>1, <3>2
  <2>2. CASE i \notin (m + 1)..(m + k)
    BY <1>1, <2>2
  <2>. QED
    BY <2>1, <2>2
<1>. HIDE DEF n, k
<1>4. c \in [1..n -> Int]
  BY <1>2, <1>3
<1>5. c \in Seq(Int) /\ Len(c) = n
  BY <1>1, <1>4
<1>6. \A i \in 1..n : i \notin (m + 1)..(m + k) => c[i] = b[i]
  BY <1>2
<1>7. \A i \in 1..k : c[m + i] = u[i]
  <2>. SUFFICES ASSUME NEW i \in 1..k PROVE c[m + i] = u[i]
    OBVIOUS
  <2>1. m + i \in 1..n /\ m + i \in (m + 1)..(m + k) /\ (m + i) - m = i
    BY <1>1
  <2>. QED
    BY <1>2, <2>1
<1>8. LiesAt(c, m, u)
  BY <1>1, <1>5, <1>7 DEF LiesAt, k
<1>. QED
  BY <1>5, <1>6, <1>8 DEF c, n, k

\* What lies before or after the range of a copy stays.
LEMMA StaysWritten ==
  ASSUME NEW b \in Seq(Int), NEW m \in Nat, NEW u \in Seq(Int), m + Len(u) =< Len(b),
         NEW k \in Nat, NEW v \in Seq(Int), LiesAt(b, k, v), k + Len(v) =< m \/ m + Len(u) =< k
  PROVE  LiesAt(WriteAt(b, m, u), k, v)
<1>. DEFINE c == WriteAt(b, m, u)
<1>1. Len(u) \in Nat /\ Len(v) \in Nat /\ Len(b) \in Nat /\ k + Len(v) =< Len(b) /\ \A i \in 1..Len(v) : b[k + i] = v[i]
  BY LenProperties DEF LiesAt
<1>2. Len(c) = Len(b) /\ \A i \in 1..Len(b) : i \notin (m + 1)..(m + Len(u)) => c[i] = b[i]
  BY Copied
<1>. HIDE DEF c
<1>3. ASSUME NEW i \in 1..Len(v) PROVE c[k + i] = v[i]
  <2>. DEFINE x == Len(u)
              y == Len(v)
              z == Len(b)
  <2>1. x \in Nat /\ y \in Nat /\ z \in Nat /\ k + y =< z /\ i \in 1..y /\ m \in Nat /\ k \in Nat
    BY <1>1
  <2>2. k + y =< m \/ m + x =< k
    OBVIOUS
  <2>. HIDE DEF x, y, z
  <2>3. k + i \in 1..z
    BY ONLY <2>1
  <2>4. k + i \notin (m + 1)..(m + x)
    BY ONLY <2>1, <2>2
  <2>. QED
    BY <1>1, <1>2, <2>3, <2>4 DEF x, z
<1>4. LiesAt(c, k, v)
  BY <1>1, <1>2, <1>3 DEF LiesAt
<1>. QED
  BY <1>4 DEF c

(***************************************************************************)
(* The archive after some of its files                                     *)
(***************************************************************************)
ArchiveBytes ==
  [len : Nat, magic : {PFS0_MAGIC}, file_count : Nat, string_table_size : Nat, entries : Seq(Entry), rest : Seq(Int)]

EntryFor(o, f) == [offset |-> o.data_offset, size |-> Len(f.data), string_table_offset |-> o.string_offset]

\* The bytes of a name that begins at o.
InSpan(o, f, i) == i \in (o.string_offset + 1)..(o.string_offset + Len(f.name))

\* A file is where its entry says.
FileIn(a, o, f, k) ==
  /\ a.entries[k] = EntryFor(o, f)
  /\ LiesAt(a.rest, o.string_offset, f.name)
  /\ LiesAt(a.rest, a.string_table_size + o.data_offset, f.data)

\* The sums are complete, and the header is what they say.
HeaderFor(a, s, fls) ==
  /\ SumsFor(s, fls) /\ Len(s) = Len(fls) + 1
  /\ a \in ArchiveBytes /\ a.len >= HEADER_SIZE /\ a.file_count = Len(fls) /\ Len(a.rest) =< ISIZE_MAX
  /\ a.string_table_size = string_table_size(s[Len(fls) + 1].string_offset)
  /\ Len(a.rest) = a.string_table_size + s[Len(fls) + 1].data_offset

\* The first files are in place, and the string table holds nothing but their names.
ArchiveFor(a, s, fls) ==
  /\ HeaderFor(a, s, fls)
  /\ Len(a.entries) =< Len(fls)
  /\ \A k \in 1..Len(a.entries) : FileIn(a, s[k], fls[k], k)
  /\ \A i \in 1..a.string_table_size : (\A k \in 1..Len(a.entries) : ~InSpan(s[k], fls[k], i)) => a.rest[i] = 0

\* The k-th file has its place: its terminated name before the end of the string
\* table, its data before the end of the buffer.
LEMMA HasRoom ==
  ASSUME NEW fls \in Seq(ArchivedFile), NEW s, NEW a, HeaderFor(a, s, fls), NEW k \in 1..Len(fls)
  PROVE  /\ s[k] \in Offsets /\ fls[k] \in ArchivedFile /\ a.string_table_size \in Nat /\ a.rest \in Seq(Int)
         /\ s[k].string_offset + Len(fls[k].name) + 1 =< a.string_table_size
         /\ a.string_table_size + s[k].data_offset + Len(fls[k].data) =< Len(a.rest)
<1>. DEFINE m == Len(fls)
            t == a.string_table_size
            x == s[m + 1].string_offset
            y == s[m + 1].data_offset
            p == s[k].string_offset
            q == s[k].data_offset
            g == Len(fls[k].name)
            h == Len(fls[k].data)
<1>1. m \in Nat /\ Len(s) = m + 1 /\ k \in 1..Len(s) /\ m + 1 \in 1..Len(s) /\ k < m + 1
  <2>1. m \in Nat /\ Len(s) = m + 1
    BY LenProperties DEF HeaderFor
  <2>. HIDE DEF m
  <2>2. k \in 1..m
    BY DEF m
  <2>. QED
    BY ONLY <2>1, <2>2
<1>2. SumsFor(s, fls)
  BY DEF HeaderFor
<1>3. /\ s[k] \in Offsets /\ s[m + 1] \in Offsets /\ fls[k] \in ArchivedFile
      /\ p + g + 1 =< x /\ q + h =< y
  <2>. HIDE DEF m
  <2>. QED
    BY <1>1, <1>2, FilesApart
<1>4. p \in Nat /\ q \in Nat /\ x \in Nat /\ y \in Nat /\ g \in Nat /\ h \in Nat
  BY <1>3, FileIs DEF Offsets
<1>5. t \in Nat /\ a.rest \in Seq(Int) /\ t = string_table_size(x) /\ Len(a.rest) = t + y
  BY DEF HeaderFor, ArchiveBytes
<1>6. x =< t
  <2>. HIDE DEF x, t
  <2>. QED
    BY <1>4, <1>5, TableSize
<1>. HIDE DEF p, q, x, y, g, h, t
<1>7. p + g + 1 =< t /\ t + q + h =< Len(a.rest)
  BY ONLY <1>3, <1>4, <1>5, <1>6, SMTT(60)
<1>. QED
  BY <1>3, <1>5, <1>7 DEF p, q, g, h, t

\* The buffer before the loop.
LEMMA Allocated ==
  ASSUME NEW fls \in Seq(ArchivedFile), NEW s, SumsFor(s, fls), Len(s) = Len(fls) + 1,
         NEW table, table = string_table_size(Last(s).string_offset),
         NEW size, size = table + Last(s).data_offset,
         NEW total, total = HEADER_SIZE + ENTRY_SIZE * Len(fls) + size, ~(total > ISIZE_MAX)
  PROVE  /\ ArchiveFor([len |-> total, magic |-> PFS0_MAGIC, file_count |-> Len(fls), string_table_size |-> table,
                        entries |-> <<>>, rest |-> [k \in 1..size |-> 0]], s, fls)
         /\ Start = s[1]
<1>. DEFINE m == Len(fls)
            z == [k \in 1..size |-> 0]
            a == [len |-> total, magic |-> PFS0_MAGIC, file_count |-> m, string_table_size |-> table,
                  entries |-> <<>>, rest |-> z]
<1>1. m \in Nat /\ s \in Seq(Offsets) /\ Len(s) = m + 1
  BY LenProperties DEF SumsFor
<1>2. Last(s) = s[m + 1] /\ s[m + 1] \in Offsets
  <2>1. Last(s) = s[m + 1]
    BY <1>1 DEF Last
  <2>2. m + 1 \in 1..Len(s)
    BY <1>1
  <2>. QED
    BY <1>1, <2>1, <2>2, ElementOfSeq
<1>3. table \in Nat /\ size \in Nat
  <2>1. Last(s).string_offset \in Nat /\ Last(s).data_offset \in Nat
    BY <1>2 DEF Offsets
  <2>2. table \in Nat
    BY <2>1, TableSize
  <2>. QED
    BY <2>1, <2>2
<1>4. total \in Nat /\ total >= HEADER_SIZE /\ size =< ISIZE_MAX
  <2>. HIDE DEF m
  <2>1. total = 16 + 24 * m + size /\ ~(total > ISIZE_MAX) /\ ISIZE_MAX \in Nat
    BY BuffersFit DEF HEADER_SIZE, ENTRY_SIZE, m
  <2>. QED
    BY ONLY <1>1, <1>3, <2>1 DEF HEADER_SIZE
<1>5. z \in Seq(Int) /\ Len(z) = size /\ \A i \in 1..size : z[i] = 0
  BY <1>3
<1>6. /\ a.len = total /\ a.file_count = m /\ a.string_table_size = table /\ a.entries = <<>> /\ a.rest = z
      /\ a \in ArchiveBytes
  <2>. HIDE DEF z, m
  <2>1. <<>> \in Seq(Entry)
    OBVIOUS
  <2>. QED
    BY <1>1, <1>3, <1>4, <1>5, <2>1 DEF ArchiveBytes
<1>7. table = string_table_size(s[m + 1].string_offset) /\ size = table + s[m + 1].data_offset
  BY <1>2
<1>. HIDE DEF a, z, m
<1>8. HeaderFor(a, s, fls)
  BY <1>1, <1>4, <1>5, <1>6, <1>7 DEF HeaderFor, m
<1>9. Len(a.entries) = 0
  BY <1>6
<1>10. \A i \in 1..table : z[i] = 0
  <2>. SUFFICES ASSUME NEW i \in 1..table PROVE z[i] = 0
    OBVIOUS
  <2>1. s[m + 1].data_offset \in Nat
    BY <1>2 DEF Offsets
  <2>2. i \in 1..size
    BY <1>3, <1>7, <2>1
  <2>. QED
    BY <1>5, <2>2
<1>11. ArchiveFor(a, s, fls)
  <2>1. Len(a.entries) =< m
    BY <1>1, <1>9
  <2>2. \A k \in 1..Len(a.entries) : FileIn(a, s[k], fls[k], k)
    BY <1>9
  <2>3. \A i \in 1..a.string_table_size : a.rest[i] = 0
    BY <1>6, <1>10
  <2>. QED
    BY <1>8, <2>1, <2>2, <2>3 DEF ArchiveFor, m
<1>12. Start = s[1]
  BY DEF SumsFor
<1>. QED
  BY <1>11, <1>12 DEF a, z, m

\* What one round of the loop makes of the archive.
WithFile(a, o, f) ==
  [len |-> a.len, magic |-> a.magic, file_count |-> a.file_count, string_table_size |-> a.string_table_size,
   entries |-> Append(a.entries, EntryFor(o, f)),
   rest |-> WriteAt(WriteAt(a.rest, o.string_offset, f.name), a.string_table_size + o.data_offset, f.data)]

\* It puts the next file in place and leaves the others where they are.
LEMMA Written ==
  ASSUME NEW fls \in Seq(ArchivedFile), NEW s, NEW a, ArchiveFor(a, s, fls), Len(a.entries) < Len(fls),
         NEW n, n = Len(a.entries) + 1
  PROVE  /\ ArchiveFor(WithFile(a, s[n], fls[n]), s, fls) /\ Len(WithFile(a, s[n], fls[n]).entries) = n
         /\ n + 1 \in 1..(Len(fls) + 1) /\ Past(s[n], fls[n]) = s[n + 1]
<1>. DEFINE f == fls[n]
            o == s[n]
            b == WithFile(a, o, f)
            m == Len(fls)
            t == a.string_table_size
            R == a.rest
            R1 == WriteAt(R, o.string_offset, f.name)
            R2 == WriteAt(R1, t + o.data_offset, f.data)
            E == Append(a.entries, EntryFor(o, f))
            p == o.string_offset
            q == o.data_offset
            g == Len(f.name)
            h == Len(f.data)
<1>1. /\ HeaderFor(a, s, fls) /\ SumsFor(s, fls) /\ a \in ArchiveBytes /\ Len(s) = m + 1
      /\ R \in Seq(Int) /\ a.entries \in Seq(Entry) /\ t \in Nat
  BY DEF ArchiveFor, HeaderFor, ArchiveBytes
<1>2. m \in Nat /\ Len(a.entries) \in Nat /\ n \in 1..m /\ n - 1 = Len(a.entries) /\ n + 1 \in 1..(m + 1) /\ Len(R) \in Nat
  <2>1. m \in Nat /\ Len(a.entries) \in Nat /\ Len(R) \in Nat
    BY <1>1, LenProperties
  <2>. QED
    BY <2>1
<1>3. /\ o \in Offsets /\ f \in ArchivedFile /\ p + g + 1 =< t /\ t + q + h =< Len(R)
  BY <1>1, <1>2, HasRoom
<1>4. /\ p \in Nat /\ q \in Nat /\ g \in Nat /\ h \in Nat /\ f.name \in Seq(Int) /\ f.data \in Seq(Int)
  BY <1>3, FileIs DEF Offsets
<1>. HIDE DEF p, q, g, h, t, m
<1>5. p + g =< Len(R) /\ (t + q) + h =< Len(R) /\ t + q \in Nat /\ p + g < t
  BY ONLY <1>1, <1>2, <1>3, <1>4
<1>6. /\ R1 \in Seq(Int) /\ Len(R1) = Len(R) /\ LiesAt(R1, p, f.name)
      /\ \A i \in 1..Len(R) : i \notin (p + 1)..(p + g) => R1[i] = R[i]
  <2>. HIDE DEF R
  <2>1. R1 = WriteAt(R, p, f.name) /\ p + Len(f.name) =< Len(R) /\ g = Len(f.name)
    BY <1>5 DEF p, g
  <2>. DEFINE N == f.name
              W == WriteAt(R, p, N)
  <2>2. N \in Seq(Int) /\ R \in Seq(Int) /\ p \in Nat /\ p + Len(N) =< Len(R)
    BY <1>1, <1>4, <2>1
  <2>. HIDE DEF N
  <2>3. /\ W \in Seq(Int) /\ Len(W) = Len(R) /\ LiesAt(W, p, N)
        /\ \A i \in 1..Len(R) : i \notin (p + 1)..(p + Len(N)) => W[i] = R[i]
    BY ONLY <2>2, Copied
  <2>4. R1 = W /\ g = Len(N)
    BY <2>1 DEF N
  <2>. HIDE DEF R1, W
  <2>. QED
    BY ONLY <2>3, <2>4 DEF N
<1>. HIDE DEF R1
<1>7. /\ R2 \in Seq(Int) /\ Len(R2) = Len(R) /\ LiesAt(R2, t + q, f.data)
      /\ \A i \in 1..Len(R) : i \notin ((t + q) + 1)..((t + q) + h) => R2[i] = R1[i]
  <2>1. R2 = WriteAt(R1, t + q, f.data) /\ (t + q) + Len(f.data) =< Len(R1) /\ h = Len(f.data)
    BY <1>5, <1>6 DEF q, h
  <2>. DEFINE N == f.data
              W == WriteAt(R1, t + q, N)
  <2>2. N \in Seq(Int) /\ R1 \in Seq(Int) /\ t + q \in Nat /\ (t + q) + Len(N) =< Len(R1)
    BY <1>4, <1>5, <1>6, <2>1
  <2>. HIDE DEF N
  <2>3. /\ W \in Seq(Int) /\ Len(W) = Len(R1) /\ LiesAt(W, t + q, N)
        /\ \A i \in 1..Len(R1) : i \notin ((t + q) + 1)..((t + q) + Len(N)) => W[i] = R1[i]
    BY ONLY <2>2, Copied
  <2>4. R2 = W /\ h = Len(N) /\ Len(R1) = Len(R)
    BY <1>6, <2>1 DEF N
  <2>. HIDE DEF R2, W
  <2>. QED
    BY ONLY <2>3, <2>4 DEF N
<1>8. LiesAt(R2, p, f.name)
  <2>1. p + g =< t + q
    BY ONLY <1>1, <1>4, <1>5
  <2>. QED
    BY <1>4, <1>5, <1>6, <2>1, StaysWritten DEF p, q, g, h
<1>9. /\ EntryFor(o, f) \in Entry /\ E \in Seq(Entry) /\ Len(E) = n /\ E[n] = EntryFor(o, f)
      /\ \A k \in 1..(n - 1) : E[k] = a.entries[k]
  <2>1. EntryFor(o, f) \in Entry
    BY <1>4 DEF EntryFor, Entry, p, q, h
  <2>. QED
    BY <1>1, <1>2, <2>1, AppendProperties
<1>10. /\ b \in ArchiveBytes /\ b.len = a.len /\ b.file_count = a.file_count /\ b.string_table_size = t
       /\ b.entries = E /\ b.rest = R2
  <2>1. b = [len |-> a.len, magic |-> a.magic, file_count |-> a.file_count, string_table_size |-> t, entries |-> E, rest |-> R2]
    BY DEF WithFile, R1, t
  <2>. HIDE DEF E, R2, b
  <2>. QED
    BY <1>1, <1>7, <1>9, <2>1 DEF ArchiveBytes, t
<1>. HIDE DEF E, R2, b
<1>11. HeaderFor(b, s, fls)
  BY <1>1, <1>7, <1>10 DEF HeaderFor, t
<1>12. ASSUME NEW k \in 1..(n - 1) PROVE FileIn(b, s[k], fls[k], k)
  <2>. DEFINE c == s[k].string_offset
              d == s[k].data_offset
              x == Len(fls[k].name)
              y == Len(fls[k].data)
  <2>1. FileIn(a, s[k], fls[k], k)
    BY <1>2 DEF ArchiveFor
  <2>2. k \in 1..Len(s) /\ n \in 1..Len(s) /\ k < n
    BY <1>1, <1>2
  <2>3. s[k] \in Offsets /\ fls[k] \in ArchivedFile /\ c + x + 1 =< p /\ d + y =< q
    BY <1>1, <2>2, FilesApart DEF p, q
  <2>4. c \in Nat /\ d \in Nat /\ x \in Nat /\ y \in Nat /\ fls[k].name \in Seq(Int) /\ fls[k].data \in Seq(Int)
    BY <2>3, FileIs DEF Offsets
  <2>5. E[k] = EntryFor(s[k], fls[k])
    BY <1>9, <2>1 DEF FileIn
  <2>6. LiesAt(R, c, fls[k].name) /\ LiesAt(R, t + d, fls[k].data)
    BY <2>1 DEF FileIn, t
  <2>. HIDE DEF c, d, x, y
  <2>7. c + x =< p /\ c + x =< t + q /\ (t + d) + y =< t + q /\ p + g =< t + d /\ t + d \in Nat
    BY ONLY <1>1, <1>4, <1>5, <2>3, <2>4
  <2>8. LiesAt(R1, c, fls[k].name) /\ LiesAt(R1, t + d, fls[k].data)
    <3>. HIDE DEF R
    <3>1. LiesAt(R1, c, fls[k].name)
      BY <1>1, <1>4, <1>5, <2>4, <2>6, <2>7, StaysWritten DEF R1, p, g, x
    <3>2. LiesAt(R1, t + d, fls[k].data)
      BY <1>1, <1>4, <1>5, <2>4, <2>6, <2>7, StaysWritten DEF R1, p, g
    <3>. QED
      BY <3>1, <3>2
  <2>9. LiesAt(R2, c, fls[k].name) /\ LiesAt(R2, t + d, fls[k].data)
    <3>1. LiesAt(R2, c, fls[k].name)
      BY <1>4, <1>5, <1>6, <2>4, <2>7, <2>8, StaysWritten DEF R2, q, h, x
    <3>2. LiesAt(R2, t + d, fls[k].data)
      BY <1>4, <1>5, <1>6, <2>4, <2>7, <2>8, StaysWritten DEF R2, q, h, y
    <3>. QED
      BY <3>1, <3>2
  <2>. QED
    BY <1>10, <2>5, <2>9 DEF FileIn, c, d
<1>13. FileIn(b, s[n], fls[n], n)
  BY <1>7, <1>8, <1>9, <1>10 DEF FileIn, p, q
<1>14. \A k \in 1..Len(b.entries) : FileIn(b, s[k], fls[k], k)
  <2>. SUFFICES ASSUME NEW k \in 1..Len(b.entries) PROVE FileIn(b, s[k], fls[k], k)
    OBVIOUS
  <2>1. k = n \/ k \in 1..(n - 1)
    BY <1>2, <1>9, <1>10
  <2>. QED
    BY <1>12, <1>13, <2>1
<1>15. ASSUME NEW i \in 1..t, \A k \in 1..Len(b.entries) : ~InSpan(s[k], fls[k], i) PROVE b.rest[i] = 0
  <2>1. i \in 1..Len(R) /\ i \notin ((t + q) + 1)..((t + q) + h)
    BY ONLY <1>1, <1>2, <1>4, <1>5, i \in 1..t
  <2>2. \A k \in 1..n : ~InSpan(s[k], fls[k], i)
    BY <1>9, <1>10, <1>15
  <2>3. i \notin (p + 1)..(p + g)
    BY <1>2, <2>2, SMTT(60) DEF InSpan, p, g
  <2>4. \A k \in 1..Len(a.entries) : ~InSpan(s[k], fls[k], i)
    <3>. SUFFICES ASSUME NEW k \in 1..Len(a.entries) PROVE ~InSpan(s[k], fls[k], i)
      OBVIOUS
    <3>1. k \in 1..n
      BY <1>2
    <3>. QED
      BY <2>2, <3>1
  <2>5. R[i] = 0
    BY <2>4 DEF ArchiveFor, t
  <2>. QED
    BY <1>6, <1>7, <1>10, <2>1, <2>3, <2>5
<1>16. Past(o, f) = s[n + 1]
  <2>1. n \in 1..(Len(s) - 1)
    BY <1>1, <1>2
  <2>. QED
    BY <1>1, <2>1 DEF SumsFor
<1>17. ArchiveFor(b, s, fls)
  <2>1. Len(b.entries) =< Len(fls)
    BY <1>2, <1>9, <1>10 DEF m
  <2>. QED
    BY <1>10, <1>11, <1>14, <1>15, <2>1 DEF ArchiveFor
<1>. QED
  BY <1>2, <1>9, <1>10, <1>16, <1>17 DEF m, b

(***************************************************************************)
(* The whole archive                                                       *)
(***************************************************************************)
Whole(a, s, fls) == ArchiveFor(a, s, fls) /\ Len(a.entries) = Len(fls)

LEMMA WholeIs ==
  ASSUME NEW fls \in Seq(ArchivedFile), NEW s, NEW a, Whole(a, s, fls)
  PROVE  /\ HeaderFor(a, s, fls) /\ SumsFor(s, fls) /\ Typed(a) /\ Len(fls) \in Nat /\ Len(s) = Len(fls) + 1
         /\ a.string_table_size =< Len(a.rest) /\ DOMAIN a.entries = 1..Len(fls) /\ DOMAIN fls = 1..Len(fls)
         /\ \A k \in 1..Len(fls) : /\ FileIn(a, s[k], fls[k], k) /\ a.entries[k] = EntryFor(s[k], fls[k])
                                   /\ EntryFor(s[k], fls[k]) \in Entry
<1>. DEFINE m == Len(fls)
            y == s[m + 1].data_offset
<1>1. /\ HeaderFor(a, s, fls) /\ SumsFor(s, fls) /\ Typed(a) /\ Len(s) = m + 1 /\ Len(a.entries) = m
      /\ \A k \in 1..m : FileIn(a, s[k], fls[k], k)
  BY DEF Whole, ArchiveFor, HeaderFor, ArchiveBytes, Typed
<1>2. m \in Nat /\ DOMAIN fls = 1..m /\ DOMAIN a.entries = 1..m /\ s \in Seq(Offsets)
  BY <1>1, LenProperties DEF Typed, SumsFor
<1>3. y \in Nat
  <2>1. m + 1 \in 1..Len(s)
    BY <1>1, <1>2
  <2>2. s[m + 1] \in Offsets
    BY <1>2, <2>1, ElementOfSeq
  <2>. QED
    BY <2>2 DEF Offsets
<1>4. a.string_table_size =< Len(a.rest)
  <2>1. Len(a.rest) = a.string_table_size + y /\ a.string_table_size \in Nat
    BY <1>1 DEF HeaderFor, Typed
  <2>. HIDE DEF y
  <2>. QED
    BY <1>3, <2>1
<1>5. ASSUME NEW k \in 1..m PROVE EntryFor(s[k], fls[k]) \in Entry /\ a.entries[k] = EntryFor(s[k], fls[k])
  <2>1. a.entries[k] = EntryFor(s[k], fls[k])
    BY <1>1 DEF FileIn
  <2>2. a.entries[k] \in Entry
    BY <1>1, <1>2, ElementOfSeq DEF Typed
  <2>. QED
    BY <2>1, <2>2
<1>. QED
  BY <1>1, <1>2, <1>4, <1>5

\* Every name is followed by a zero, since no name reaches there.
LEMMA Terminated ==
  ASSUME NEW fls \in Seq(ArchivedFile), NEW s, NEW a, Whole(a, s, fls), NEW k \in 1..Len(fls)
  PROVE  a.rest[s[k].string_offset + (Len(fls[k].name) + 1)] = 0
<1>. DEFINE p == s[k].string_offset
            g == Len(fls[k].name)
            i == p + (g + 1)
<1>1. HeaderFor(a, s, fls) /\ SumsFor(s, fls) /\ Len(fls) \in Nat /\ Len(s) = Len(fls) + 1
  BY WholeIs
<1>2. /\ s[k] \in Offsets /\ fls[k] \in ArchivedFile /\ a.string_table_size \in Nat
      /\ p + g + 1 =< a.string_table_size
  BY <1>1, HasRoom
<1>3. p \in Nat /\ g \in Nat
  BY <1>2, FileIs DEF Offsets
<1>4. i \in 1..a.string_table_size
  <2>. HIDE DEF p, g
  <2>. QED
    BY <1>2, <1>3
<1>5. ASSUME NEW j \in 1..Len(fls) PROVE ~InSpan(s[j], fls[j], i)
  <2>. DEFINE x == s[j].string_offset
              y == Len(fls[j].name)
  <2>1. j \in 1..Len(s) /\ k \in 1..Len(s)
    BY <1>1
  <2>2. /\ s[j] \in Offsets /\ fls[j] \in ArchivedFile
    BY <1>1, HasRoom
  <2>3. x \in Nat /\ y \in Nat
    BY <2>2, FileIs DEF Offsets
  <2>4. j < k => x + y + 1 =< p
    BY <1>1, <2>1, FilesApart
  <2>5. k < j => p + g + 1 =< x
    BY <1>1, <2>1, FilesApart
  <2>6. j = k => x = p /\ y = g
    OBVIOUS
  <2>7. j < k \/ j = k \/ k < j
    BY <1>1
  <2>. HIDE DEF p, g, x, y
  <2>8. ~(p + (g + 1) \in (x + 1)..(x + y))
    BY ONLY <1>3, <2>3, <2>4, <2>5, <2>6, <2>7
  <2>. QED
    BY <2>8 DEF InSpan, x, y
<1>. HIDE DEF i
<1>6. a.rest[i] = 0
  BY <1>4, <1>5 DEF Whole, ArchiveFor
<1>. QED
  BY <1>6 DEF i, p, g

\* try_from_bytes accepts what build returns.
LEMMA WholeAccepted ==
  ASSUME NEW fls \in Seq(ArchivedFile), NEW s, NEW a, Whole(a, s, fls)
  PROVE  HeaderError(a) = "none"
<1>1. /\ HeaderFor(a, s, fls) /\ SumsFor(s, fls) /\ Typed(a) /\ Len(fls) \in Nat /\ Len(s) = Len(fls) + 1
      /\ a.string_table_size =< Len(a.rest) /\ DOMAIN a.entries = 1..Len(fls)
      /\ \A k \in 1..Len(fls) : /\ FileIn(a, s[k], fls[k], k) /\ a.entries[k] = EntryFor(s[k], fls[k])
                                /\ EntryFor(s[k], fls[k]) \in Entry
  BY WholeIs
<1>2. Len(a.entries) = Len(fls)
  BY DEF Whole
<1>3. ASSUME NEW k \in DOMAIN a.entries PROVE EntryError(a, a.entries[k]) = "none"
  <2>. DEFINE e == a.entries[k]
              p == s[k].string_offset
              q == s[k].data_offset
              g == Len(fls[k].name)
              h == Len(fls[k].data)
              t == a.string_table_size
  <2>1. k \in 1..Len(fls) /\ e = EntryFor(s[k], fls[k]) /\ e \in Entry
    BY <1>1
  <2>2. /\ s[k] \in Offsets /\ fls[k] \in ArchivedFile /\ t \in Nat /\ a.rest \in Seq(Int)
        /\ p + g + 1 =< t /\ t + q + h =< Len(a.rest)
    BY <1>1, <2>1, HasRoom
  <2>3. p \in Nat /\ q \in Nat /\ g \in Nat /\ h \in Nat /\ Len(a.rest) \in Nat
    BY <2>2, FileIs, LenProperties DEF Offsets
  <2>4. e.offset = q /\ e.size = h /\ e.string_table_offset = p
    BY <2>1 DEF EntryFor
  <2>5. a.rest[p + (g + 1)] = 0
    BY <2>1, Terminated
  <2>6. Len(a.rest) =< ISIZE_MAX /\ ISIZE_MAX \in Nat /\ ISIZE_MAX =< USIZE_MAX /\ USIZE_MAX \in Nat
    BY <1>1, BuffersFit, UsizeAssumption DEF HeaderFor
  <2>. HIDE DEF e, p, q, g, h, t
  <2>7. p =< t /\ q + h =< USIZE_MAX /\ p + (g + 1) \in (p + 1)..t /\ t + q + h =< Len(a.rest)
    BY ONLY <2>2, <2>3, <2>6
  <2>8. Inside(a, e)
    BY <2>3, <2>4, <2>5, <2>7 DEF Inside, t
  <2>. QED
    BY <1>1, <2>1, <2>4, <2>7, <2>8, EntryInside DEF e
<1>4. a.len \in Nat /\ a.len >= PFS0_HEADER_SIZE /\ a.magic = HEADER_MAGIC /\ a.file_count = Len(a.entries)
  BY <1>1, <1>2 DEF HeaderFor, ArchiveBytes, PFS0_HEADER_SIZE, HEADER_SIZE, HEADER_MAGIC, PFS0_MAGIC
<1>. QED
  BY <1>1, <1>3, <1>4, Accepted

\* Each file is read back from where its entry points.
LEMMA ReadBack ==
  ASSUME NEW fls \in Seq(ArchivedFile), NEW s, Whole(arc, s, fls), NEW k \in 1..Len(fls)
  PROVE  /\ Resolvable(arc.entries[k])
         /\ NameAt(arc.entries[k]) = fls[k].name /\ DataAt(arc.entries[k]) = fls[k].data
<1>. DEFINE e == arc.entries[k]
            p == s[k].string_offset
            q == s[k].data_offset
            g == Len(fls[k].name)
            h == Len(fls[k].data)
            t == arc.string_table_size
            D == DataRegion(arc)
<1>1. /\ HeaderFor(arc, s, fls) /\ Typed(arc) /\ t =< Len(arc.rest)
      /\ FileIn(arc, s[k], fls[k], k) /\ e = EntryFor(s[k], fls[k]) /\ e \in Entry
  BY WholeIs
<1>2. /\ s[k] \in Offsets /\ fls[k] \in ArchivedFile /\ t \in Nat /\ arc.rest \in Seq(Int)
      /\ p + g + 1 =< t /\ t + q + h =< Len(arc.rest)
  BY <1>1, HasRoom
<1>3. /\ p \in Nat /\ q \in Nat /\ g \in Nat /\ h \in Nat /\ Len(arc.rest) \in Nat
      /\ fls[k].name \in UTF8 /\ 0 \notin ToSet(fls[k].name) /\ fls[k].data \in Seq(Int)
  BY <1>2, FileIs, LenProperties DEF Offsets
<1>4. e.offset = q /\ e.size = h /\ e.string_table_offset = p
  BY <1>1 DEF EntryFor
<1>5. arc.rest[p + (g + 1)] = 0
  BY Terminated
<1>6. LiesAt(arc.rest, p, fls[k].name) /\ LiesAt(arc.rest, t + q, fls[k].data)
  BY <1>1 DEF FileIn
<1>. HIDE DEF e, p, q, g, h, t
<1>7. p + g < t /\ p =< t /\ t + q + h =< Len(arc.rest) /\ q + h =< Len(arc.rest) - t
  BY ONLY <1>2, <1>3
<1>8. Resolvable(e)
  BY <1>4, <1>7 DEF Resolvable, t
<1>9. NameAt(e) = fls[k].name
  BY <1>1, <1>3, <1>4, <1>5, <1>6, <1>7, NameAtIs DEF t, g
<1>10. D \in Seq(Int) /\ Len(D) = Len(arc.rest) - t /\ \A i \in 1..(Len(arc.rest) - t) : D[i] = arc.rest[t + i]
  BY <1>1, Regions DEF t
<1>. HIDE DEF D
<1>11. LiesAt(D, q, fls[k].data)
  <2>1. ASSUME NEW i \in 1..h PROVE D[q + i] = fls[k].data[i]
    <3>1. q + i \in 1..(Len(arc.rest) - t) /\ t + (q + i) = (t + q) + i
      BY ONLY <1>2, <1>3, <1>7, i \in 1..h
    <3>2. arc.rest[(t + q) + i] = fls[k].data[i]
      BY <1>6 DEF LiesAt, h
    <3>. QED
      BY <1>10, <3>1, <3>2
  <2>. QED
    BY <1>3, <1>7, <1>10, <2>1 DEF LiesAt, h
<1>12. SubSeq(D, q + 1, q + Len(fls[k].data)) = fls[k].data
  BY <1>3, <1>10, <1>11, SliceIs
<1>13. DataAt(e) = fls[k].data
  BY <1>4, <1>12 DEF DataAt, D, h
<1>. QED
  BY <1>8, <1>9, <1>13 DEF e

(***************************************************************************)
(* The builder's files                                                     *)
(***************************************************************************)
FilesGood(fls) ==
  /\ fls \in Seq(ArchivedFile)
  /\ \A i, j \in DOMAIN fls : fls[i].name = fls[j].name => i = j

InOrder(fls) == \A j, k \in DOMAIN fls : j < k => NameLess(fls[j].name, fls[k].name)

\* What read_dir returns, once it is known to be UTF-8.
RawFile == [name : UTF8, data : Seq(Int)]

LEMMA GoodName ==
  ASSUME NEW fls, NEW name
  PROVE  /\ AddFileError(fls, name) # "none" => AddFileError(fls, name) \in BuilderErrors
         /\ AddFileError(fls, name) = "none" =>
              name # <<>> /\ NUL \notin ToSet(name) /\ \A i \in DOMAIN fls : fls[i].name # name
<1>1. \/ name # <<>> /\ {NUL, SLASH, BACKSLASH} \intersect ToSet(name) = {} /\ ~(\E i \in DOMAIN fls : fls[i].name = name)
      \/ AddFileError(fls, name) \in {"EmptyFileName", "InvalidFileName", "DuplicateFile"}
  BY DEF AddFileError
<1>. QED
  BY <1>1 DEF AddFileError, BuilderErrors

\* add_file keeps names valid and distinct.
LEMMA AddOne ==
  ASSUME NEW fls, FilesGood(fls), NEW name \in UTF8, NEW data \in Seq(Int), AddFileError(fls, name) = "none"
  PROVE  /\ FilesGood(Append(fls, File(name, data)))
         /\ ToSet(Append(fls, File(name, data))) = ToSet(fls) \union {File(name, data)}
<1>. DEFINE f == File(name, data)
            u == Append(fls, f)
            n == Len(fls)
<1>1. name # <<>> /\ NUL \notin ToSet(name) /\ \A i \in DOMAIN fls : fls[i].name # name
  BY GoodName
<1>2. f \in ArchivedFile /\ f.name = name
  BY <1>1 DEF ArchivedFile, File
<1>3. fls \in Seq(ArchivedFile) /\ n \in Nat /\ DOMAIN fls = 1..n
  BY LenProperties DEF FilesGood
<1>. HIDE DEF f
<1>4. u \in Seq(ArchivedFile) /\ Len(u) = n + 1 /\ u[n + 1] = f /\ \A k \in 1..n : u[k] = fls[k]
  BY <1>2, <1>3, AppendProperties
<1>5. DOMAIN u = 1..(n + 1)
  BY <1>4, LenProperties
<1>. HIDE DEF u, n
<1>6. \A i \in 1..(n + 1) : i \in 1..n \/ i = n + 1
  BY <1>3
<1>7. n + 1 \in 1..(n + 1) /\ \A i \in 1..n : i \in 1..(n + 1)
  BY <1>3
<1>8. ASSUME NEW i \in DOMAIN u, NEW j \in DOMAIN u, u[i].name = u[j].name PROVE i = j
  <2>1. CASE i \in 1..n /\ j \in 1..n
    BY <1>3, <1>4, <1>8, <2>1 DEF FilesGood
  <2>2. CASE i \in 1..n /\ j = n + 1
    BY <1>1, <1>2, <1>3, <1>4, <1>8, <2>2
  <2>3. CASE i = n + 1 /\ j \in 1..n
    BY <1>1, <1>2, <1>3, <1>4, <1>8, <2>3
  <2>. QED
    BY <1>5, <1>6, <2>1, <2>2, <2>3
<1>9. FilesGood(u)
  BY <1>4, <1>8 DEF FilesGood
<1>10. ToSet(u) = ToSet(fls) \union {f}
  <2>1. ToSet(u) = {u[i] : i \in 1..(n + 1)} /\ ToSet(fls) = {fls[i] : i \in 1..n}
    BY <1>3, <1>5 DEF ToSet
  <2>. QED
    BY <1>4, <1>6, <1>7, <2>1
<1>. QED
  BY <1>9, <1>10 DEF u, f

\* The sort loses no file, and orders them.
LEMMA SortKeeps ==
  ASSUME NEW fls, FilesGood(fls)
  PROVE  LET sorted == Remap(SortedBy(NamesOf(fls)), fls)
         IN  FilesGood(sorted) /\ InOrder(sorted) /\ ToSet(sorted) = ToSet(fls) /\ DOMAIN sorted = DOMAIN fls /\ Len(sorted) = Len(fls)
<1>. DEFINE sorted == Remap(SortedBy(NamesOf(fls)), fls)
<1>1. fls \in Seq(ArchivedFile) /\ (\A f \in ArchivedFile : f.name \in Seq(Int))
      /\ (\A i, j \in DOMAIN fls : fls[i].name = fls[j].name => i = j)
  BY FileIs DEF FilesGood
<1>2. /\ sorted \in Seq(ArchivedFile) /\ Len(sorted) = Len(fls) /\ DOMAIN sorted = DOMAIN fls /\ ToSet(sorted) = ToSet(fls)
      /\ \A j, k \in DOMAIN sorted : j < k => NameLess(sorted[j].name, sorted[k].name)
  BY <1>1, SortedIs, Zenon
<1>. HIDE DEF sorted
<1>3. ASSUME NEW i \in DOMAIN sorted, NEW j \in DOMAIN sorted, sorted[i].name = sorted[j].name, i # j PROVE FALSE
  <2>1. DOMAIN sorted = 1..Len(sorted) /\ Len(sorted) \in Nat
    BY <1>2, LenProperties
  <2>2. i < j \/ j < i
    BY <1>3, <2>1
  <2>3. NameLess(sorted[i].name, sorted[i].name)
    BY <1>2, <1>3, <2>2
  <2>4. sorted[i] \in ArchivedFile
    BY <1>2, <2>1, ElementOfSeq
  <2>5. sorted[i].name \in Seq(Int)
    BY <1>1, <2>4
  <2>. QED
    BY <2>3, <2>5, NamesOrdered
<1>4. FilesGood(sorted)
  BY <1>2, <1>3 DEF FilesGood
<1>. QED
  BY <1>2, <1>4 DEF sorted, InOrder

LEMMA EarlierFile ==
  ASSUME NEW T, NEW u \in Seq(T), NEW i \in 1..Len(u), NEW j \in 1..(i - 1)
  PROVE  j \in DOMAIN SubSeq(u, 1, i - 1) /\ SubSeq(u, 1, i - 1)[j] = u[j]
<1>. DEFINE n == i - 1
            v == SubSeq(u, 1, n)
<1>1. Len(u) \in Nat /\ i \in Nat /\ n \in Nat /\ n =< Len(u) /\ j \in 1..n
  BY LenProperties
<1>2. \A k \in 1..n : u[k] \in T
  <2>. SUFFICES ASSUME NEW k \in 1..n PROVE u[k] \in T
    OBVIOUS
  <2>1. k \in 1..Len(u)
    BY <1>1
  <2>. QED
    BY <2>1, ElementOfSeq
<1>. HIDE DEF n
<1>3. /\ v \in Seq(T) /\ Len(v) = IF 1 =< n THEN n - 1 + 1 ELSE 0
      /\ \A k \in 1..(n - 1 + 1) : v[k] = u[1 + k - 1]
  BY ONLY <1>1, <1>2, u \in Seq(T), SubSeqProperties
<1>. HIDE DEF v
<1>4. Len(v) = n /\ j \in 1..(n - 1 + 1) /\ 1 + j - 1 = j
  BY ONLY <1>1, <1>3
<1>5. j \in DOMAIN v /\ v[j] = u[j]
  BY <1>1, <1>3, <1>4, LenProperties
<1>. QED
  BY <1>5 DEF v, n

\* A scan that add_file refused no file of has valid, distinct names.
LEMMA AddAll ==
  ASSUME NEW sorted \in Seq(RawFile),
         SelectInSeq([i \in DOMAIN sorted |-> i],
                     LAMBDA i : AddFileError(SubSeq(sorted, 1, i - 1), sorted[i].name) # "none") = 0
  PROVE  FilesGood(sorted)
<1>. DEFINE n == Len(sorted)
            T(i) == AddFileError(SubSeq(sorted, 1, i - 1), sorted[i].name) # "none"
            ids == [i \in DOMAIN sorted |-> i]
            I == {i \in 1..Len(ids) : T(ids[i])}
<1>1. n \in Nat /\ DOMAIN sorted = 1..n
  BY LenProperties
<1>2. ids \in Seq(Nat) /\ Len(ids) = n /\ \A i \in 1..n : ids[i] = i
  BY <1>1
<1>3. FirstOf(I) = 0
  <2>1. SelectInSeq(ids, T) = FirstOf(I)
    BY DEF SelectInSeq, FirstOf
  <2>. QED
    BY <2>1
<1>4. I = {}
  <2>1. I \in SUBSET (1..n)
    BY <1>2
  <2>. HIDE DEF I, n
  <2>. QED
    BY <1>1, <1>3, <2>1, FirstIs
<1>5. ASSUME NEW i \in 1..n PROVE AddFileError(SubSeq(sorted, 1, i - 1), sorted[i].name) = "none"
  <2>1. i \notin I
    BY <1>4
  <2>. QED
    BY <1>2, <2>1
<1>6. ASSUME NEW i \in 1..n
      PROVE  /\ sorted[i].name # <<>> /\ NUL \notin ToSet(sorted[i].name)
             /\ \A j \in DOMAIN SubSeq(sorted, 1, i - 1) : SubSeq(sorted, 1, i - 1)[j].name # sorted[i].name
  BY <1>5, GoodName
<1>7. \A i \in 1..n : sorted[i] \in ArchivedFile
  <2>. SUFFICES ASSUME NEW i \in 1..n PROVE sorted[i] \in ArchivedFile
    OBVIOUS
  <2>1. sorted[i] \in RawFile
    BY ElementOfSeq
  <2>. QED
    BY <1>6, <2>1 DEF ArchivedFile, RawFile
<1>8. sorted \in Seq(ArchivedFile)
  <2>1. sorted \in [1..n -> ArchivedFile]
    BY <1>1, <1>7
  <2>. QED
    BY <1>1, <2>1
<1>9. ASSUME NEW i \in 1..n, NEW j \in 1..(i - 1) PROVE sorted[j].name # sorted[i].name
  BY <1>6, EarlierFile
<1>10. ASSUME NEW i \in DOMAIN sorted, NEW j \in DOMAIN sorted, sorted[i].name = sorted[j].name PROVE i = j
  <2>1. i \in 1..n /\ j \in 1..n
    BY <1>1
  <2>2. i = j \/ j \in 1..(i - 1) \/ i \in 1..(j - 1)
    BY <1>1, <2>1
  <2>. QED
    BY <1>9, <1>10, <2>1, <2>2
<1>. QED
  BY <1>8, <1>10 DEF FilesGood

\* The file a scan stops at is one add_file refuses.
LEMMA Refused ==
  ASSUME NEW sorted \in Seq(RawFile),
         SelectInSeq([i \in DOMAIN sorted |-> i],
                     LAMBDA i : AddFileError(SubSeq(sorted, 1, i - 1), sorted[i].name) # "none") # 0
  PROVE  LET bad == SelectInSeq([i \in DOMAIN sorted |-> i],
                                LAMBDA i : AddFileError(SubSeq(sorted, 1, i - 1), sorted[i].name) # "none")
         IN  AddFileError(SubSeq(sorted, 1, bad - 1), sorted[bad].name) \in BuilderErrors
<1>. DEFINE n == Len(sorted)
            T(i) == AddFileError(SubSeq(sorted, 1, i - 1), sorted[i].name) # "none"
            ids == [i \in DOMAIN sorted |-> i]
            I == {i \in 1..Len(ids) : T(ids[i])}
            bad == SelectInSeq(ids, T)
<1>1. n \in Nat /\ DOMAIN sorted = 1..n
  BY LenProperties
<1>2. Len(ids) = n /\ \A i \in 1..n : ids[i] = i
  BY <1>1
<1>3. bad = FirstOf(I) /\ bad # 0
  BY DEF SelectInSeq, FirstOf
<1>4. I = {i \in 1..n : T(i)}
  BY <1>2
<1>5. T(bad)
  <2>. HIDE DEF I, n, bad, T
  <2>1. I \in SUBSET (1..n)
    BY <1>4
  <2>2. bad \in I
    BY <1>1, <1>3, <2>1, FirstIs
  <2>. QED
    BY <1>4, <2>2
<1>6. AddFileError(SubSeq(sorted, 1, bad - 1), sorted[bad].name) \in BuilderErrors
  <2>. HIDE DEF bad
  <2>. QED
    BY <1>5, GoodName
<1>. QED
  BY <1>6

(***************************************************************************)
(* The inductive invariant                                                 *)
(***************************************************************************)
Scanning ==
  phase = "scan" =>
    /\ files = <<>> /\ scanned \in Seq(RawFile)
    /\ \A e \in listing : e.utf8 => e.name \in UTF8 /\ e.data \in Seq(Int)

\* The builder's vector is good, and stored is the set of what it holds.
Building ==
  /\ FilesGood(files) /\ stored = ToSet(files)
  /\ phase = "sum" => InOrder(files) /\ SumsFor(sums, files)
  /\ phase = "write" => InOrder(files) /\ ArchiveFor(archive, sums, files) /\ at = sums[Len(archive.entries) + 1]
  /\ phase = "built" => InOrder(files) /\ Whole(archive, sums, files)

\* The reader reads the built archive, or a foreign one before any file was added.
Reading ==
  /\ rpc = "none" => result = NoResult
  /\ rpc = "ready" => result = NoResult /\ Typed(arc) /\ HeaderError(arc) = "none"
  /\ rpc # "none" => (phase = "built" /\ arc = archive) \/ (phase = "add" /\ files = <<>>)
  /\ result.status # "panic"

IInv == Scanning /\ Building /\ Reading

LEMMA InitInv ==
  Init => IInv
<1>. SUFFICES ASSUME Init PROVE IInv
  OBVIOUS
<1>1. files = <<>> /\ scanned = <<>> /\ stored = {} /\ rpc = "none" /\ result = NoResult
  BY DEF Init, BInit, RInit
<1>2. (phase = "add" /\ listing = {}) \/ (phase = "scan" /\ listing \in Directories)
  BY DEF Init, BInit
<1>3. Scanning
  BY <1>1, <1>2, FilesSupplied DEF Scanning
<1>4. Building
  <2>1. FilesGood(files) /\ ToSet(files) = {}
    BY <1>1 DEF FilesGood, ToSet
  <2>. QED
    BY <1>1, <1>2, <2>1 DEF Building
<1>5. Reading
  BY <1>1 DEF Reading, NoResult
<1>. QED
  BY <1>3, <1>4, <1>5 DEF IInv

\* Before anything is read, an action of the builder has the reader's part for free.
LEMMA NotReading ==
  ASSUME IInv, rpc = "none", UNCHANGED rVars
  PROVE  Reading'
  BY DEF IInv, Reading, rVars

LEMMA FailStep ==
  ASSUME IInv, rpc = "none", UNCHANGED rVars, NEW error \in BuilderErrors, BFail(error)
  PROVE  IInv'
<1>1. phase' \notin {"add", "scan", "sum", "write", "built"} /\ files' = files /\ stored' = stored
  BY DEF BFail, BuilderErrors
<1>2. Scanning' /\ Building'
  BY <1>1 DEF IInv, Scanning, Building
<1>. QED
  BY <1>2, NotReading DEF IInv

LEMMA AddFileStep ==
  ASSUME IInv, rpc = "none", UNCHANGED rVars, NEW name \in Names, NEW data \in Contents, AddFile(name, data)
  PROVE  IInv'
<1>1. CASE AddFileError(files, name) # "none"
  <2>1. BFail(AddFileError(files, name))
    BY <1>1 DEF AddFile
  <2>. QED
    BY <1>1, <2>1, GoodName, FailStep
<1>2. CASE AddFileError(files, name) = "none"
  <2>1. /\ phase = "add" /\ phase' = "add" /\ files' = Append(files, File(name, data))
        /\ stored' = stored \union {File(name, data)}
    BY <1>2 DEF AddFile
  <2>2. name \in UTF8 /\ data \in Seq(Int)
    BY FilesSupplied
  <2>3. FilesGood(files') /\ ToSet(files') = ToSet(files) \union {File(name, data)}
    BY <1>2, <2>1, <2>2, AddOne DEF IInv, Building
  <2>4. Building'
    BY <2>1, <2>3 DEF IInv, Building
  <2>5. Scanning'
    BY <2>1 DEF Scanning
  <2>. QED
    BY <2>4, <2>5, NotReading DEF IInv
<1>. QED
  BY <1>1, <1>2

LEMMA ScanStep ==
  ASSUME IInv, rpc = "none", UNCHANGED rVars, NEW e \in listing, ScanEntry(e)
  PROVE  IInv'
<1>1. phase = "scan" /\ phase' \in {"scan", "InvalidUtf8"} /\ listing' \in SUBSET listing /\ files' = files /\ stored' = stored
  BY DEF ScanEntry
<1>2. Building'
  BY <1>1 DEF IInv, Building
<1>3. scanned' \in Seq(RawFile) /\ scanned \in Seq(RawFile)
  <2>1. scanned \in Seq(RawFile) /\ (e.utf8 => e.name \in UTF8 /\ e.data \in Seq(Int))
    BY <1>1 DEF IInv, Scanning
  <2>2. CASE e.utf8 /\ e.regular
    <3>1. scanned' = Append(scanned, File(e.name, e.data))
      BY <2>2 DEF ScanEntry
    <3>2. File(e.name, e.data) \in RawFile
      BY <2>1, <2>2 DEF File, RawFile
    <3>. QED
      BY <2>1, <3>1, <3>2, AppendProperties
  <2>3. CASE ~(e.utf8 /\ e.regular)
    BY <2>1, <2>3 DEF ScanEntry
  <2>. QED
    BY <2>1, <2>2, <2>3
<1>4. Scanning'
  BY <1>1, <1>3 DEF IInv, Scanning
<1>. QED
  BY <1>2, <1>4, NotReading DEF IInv

LEMMA ScanDoneStep ==
  ASSUME IInv, rpc = "none", UNCHANGED rVars, ScanDone
  PROVE  IInv'
<1>. DEFINE sorted == Remap(SortedBy(NamesOf(scanned)), scanned)
            bad == SelectInSeq([i \in DOMAIN sorted |-> i],
                               LAMBDA i : AddFileError(SubSeq(sorted, 1, i - 1), sorted[i].name) # "none")
<1>1. phase = "scan" /\ scanned \in Seq(RawFile) /\ listing = {}
  BY DEF ScanDone, IInv, Scanning
<1>2. sorted \in Seq(RawFile)
  <2>1. \A f \in RawFile : f.name \in Seq(Int)
    BY DEF RawFile, UTF8
  <2>. QED
    BY <1>1, <2>1, SortedIs, Zenon
<1>3. \/ bad # 0 /\ BFail(AddFileError(SubSeq(sorted, 1, bad - 1), sorted[bad].name))
      \/ /\ bad = 0 /\ files' = sorted /\ stored' = ToSet(sorted) /\ phase' = "add"
  BY DEF ScanDone
<1>4. CASE bad = 0
  <2>1. FilesGood(sorted)
    <3>. HIDE DEF sorted
    <3>. QED
      BY <1>2, <1>4, AddAll
  <2>. HIDE DEF sorted, bad
  <2>2. Building'
    BY <1>3, <1>4, <2>1 DEF Building
  <2>3. Scanning'
    BY <1>3, <1>4 DEF Scanning
  <2>. QED
    BY <2>2, <2>3, NotReading DEF IInv
<1>5. CASE bad # 0
  <2>1. AddFileError(SubSeq(sorted, 1, bad - 1), sorted[bad].name) \in BuilderErrors
    <3>. HIDE DEF sorted
    <3>. QED
      BY <1>2, <1>5, Refused
  <2>. HIDE DEF sorted, bad
  <2>. QED
    BY <1>3, <1>5, <2>1, FailStep
<1>. QED
  BY <1>4, <1>5

LEMMA BuildStep ==
  ASSUME IInv, rpc = "none", UNCHANGED rVars, Build
  PROVE  IInv'
<1>. DEFINE sorted == Remap(SortedBy(NamesOf(files)), files)
<1>1. phase' = "sum" /\ files' = sorted /\ sums' = <<Start>> /\ stored' = stored
  BY DEF Build
<1>2. FilesGood(sorted) /\ InOrder(sorted) /\ ToSet(sorted) = ToSet(files)
  BY SortKeeps, Zenon DEF IInv, Building
<1>. HIDE DEF sorted
<1>3. SumsFor(<<Start>>, sorted)
  <2>1. Len(sorted) \in Nat
    BY <1>2, LenProperties DEF FilesGood
  <2>2. Start \in Offsets /\ Start.string_offset = 0 /\ Start.data_offset = 0
    BY DEF Start, Offsets
  <2>3. <<Start>> \in Seq(Offsets) /\ Len(<<Start>>) = 1 /\ <<Start>>[1] = Start
    BY <2>2
  <2>. QED
    BY <2>1, <2>2, <2>3 DEF SumsFor
<1>4. Building'
  BY <1>1, <1>2, <1>3 DEF IInv, Building
<1>5. Scanning'
  BY <1>1 DEF Scanning
<1>. QED
  BY <1>4, <1>5, NotReading DEF IInv

LEMMA AddUpStep ==
  ASSUME IInv, rpc = "none", UNCHANGED rVars, AddUp
  PROVE  IInv'
<1>1. /\ phase = "sum" /\ phase' = "sum" /\ files' = files /\ stored' = stored /\ Len(sums) =< Len(files)
      /\ sums' = Append(sums, Past(Last(sums), files[Len(sums)]))
  BY DEF AddUp
<1>2. SumsFor(sums', files)
  BY <1>1, AddedUp DEF IInv, Building, FilesGood
<1>3. Building'
  BY <1>1, <1>2 DEF IInv, Building
<1>4. Scanning'
  BY <1>1 DEF Scanning
<1>. QED
  BY <1>3, <1>4, NotReading DEF IInv

LEMMA AllocateStep ==
  ASSUME IInv, rpc = "none", UNCHANGED rVars, Allocate
  PROVE  IInv'
<1>. DEFINE table == string_table_size(Last(sums).string_offset)
            size == table + Last(sums).data_offset
            total == HEADER_SIZE + ENTRY_SIZE * Len(files) + size
            a == [len |-> total, magic |-> PFS0_MAGIC, file_count |-> Len(files), string_table_size |-> table,
                  entries |-> <<>>, rest |-> [k \in 1..size |-> 0]]
<1>1. phase = "sum" /\ Len(sums) > Len(files) /\ SumsFor(sums, files) /\ InOrder(files) /\ files \in Seq(ArchivedFile)
  BY DEF Allocate, IInv, Building, FilesGood
<1>2. CASE total > ISIZE_MAX
  <2>1. BFail("CapacityOverflow")
    BY <1>2 DEF Allocate
  <2>2. "CapacityOverflow" \in BuilderErrors
    BY DEF BuilderErrors
  <2>. QED
    BY <2>1, <2>2, FailStep
<1>3. CASE ~(total > ISIZE_MAX)
  <2>1. /\ archive' = a /\ at' = Start /\ phase' = "write" /\ files' = files /\ sums' = sums /\ stored' = stored
    BY <1>3 DEF Allocate
  <2>2. Len(sums) = Len(files) + 1
    <3>1. Len(files) \in Nat /\ Len(sums) \in 1..(Len(files) + 1)
      BY <1>1, LenProperties DEF SumsFor
    <3>. QED
      BY <1>1, <3>1
  <2>3. ArchiveFor(a, sums, files) /\ Start = sums[1]
    <3>. HIDE DEF table
    <3>1. table = string_table_size(Last(sums).string_offset)
      BY DEF table
    <3>. HIDE DEF size
    <3>2. size = table + Last(sums).data_offset
      BY DEF size
    <3>. HIDE DEF total
    <3>3. total = HEADER_SIZE + ENTRY_SIZE * Len(files) + size
      BY DEF total
    <3>. QED
      BY <1>1, <1>3, <2>2, <3>1, <3>2, <3>3, Allocated
  <2>4. Len(a.entries) + 1 = 1
    OBVIOUS
  <2>. HIDE DEF a, total
  <2>5. Building'
    BY <1>1, <2>1, <2>3, <2>4 DEF IInv, Building
  <2>6. Scanning'
    BY <2>1 DEF Scanning
  <2>. QED
    BY <2>5, <2>6, NotReading DEF IInv
<1>. QED
  BY <1>2, <1>3

LEMMA WriteStep ==
  ASSUME IInv, rpc = "none", UNCHANGED rVars, WriteFile
  PROVE  IInv'
<1>. DEFINE n == Len(archive.entries) + 1
            f == files[n]
            o == sums[n]
<1>1. /\ phase = "write" /\ phase' = "write" /\ Len(archive.entries) < Len(files)
      /\ files' = files /\ sums' = sums /\ stored' = stored
  BY DEF WriteFile
<1>2. InOrder(files) /\ ArchiveFor(archive, sums, files) /\ at = o /\ files \in Seq(ArchivedFile)
  BY <1>1 DEF IInv, Building, FilesGood
<1>3. archive' = WithFile(archive, o, f) /\ at' = Past(o, f)
  <2>. DEFINE entries == Append(archive.entries, EntryFor(o, f))
              rest == WriteAt(WriteAt(archive.rest, o.string_offset, f.name),
                              archive.string_table_size + o.data_offset, f.data)
  <2>1. archive' = [archive EXCEPT !.entries = Append(@, EntryFor(o, f)), !.rest = rest] /\ at' = Past(o, f)
    BY <1>2 DEF WriteFile, EntryFor
  <2>. HIDE DEF n, f, o, rest
  <2>2. archive' = [archive EXCEPT !.entries = entries, !.rest = rest]
    BY <2>1
  <2>3. archive \in ArchiveBytes
    BY <1>2 DEF ArchiveFor, HeaderFor
  <2>. HIDE DEF entries
  <2>4. archive' = [len |-> archive.len, magic |-> archive.magic, file_count |-> archive.file_count,
                    string_table_size |-> archive.string_table_size, entries |-> entries, rest |-> rest]
    BY <2>2, <2>3 DEF ArchiveBytes
  <2>. QED
    BY <2>1, <2>4 DEF WithFile, entries, rest
<1>4. ArchiveFor(archive', sums, files) /\ Len(archive'.entries) = n /\ Past(o, f) = sums[n + 1]
  <2>1. n = Len(archive.entries) + 1
    OBVIOUS
  <2>. HIDE DEF n
  <2>2. /\ ArchiveFor(WithFile(archive, o, f), sums, files) /\ Len(WithFile(archive, o, f).entries) = n
        /\ Past(o, f) = sums[n + 1]
    BY <1>1, <1>2, <2>1, Written, SMTT(60)
  <2>. QED
    BY <1>3, <2>2
<1>5. Building'
  BY <1>1, <1>2, <1>3, <1>4 DEF IInv, Building
<1>6. Scanning'
  BY <1>1 DEF Scanning
<1>. QED
  BY <1>5, <1>6, NotReading DEF IInv

LEMMA ReturnStep ==
  ASSUME IInv, rpc = "none", UNCHANGED rVars, BuildReturns
  PROVE  IInv'
<1>1. /\ phase = "write" /\ phase' = "built" /\ Len(archive.entries) = Len(files)
      /\ files' = files /\ sums' = sums /\ stored' = stored /\ archive' = archive
  BY DEF BuildReturns
<1>2. Building'
  BY <1>1 DEF IInv, Building, Whole
<1>3. Scanning'
  BY <1>1 DEF Scanning
<1>. QED
  BY <1>2, <1>3, NotReading DEF IInv

LEMMA BuilderStep ==
  ASSUME IInv, rpc = "none", UNCHANGED rVars, BNext
  PROVE  IInv'
<1>1. CASE IoFails
  <2>1. BFail("Io") /\ "Io" \in BuilderErrors
    BY <1>1 DEF IoFails, BuilderErrors
  <2>. QED
    BY <2>1, FailStep
<1>. QED
  BY <1>1, AddFileStep, ScanStep, ScanDoneStep, BuildStep, AddUpStep, AllocateStep, WriteStep, ReturnStep DEF BNext

(***************************************************************************)
(* The reader's steps                                                      *)
(***************************************************************************)
LEMMA OpenStep ==
  ASSUME IInv, NEW a, TryFromBytes(a), UNCHANGED bVars, Typed(a),
         (phase = "built" /\ a = archive) \/ (phase = "add" /\ files = <<>>)
  PROVE  IInv'
<1>1. /\ rpc = "none" /\ arc' = a /\ result = NoResult
      /\ \/ HeaderError(a) = "none" /\ rpc' = "ready" /\ result' = NoResult
         \/ rpc' = "done" /\ result'.status = "err"
  BY DEF TryFromBytes, IInv, Reading
<1>2. phase' = phase /\ files' = files /\ archive' = archive
  BY DEF bVars
<1>3. Scanning' /\ Building'
  BY DEF IInv, Scanning, Building, bVars
<1>4. Reading'
  BY <1>1, <1>2 DEF Reading, NoResult
<1>. QED
  BY <1>3, <1>4 DEF IInv

\* No entry of a validated archive makes resolve panic.
LEMMA ValidResolves ==
  ASSUME Typed(arc), HeaderError(arc) = "none", NEW k \in DOMAIN arc.entries
  PROVE  /\ arc.entries[k] \in Entry /\ Resolvable(arc.entries[k])
         /\ arc.entries[k].string_table_offset + Len(NameAt(arc.entries[k])) < arc.string_table_size
<1>1. arc.string_table_size =< Len(arc.rest) /\ EntryError(arc, arc.entries[k]) = "none"
  BY Accepted
<1>2. arc.entries[k] \in Entry
  BY ElementOfSeq, LenProperties DEF Typed
<1>3. Inside(arc, arc.entries[k])
  BY <1>1, <1>2, EntryInside
<1>. QED
  BY <1>1, <1>2, <1>3, NameEnds

\* What file_by_name finds: the first entry with the name, since none makes it panic.
Hits(name) == {k \in 1..Len(arc.entries) : Resolvable(arc.entries[k]) /\ NameAt(arc.entries[k]) = name}

LEMMA Found ==
  ASSUME IInv, NEW name, FileByName(name)
  PROVE  /\ rpc' = "done" /\ looked' = name /\ arc' = arc
         /\ result' = IF FirstOf(Hits(name)) = 0 THEN [status |-> "absent"]
                      ELSE [status |-> "ok", entry |-> arc.entries[FirstOf(Hits(name))],
                            data |-> DataAt(arc.entries[FirstOf(Hits(name))])]
<1>. DEFINE hit == SelectInSeq(arc.entries, LAMBDA e : Resolvable(e) /\ NameAt(e) = name)
            panic == SelectInSeq(arc.entries, LAMBDA e : ~Resolvable(e))
            P == {k \in 1..Len(arc.entries) : ~Resolvable(arc.entries[k])}
<1>1. rpc = "ready" /\ Typed(arc) /\ HeaderError(arc) = "none"
  BY DEF FileByName, IInv, Reading
<1>2. hit = FirstOf(Hits(name)) /\ panic = FirstOf(P)
  BY DEF SelectInSeq, FirstOf, Hits
<1>3. P = {}
  <2>1. DOMAIN arc.entries = 1..Len(arc.entries)
    BY <1>1, LenProperties DEF Typed
  <2>. QED
    BY <1>1, <2>1, ValidResolves
<1>4. panic = 0
  BY <1>2, <1>3 DEF FirstOf
<1>5. /\ rpc' = "done" /\ looked' = name /\ arc' = arc
      /\ result' = IF panic # 0 /\ (hit = 0 \/ panic < hit) THEN [status |-> "panic"]
                   ELSE IF hit = 0 THEN [status |-> "absent"]
                   ELSE [status |-> "ok", entry |-> arc.entries[hit], data |-> DataAt(arc.entries[hit])]
  BY DEF FileByName
<1>. HIDE DEF hit, panic
<1>. QED
  BY <1>2, <1>4, <1>5

LEMMA LookupStep ==
  ASSUME IInv, NEW name, FileByName(name), UNCHANGED bVars
  PROVE  IInv'
<1>1. rpc' = "done" /\ arc' = arc /\ result'.status \in {"absent", "ok"}
  <2>1. rpc' = "done" /\ arc' = arc
    BY Found
  <2>2. result' = [status |-> "absent"] \/ \E e, d : result' = [status |-> "ok", entry |-> e, data |-> d]
    BY Found
  <2>. QED
    BY <2>1, <2>2
<1>2. rpc = "ready" /\ phase' = phase /\ files' = files /\ archive' = archive
  BY DEF bVars, FileByName
<1>3. Scanning' /\ Building'
  BY DEF IInv, Scanning, Building, bVars
<1>4. Reading'
  BY <1>1, <1>2 DEF IInv, Reading
<1>. QED
  BY <1>3, <1>4 DEF IInv

LEMMA NextInv ==
  IInv /\ [Next]_vars => IInv'
<1>. SUFFICES ASSUME IInv, [Next]_vars PROVE IInv'
  OBVIOUS
<1>1. CASE rpc = "none" /\ BNext /\ UNCHANGED rVars
  BY <1>1, BuilderStep
<1>2. CASE phase = "built" /\ TryFromBytes(archive) /\ UNCHANGED bVars
  <2>1. Whole(archive, sums, files) /\ files \in Seq(ArchivedFile)
    BY <1>2 DEF IInv, Building, FilesGood
  <2>2. Typed(archive)
    BY <2>1, WholeIs
  <2>. QED
    BY <1>2, <2>2, OpenStep
<1>3. CASE phase = "add" /\ files = <<>> /\ ForeignArchive /\ UNCHANGED bVars
  <2>1. PICK a \in Archives : TryFromBytes(a)
    BY <1>3 DEF ForeignArchive
  <2>2. Typed(a)
    BY ArchivesSupplied DEF Typed, Entry
  <2>. QED
    BY <1>3, <2>1, <2>2, OpenStep
<1>4. CASE RNext /\ UNCHANGED bVars
  BY <1>4, LookupStep DEF RNext
<1>5. CASE UNCHANGED vars
  <2>1. Scanning' /\ Building'
    BY <1>5 DEF IInv, Scanning, Building, vars, bVars
  <2>2. Reading'
    BY <1>5 DEF IInv, Reading, vars, bVars, rVars
  <2>. QED
    BY <2>1, <2>2 DEF IInv
<1>. QED
  BY <1>1, <1>2, <1>3, <1>4, <1>5 DEF Next, Finished

\* For every set of names, contents, directories and foreign archives: the builder's
\* vector holds valid, distinct names and exactly what was stored; the offsets build
\* sums up are the ones its loop writes at, with every file already written still in
\* place and nothing else in the string table; and the reader is over the archive
\* that was built or over a foreign one it has validated.
THEOREM Pfs0Invariant == Spec => []IInv
  BY InitInv, NextInv, PTL DEF Spec

\* No lookup on a validated archive, built or foreign, slices outside a region, and
\* no name runs on into the data.
THEOREM Pfs0ReaderStaysInside == Spec => []ReaderStaysInside
<1>1. IInv => ReaderStaysInside
  <2>. SUFFICES ASSUME IInv PROVE ReaderStaysInside
    OBVIOUS
  <2>1. ASSUME rpc = "ready", NEW k \in DOMAIN arc.entries
        PROVE  arc.entries[k].string_table_offset + Len(NameAt(arc.entries[k])) < arc.string_table_size
    BY <2>1, ValidResolves DEF IInv, Reading
  <2>. QED
    BY <2>1 DEF ReaderStaysInside, IInv, Reading
<1>. QED
  BY <1>1, Pfs0Invariant, PTL

(***************************************************************************)
(* The archive is the one the set of files determines                      *)
(***************************************************************************)
\* Distinct files are counted by the indices they stand at.
LEMMA FirstFiles ==
  ASSUME NEW fls, FilesGood(fls), NEW m \in Nat, m =< Len(fls)
  PROVE  Cardinality({fls[j] : j \in 1..m}) = m
<1>. DEFINE S == {fls[j] : j \in 1..m}
            b == [j \in 1..m |-> fls[j]]
<1>1. Len(fls) \in Nat /\ DOMAIN fls = 1..Len(fls)
  BY LenProperties DEF FilesGood
<1>2. \A j \in 1..m : j \in DOMAIN fls
  BY <1>1
<1>3. b \in Bijection(1..m, S)
  <2>1. b \in [1..m -> S]
    OBVIOUS
  <2>2. \A i, j \in 1..m : b[i] = b[j] => i = j
    BY <1>2 DEF FilesGood
  <2>3. \A x \in S : \E j \in 1..m : b[j] = x
    OBVIOUS
  <2>. HIDE DEF b
  <2>. QED
    BY <2>1, <2>2, <2>3 DEF Bijection, Injection, Surjection, IsInjective
<1>4. IsFiniteSet(1..m) /\ Cardinality(1..m) = m
  BY FS_Interval
<1>5. Cardinality(S) = Cardinality(1..m)
  <2>1. ExistsBijection(1..m, S)
    BY <1>3 DEF ExistsBijection
  <2>. HIDE DEF S
  <2>. QED
    BY <1>4, <2>1, FS_Bijection
<1>. QED
  BY <1>4, <1>5

\* A file's rank is its place in the sorted vector.
LEMMA RankIs ==
  ASSUME IInv, phase = "built"
  PROVE  /\ Cardinality(stored) = Len(files)
         /\ \A k \in 1..Len(files) : files[k] \in stored /\ Rank(files[k]) = k - 1
         /\ \A f \in stored : \E k \in 1..Len(files) : f = files[k]
<1>. DEFINE n == Len(files)
<1>1. FilesGood(files) /\ InOrder(files) /\ stored = ToSet(files)
  BY DEF IInv, Building
<1>2. n \in Nat /\ DOMAIN files = 1..n /\ stored = {files[j] : j \in 1..n} /\ \A k \in 1..n : files[k].name \in Seq(Int)
  <2>1. files \in Seq(ArchivedFile)
    BY <1>1 DEF FilesGood
  <2>2. n \in Nat /\ DOMAIN files = 1..n
    BY <2>1, LenProperties
  <2>3. \A k \in 1..n : files[k].name \in Seq(Int)
    BY <2>1, ElementOfSeq, FileIs
  <2>. QED
    BY <1>1, <2>2, <2>3 DEF ToSet
<1>3. Cardinality(stored) = n
  BY <1>1, <1>2, FirstFiles, SMTT(60)
<1>4. ASSUME NEW k \in 1..n PROVE Rank(files[k]) = k - 1
  <2>1. ASSUME NEW j \in 1..n PROVE NameLess(files[j].name, files[k].name) <=> j < k
    <3>1. j < k => NameLess(files[j].name, files[k].name)
      BY <1>1, <1>2 DEF InOrder
    <3>2. k < j => NameLess(files[k].name, files[j].name)
      BY <1>1, <1>2 DEF InOrder
    <3>3. j < k \/ j = k \/ k < j
      BY <1>2
    <3>4. ~(NameLess(files[j].name, files[k].name) /\ NameLess(files[k].name, files[j].name))
      BY <1>2, NamesOrdered
    <3>5. ~NameLess(files[k].name, files[k].name)
      BY <1>2, NamesOrdered
    <3>6. j < k => j # k
      BY <1>2
    <3>. QED
      BY <3>1, <3>2, <3>3, <3>4, <3>5, <3>6, <1>2
  <2>2. \A j \in 1..n : j < k <=> j \in 1..(k - 1)
    BY <1>2
  <2>3. \A j \in 1..(k - 1) : j \in 1..n
    BY <1>2
  <2>4. {g \in stored : NameLess(g.name, files[k].name)} = {files[j] : j \in 1..(k - 1)}
    BY <1>2, <2>1, <2>2, <2>3
  <2>5. k - 1 \in Nat /\ k - 1 =< n
    BY <1>2
  <2>6. Cardinality({files[j] : j \in 1..(k - 1)}) = k - 1
    BY <1>1, <2>5, FirstFiles
  <2>. QED
    BY <2>4, <2>6 DEF Rank
<1>. QED
  BY <1>2, <1>3, <1>4

\* files() lists the files as build sorted them.
LEMMA ListingIs ==
  ASSUME IInv, phase = "built", rpc = "ready"
  PROVE  /\ DOMAIN Listing = DOMAIN files
         /\ \A k \in DOMAIN files : Listing[k] = files[k]
<1>1. Whole(arc, sums, files) /\ files \in Seq(ArchivedFile)
  BY DEF IInv, Building, Reading, FilesGood
<1>2. DOMAIN arc.entries = 1..Len(files) /\ DOMAIN files = 1..Len(files)
  BY <1>1, WholeIs
<1>3. ASSUME NEW k \in 1..Len(files)
      PROVE  [name |-> NameAt(arc.entries[k]), data |-> DataAt(arc.entries[k])] = files[k]
  <2>1. NameAt(arc.entries[k]) = files[k].name /\ DataAt(arc.entries[k]) = files[k].data
    BY <1>1, ReadBack
  <2>2. files[k] \in [name : UTF8, data : Seq(Int)]
    BY <1>1, <1>2, ElementOfSeq DEF ArchivedFile
  <2>3. [name |-> files[k].name, data |-> files[k].data] = files[k]
    BY ONLY <2>2
  <2>. QED
    BY <2>1, <2>3
<1>. QED
  BY <1>2, <1>3 DEF Listing

\* One file's entry, in terms of the sums.
LEMMA EntryIs ==
  ASSUME IInv, phase = "built", NEW k \in 1..Len(files)
  PROVE  /\ EntryOf(files[k]) = EntryFor(sums[k], files[k])
         /\ FileIn(archive, sums[k], files[k], k)
         /\ sums[k] \in Offsets /\ files[k] \in ArchivedFile
         /\ Past([string_offset |-> EntryOf(files[k]).string_table_offset, data_offset |-> EntryOf(files[k]).offset], files[k])
              = sums[k + 1]
<1>1. Whole(archive, sums, files) /\ files \in Seq(ArchivedFile)
  BY DEF IInv, Building, FilesGood
<1>2. /\ SumsFor(sums, files) /\ Len(files) \in Nat /\ Len(sums) = Len(files) + 1 /\ HeaderFor(archive, sums, files)
      /\ FileIn(archive, sums[k], files[k], k) /\ archive.entries[k] = EntryFor(sums[k], files[k])
  BY <1>1, WholeIs
<1>3. Rank(files[k]) + 1 = k
  <2>1. Rank(files[k]) = k - 1
    BY RankIs
  <2>. QED
    BY <1>2, <2>1
<1>4. EntryOf(files[k]) = EntryFor(sums[k], files[k])
  BY <1>2, <1>3 DEF EntryOf
<1>5. sums[k] \in Offsets /\ files[k] \in ArchivedFile
  BY <1>1, <1>2, HasRoom
<1>6. sums[k + 1] = Past(sums[k], files[k])
  <2>1. k \in 1..(Len(sums) - 1)
    BY <1>2
  <2>. QED
    BY <1>2, <2>1 DEF SumsFor
<1>7. [string_offset |-> EntryOf(files[k]).string_table_offset, data_offset |-> EntryOf(files[k]).offset] = sums[k]
  BY <1>4, <1>5 DEF EntryFor, Offsets
<1>. QED
  BY <1>2, <1>4, <1>5, <1>6, <1>7

\* "the same set of files always produces the same bytes": the set alone determines
\* every entry and every byte of the archive build returns, whatever order the files
\* were added in or read_dir listed them in.
THEOREM Pfs0ArchiveIsTheSet == Spec => []ArchiveIsTheSet
<1>1. ASSUME IInv, phase = "built" PROVE ArchiveIsTheSet
  <2>. DEFINE n == Len(files)
              t == archive.string_table_size
  <2>1. /\ Whole(archive, sums, files) /\ FilesGood(files) /\ files \in Seq(ArchivedFile) /\ InOrder(files)
        /\ stored = ToSet(files)
    BY <1>1 DEF IInv, Building, FilesGood
  <2>2. /\ HeaderFor(archive, sums, files) /\ SumsFor(sums, files) /\ Typed(archive) /\ n \in Nat /\ Len(sums) = n + 1
        /\ DOMAIN files = 1..n /\ Len(archive.entries) = n
    BY <2>1, WholeIs DEF Whole
  <2>3. /\ Cardinality(stored) = n
        /\ \A k \in 1..n : files[k] \in stored /\ Rank(files[k]) = k - 1
        /\ \A f \in stored : \E k \in 1..n : f = files[k]
    BY <1>1, RankIs
  <2>4. archive.file_count = Cardinality(stored) /\ Len(archive.entries) = Cardinality(stored)
    BY <2>2, <2>3 DEF HeaderFor
  <2>5. /\ sums[n + 1] \in Offsets
        /\ t = string_table_size(sums[n + 1].string_offset) /\ Len(archive.rest) = t + sums[n + 1].data_offset
        /\ t \in Nat /\ archive.rest \in Seq(Int)
    <3>1. n + 1 \in 1..Len(sums) /\ sums \in Seq(Offsets)
      BY <2>2 DEF SumsFor
    <3>. QED
      BY <2>2, <3>1, ElementOfSeq DEF HeaderFor, Typed
  <2>6. /\ t % 32 = 0 /\ t \in sums[n + 1].string_offset..(sums[n + 1].string_offset + 31)
    <3>. DEFINE x == sums[n + 1].string_offset
    <3>1. x \in Nat /\ t = string_table_size(x)
      BY <2>5 DEF Offsets
    <3>. HIDE DEF x, t
    <3>2. t \in Nat /\ x =< t /\ t =< x + 31 /\ t % 32 = 0
      BY <3>1, TableSize
    <3>3. t \in x..(x + 31)
      BY ONLY <3>1, <3>2
    <3>. QED
      BY <3>2, <3>3 DEF x
  <2>7. ASSUME stored = {} PROVE t = 0 /\ archive.rest = <<>>
    <3>1. n = 0
      <4>1. ~(1 \in 1..n)
        BY <2>3, <2>7
      <4>. QED
        BY <2>2, <4>1
    <3>2. sums[n + 1].string_offset = 0 /\ sums[n + 1].data_offset = 0
      BY <2>2, <3>1 DEF SumsFor, Start
    <3>. HIDE DEF n, t
    <3>3. t = 0
      <4>1. t \in 0..(0 + 31) /\ t % 32 = 0
        BY <2>6, <3>2
      <4>. QED
        BY ONLY <4>1
    <3>4. Len(archive.rest) = 0
      BY <2>5, <3>2, <3>3
    <3>. QED
      BY <2>5, <3>3, <3>4, EmptySeq
  <2>8. ASSUME NEW f \in stored
        PROVE  LET e == EntryOf(f)
                   past == Past([string_offset |-> e.string_table_offset, data_offset |-> e.offset], f)
               IN  /\ e.size = Len(f.data)
                   /\ Rank(f) = 0 => e.offset = 0 /\ e.string_table_offset = 0
                   /\ \A g \in stored : Rank(g) = Rank(f) + 1 =>
                        EntryOf(g).offset = past.data_offset /\ EntryOf(g).string_table_offset = past.string_offset
                   /\ Rank(f) + 1 = Cardinality(stored) =>
                        /\ t % 32 = 0 /\ t \in past.string_offset..(past.string_offset + 31)
                        /\ Len(archive.rest) = t + past.data_offset
                   /\ SubSeq(archive.rest, e.string_table_offset + 1, e.string_table_offset + Len(f.name)) = f.name
                   /\ LET from == t + e.offset
                      IN  SubSeq(archive.rest, from + 1, from + Len(f.data)) = f.data
    <3>. DEFINE e == EntryOf(f)
                past == Past([string_offset |-> e.string_table_offset, data_offset |-> e.offset], f)
    <3>1. PICK k \in 1..n : f = files[k]
      BY <2>3
    <3>2. e = EntryFor(sums[k], f) /\ FileIn(archive, sums[k], f, k) /\ sums[k] \in Offsets /\ f \in ArchivedFile /\ past = sums[k + 1]
      BY <1>1, <3>1, EntryIs
    <3>3. e.size = Len(f.data) /\ e.offset = sums[k].data_offset /\ e.string_table_offset = sums[k].string_offset
      BY <3>2 DEF EntryFor
    <3>4. Rank(f) = k - 1
      BY <2>3, <3>1
    <3>. HIDE DEF e, past
    <3>5. ASSUME Rank(f) = 0 PROVE e.offset = 0 /\ e.string_table_offset = 0
      <4>1. k = 1
        BY <2>2, <3>4, <3>5
      <4>. QED
        BY <2>2, <3>3, <4>1 DEF SumsFor, Start
    <3>6. ASSUME NEW g \in stored, Rank(g) = Rank(f) + 1
          PROVE  EntryOf(g).offset = past.data_offset /\ EntryOf(g).string_table_offset = past.string_offset
      <4>1. PICK l \in 1..n : g = files[l]
        BY <2>3
      <4>2. Rank(g) = l - 1
        BY <2>3, <4>1
      <4>3. l = k + 1
        BY <2>2, <3>4, <3>6, <4>2
      <4>4. EntryOf(g) = EntryFor(sums[k + 1], g)
        BY <1>1, <4>1, <4>3, EntryIs
      <4>. QED
        BY <3>2, <4>4 DEF EntryFor
    <3>7. ASSUME Rank(f) + 1 = Cardinality(stored) PROVE past = sums[n + 1]
      <4>1. (k - 1) + 1 = n
        BY <2>3, <3>4, <3>7
      <4>2. k = n
        <5>. HIDE DEF n
        <5>. QED
          BY <2>2, <4>1
      <4>. QED
        BY <3>2, <4>2
    <3>8. f.name \in Seq(Int) /\ f.data \in Seq(Int)
      BY <3>2, FileIs
    <3>9. LiesAt(archive.rest, e.string_table_offset, f.name) /\ LiesAt(archive.rest, t + e.offset, f.data)
      BY <3>2, <3>3 DEF FileIn
    <3>10. /\ SubSeq(archive.rest, e.string_table_offset + 1, e.string_table_offset + Len(f.name)) = f.name
           /\ SubSeq(archive.rest, (t + e.offset) + 1, (t + e.offset) + Len(f.data)) = f.data
      <4>. HIDE DEF t
      <4>. QED
        BY <2>5, <3>8, <3>9, SliceIs
    <3>. HIDE DEF n, t
    <3>11. Rank(f) + 1 = Cardinality(stored) =>
             /\ t % 32 = 0 /\ t \in past.string_offset..(past.string_offset + 31) /\ Len(archive.rest) = t + past.data_offset
      BY <2>5, <2>6, <3>7
    <3>. QED
      BY <3>3, <3>5, <3>6, <3>10, <3>11 DEF e, past
  <2>9. ASSUME NEW i \in 1..t, \A f \in stored : ~InName(f, i) PROVE archive.rest[i] = 0
    <3>1. ASSUME NEW k \in 1..Len(archive.entries) PROVE ~InSpan(sums[k], files[k], i)
      <4>1. k \in 1..n /\ files[k] \in stored
        BY <2>2, <2>3
      <4>2. EntryOf(files[k]) = EntryFor(sums[k], files[k])
        BY <1>1, <4>1, EntryIs
      <4>3. EntryOf(files[k]).string_table_offset = sums[k].string_offset
        BY <4>2 DEF EntryFor
      <4>. QED
        BY <2>9, <4>1, <4>3 DEF InSpan, InName
    <3>. QED
      BY <2>1, <3>1 DEF Whole, ArchiveFor
  <2>10. ASSUME rpc = "ready"
         PROVE  /\ ToSet(Listing) = stored
                /\ \A j, k \in DOMAIN Listing : j < k => NameLess(Listing[j].name, Listing[k].name)
    <3>1. DOMAIN Listing = DOMAIN files /\ \A k \in DOMAIN files : Listing[k] = files[k]
      BY <1>1, <2>10, ListingIs
    <3>2. ToSet(Listing) = ToSet(files)
      BY <3>1 DEF ToSet
    <3>. QED
      BY <2>1, <3>1, <3>2 DEF InOrder
  <2>. QED
    BY <2>4, <2>7, <2>8, <2>9, <2>10 DEF ArchiveIsTheSet
<1>2. IInv => ArchiveIsTheSet
  <2>1. phase # "built" => ArchiveIsTheSet
    BY DEF ArchiveIsTheSet
  <2>. QED
    BY <1>1, <2>1
<1>. QED
  BY <1>2, Pfs0Invariant, PTL

(***************************************************************************)
(* The container                                                           *)
(***************************************************************************)
KeptIn(fls) ==
  [name \in Lookups |->
     IF \E i \in DOMAIN fls : fls[i].name = name
     THEN fls[CHOOSE i \in DOMAIN fls : fls[i].name = name].data ELSE None]

LEMMA KeptIs ==
  ASSUME NEW fls, FilesGood(fls), NEW name \in Lookups
  PROVE  /\ DOMAIN KeptIn(fls) = Lookups
         /\ \A i \in DOMAIN fls : fls[i].name = name => KeptIn(fls)[name] = fls[i].data
         /\ (\A i \in DOMAIN fls : fls[i].name # name) => KeptIn(fls)[name] = None
<1>. DEFINE c == CHOOSE i \in DOMAIN fls : fls[i].name = name
<1>1. KeptIn(fls)[name] = IF \E i \in DOMAIN fls : fls[i].name = name THEN fls[c].data ELSE None
  BY DEF KeptIn
<1>2. ASSUME NEW i \in DOMAIN fls, fls[i].name = name PROVE c = i
  <2>1. c \in DOMAIN fls /\ fls[c].name = name
    BY <1>2
  <2>. HIDE DEF c
  <2>. QED
    BY <1>2, <2>1 DEF FilesGood
<1>. HIDE DEF c
<1>. QED
  BY <1>1, <1>2 DEF KeptIn

\* Sorting changes nothing that is kept.
LEMMA KeptSorted ==
  ASSUME NEW fls, FilesGood(fls), NEW gls, FilesGood(gls), ToSet(gls) = ToSet(fls)
  PROVE  KeptIn(gls) = KeptIn(fls)
<1>1. ASSUME NEW name \in Lookups PROVE KeptIn(gls)[name] = KeptIn(fls)[name]
  <2>1. CASE \E i \in DOMAIN fls : fls[i].name = name
    <3>1. PICK i \in DOMAIN fls : fls[i].name = name
      BY <2>1
    <3>2. fls[i] \in ToSet(gls)
      BY DEF ToSet
    <3>3. PICK j \in DOMAIN gls : gls[j] = fls[i]
      BY <3>2 DEF ToSet
    <3>. QED
      BY <3>1, <3>3, KeptIs
  <2>2. CASE \A i \in DOMAIN fls : fls[i].name # name
    <3>1. ASSUME NEW j \in DOMAIN gls PROVE gls[j].name # name
      <4>1. gls[j] \in ToSet(fls)
        BY DEF ToSet
      <4>2. PICK i \in DOMAIN fls : fls[i] = gls[j]
        BY <4>1 DEF ToSet
      <4>. QED
        BY <2>2, <4>2
    <3>. QED
      BY <2>2, <3>1, KeptIs
  <2>. QED
    BY <2>1, <2>2
<1>. QED
  BY <1>1 DEF KeptIn

\* add_file changes what is kept under its name only.
LEMMA KeptAdded ==
  ASSUME NEW fls, FilesGood(fls), NEW name, NEW data, FilesGood(Append(fls, File(name, data))), NEW j \in Lookups, j # name
  PROVE  KeptIn(Append(fls, File(name, data)))[j] = KeptIn(fls)[j]
<1>. DEFINE f == File(name, data)
            u == Append(fls, f)
            n == Len(fls)
<1>1. n \in Nat /\ DOMAIN fls = 1..n /\ fls \in Seq(ArchivedFile)
  BY LenProperties DEF FilesGood
<1>2. f.name = name
  BY DEF File
<1>. HIDE DEF f
<1>3. DOMAIN u = 1..(n + 1) /\ u[n + 1] = f /\ \A i \in 1..n : u[i] = fls[i]
  BY <1>1
<1>. HIDE DEF u
<1>4. \A i \in 1..(n + 1) : i \in 1..n \/ i = n + 1
  BY <1>1
<1>5. \A i \in 1..n : i \in 1..(n + 1)
  BY <1>1
<1>6. CASE \E i \in DOMAIN fls : fls[i].name = j
  <2>1. PICK i \in DOMAIN fls : fls[i].name = j
    BY <1>6
  <2>2. i \in DOMAIN u /\ u[i] = fls[i]
    BY <1>1, <1>3, <1>5
  <2>3. KeptIn(fls)[j] = fls[i].data
    BY <2>1, KeptIs
  <2>4. KeptIn(u)[j] = u[i].data
    BY <2>1, <2>2, KeptIs DEF u, f
  <2>. QED
    BY <2>2, <2>3, <2>4 DEF u, f
<1>7. CASE \A i \in DOMAIN fls : fls[i].name # j
  <2>1. \A i \in DOMAIN u : u[i].name # j
    BY <1>1, <1>2, <1>3, <1>4, <1>7
  <2>2. KeptIn(fls)[j] = None
    BY <1>7, KeptIs
  <2>3. KeptIn(u)[j] = None
    BY <2>1, KeptIs DEF u, f
  <2>. QED
    BY <2>2, <2>3 DEF u, f
<1>. QED
  BY <1>6, <1>7

StateOf ==
  IF phase = "built" THEN "sealed"
  ELSE IF phase \in BuilderErrors THEN "failed"
  ELSE IF rpc # "none" THEN "foreign" ELSE "open"

AnswerOf ==
  IF result.status = "ok" THEN <<looked, result.data>>
  ELSE IF result.status = "absent" THEN <<looked, None>>
  ELSE <<result.status>>

\* The abstract steps, in terms of what is kept, the state and the answer.
LEMMA Invisible ==
  ASSUME KeptIn(files') = KeptIn(files), StateOf' = StateOf, AnswerOf' = AnswerOf
  PROVE  UNCHANGED Abstract!cVars
  BY DEF Abstract!cVars, StateOf, AnswerOf, Kept, KeptIn

LEMMA AbstractSteps ==
  ASSUME Kept' = Kept
  PROVE  /\ StateOf = "open" /\ StateOf' \in {"sealed", "failed"} /\ AnswerOf' = AnswerOf => Abstract!Next
         /\ StateOf = "open" /\ StateOf' = "foreign" => Abstract!Next
         /\ StateOf = "foreign" /\ StateOf' = StateOf => Abstract!Next
         /\ \A name \in Lookups :
              StateOf = "sealed" /\ StateOf' = StateOf /\ AnswerOf' = <<name, Kept[name]>> => Abstract!Next
<1>1. StateOf = "open" /\ StateOf' = "sealed" /\ AnswerOf' = AnswerOf => Abstract!Seal
  BY DEF Abstract!Seal, StateOf, AnswerOf
<1>2. StateOf = "open" /\ StateOf' = "failed" /\ AnswerOf' = AnswerOf => Abstract!Fail
  BY DEF Abstract!Fail, StateOf, AnswerOf
<1>3. StateOf = "open" /\ StateOf' = "foreign" => Abstract!Open
  BY DEF Abstract!Open, StateOf
<1>4. StateOf = "foreign" /\ StateOf' = StateOf => Abstract!GetAny
  BY DEF Abstract!GetAny, StateOf
<1>5. \A name \in Lookups :
        StateOf = "sealed" /\ StateOf' = StateOf /\ AnswerOf' = <<name, Kept[name]>> => Abstract!Get(name)
  BY DEF Abstract!Get, StateOf, AnswerOf
<1>. QED
  BY <1>1, <1>2, <1>3, <1>4, <1>5 DEF Abstract!Next

LEMMA PutStep ==
  ASSUME NEW name \in Lookups, StateOf = "open", StateOf' = "open", AnswerOf' = AnswerOf,
         DOMAIN Kept' = Lookups, \A j \in Lookups \ {name} : Kept'[j] = Kept[j]
  PROVE  Abstract!Next
<1>1. Abstract!Put(name)
  BY DEF Abstract!Put, StateOf, AnswerOf
<1>. QED
  BY <1>1 DEF Abstract!Next

LEMMA FillStep ==
  ASSUME StateOf = "open", StateOf' = "open", AnswerOf' = AnswerOf,
         Kept = [name \in Lookups |-> None], DOMAIN Kept' = Lookups
  PROVE  Abstract!Next
<1>1. Abstract!Fill
  BY DEF Abstract!Fill, StateOf, AnswerOf
<1>. QED
  BY <1>1 DEF Abstract!Next

LEMMA KeptBy == Kept = KeptIn(files) /\ Kept' = KeptIn(files') /\ DOMAIN Kept' = Lookups
  BY DEF Kept, KeptIn

\* What a builder's action leaves to the abstract state.
LEMMA Unread ==
  ASSUME rpc = "none", UNCHANGED rVars
  PROVE  /\ AnswerOf' = AnswerOf
         /\ phase \in {"add", "scan", "sum", "write"} => StateOf = "open"
         /\ phase' \in {"add", "scan", "sum", "write"} => StateOf' = "open"
         /\ phase' = "built" => StateOf' = "sealed"
         /\ phase' \in BuilderErrors => StateOf' = "failed"
<1>1. AnswerOf' = AnswerOf
  BY DEF AnswerOf, rVars
<1>2. rpc' = "none"
  BY DEF rVars
<1>. QED
  BY <1>1, <1>2 DEF StateOf, BuilderErrors

LEMMA FailMaps ==
  ASSUME rpc = "none", UNCHANGED rVars, phase \in {"add", "scan", "sum", "write"}, files' = files, phase' \in BuilderErrors
  PROVE  Abstract!Next
<1>1. StateOf = "open" /\ StateOf' = "failed" /\ AnswerOf' = AnswerOf
  BY Unread
<1>2. Kept' = Kept
  BY KeptBy
<1>. QED
  BY <1>1, <1>2, AbstractSteps

LEMMA HiddenMaps ==
  ASSUME rpc = "none", UNCHANGED rVars, phase \in {"add", "scan", "sum", "write"},
         phase' \in {"add", "scan", "sum", "write"}, KeptIn(files') = KeptIn(files)
  PROVE  UNCHANGED Abstract!cVars
<1>1. StateOf = "open" /\ StateOf' = "open" /\ AnswerOf' = AnswerOf
  BY Unread
<1>. QED
  BY <1>1, Invisible

LEMMA AddFileMaps ==
  ASSUME IInv, IInv', rpc = "none", UNCHANGED rVars, NEW name \in Names, NEW data \in Contents, AddFile(name, data)
  PROVE  [Abstract!Next]_(Abstract!cVars)
<1>1. CASE AddFileError(files, name) # "none"
  <2>1. phase = "add" /\ BFail(AddFileError(files, name)) /\ AddFileError(files, name) \in BuilderErrors
    BY <1>1, GoodName DEF AddFile
  <2>2. files' = files /\ phase' \in BuilderErrors
    BY <2>1 DEF BFail
  <2>. QED
    BY <2>1, <2>2, FailMaps
<1>2. CASE AddFileError(files, name) = "none"
  <2>1. phase = "add" /\ phase' = "add" /\ files' = Append(files, File(name, data))
    BY <1>2 DEF AddFile
  <2>2. FilesGood(files) /\ FilesGood(files')
    BY DEF IInv, Building
  <2>3. ASSUME NEW j \in Lookups, j # name PROVE KeptIn(files')[j] = KeptIn(files)[j]
    BY <2>1, <2>2, <2>3, KeptAdded
  <2>4. CASE name \in Lookups
    <3>1. StateOf = "open" /\ StateOf' = "open" /\ AnswerOf' = AnswerOf
      BY <2>1, Unread
    <3>2. DOMAIN Kept' = Lookups /\ \A j \in Lookups \ {name} : Kept'[j] = Kept[j]
      BY <2>3, KeptBy
    <3>. QED
      BY <2>4, <3>1, <3>2, PutStep
  <2>5. CASE name \notin Lookups
    <3>1. KeptIn(files') = KeptIn(files)
      <4>1. \A j \in Lookups : KeptIn(files')[j] = KeptIn(files)[j]
        BY <2>3, <2>5
      <4>. QED
        BY <4>1 DEF KeptIn
    <3>. QED
      BY <2>1, <3>1, HiddenMaps
  <2>. QED
    BY <2>4, <2>5
<1>. QED
  BY <1>1, <1>2

LEMMA ScanDoneMaps ==
  ASSUME IInv, rpc = "none", UNCHANGED rVars, ScanDone
  PROVE  [Abstract!Next]_(Abstract!cVars)
<1>. DEFINE sorted == Remap(SortedBy(NamesOf(scanned)), scanned)
            bad == SelectInSeq([i \in DOMAIN sorted |-> i],
                               LAMBDA i : AddFileError(SubSeq(sorted, 1, i - 1), sorted[i].name) # "none")
<1>1. phase = "scan" /\ files = <<>> /\ sorted \in Seq(RawFile)
  <2>1. phase = "scan" /\ files = <<>> /\ scanned \in Seq(RawFile)
    BY DEF ScanDone, IInv, Scanning
  <2>2. \A f \in RawFile : f.name \in Seq(Int)
    BY DEF RawFile, UTF8
  <2>3. sorted \in Seq(RawFile)
    BY <2>1, <2>2, SortedIs, Zenon
  <2>. QED
    BY <2>1, <2>3
<1>2. phase' = "add" \/ (files' = files /\ phase' \in BuilderErrors)
  <2>1. \/ bad # 0 /\ BFail(AddFileError(SubSeq(sorted, 1, bad - 1), sorted[bad].name))
        \/ phase' = "add"
    BY DEF ScanDone
  <2>2. bad # 0 => AddFileError(SubSeq(sorted, 1, bad - 1), sorted[bad].name) \in BuilderErrors
    <3>. HIDE DEF sorted
    <3>. QED
      BY <1>1, Refused
  <2>. HIDE DEF sorted, bad
  <2>. QED
    BY <2>1, <2>2 DEF BFail
<1>. HIDE DEF sorted
<1>3. CASE phase' = "add"
  <2>1. Kept = [name \in Lookups |-> None]
    BY <1>1 DEF Kept
  <2>2. StateOf = "open" /\ StateOf' = "open" /\ AnswerOf' = AnswerOf
    BY <1>1, <1>3, Unread
  <2>. QED
    BY <2>1, <2>2, KeptBy, FillStep
<1>. QED
  BY <1>1, <1>2, <1>3, FailMaps

LEMMA BuilderMaps ==
  ASSUME IInv, IInv', rpc = "none", UNCHANGED rVars, BNext
  PROVE  [Abstract!Next]_(Abstract!cVars)
<1>1. ASSUME NEW e \in listing, ScanEntry(e) PROVE [Abstract!Next]_(Abstract!cVars)
  <2>1. phase = "scan" /\ phase' \in {"scan", "InvalidUtf8"} /\ files' = files
    BY <1>1 DEF ScanEntry
  <2>2. "InvalidUtf8" \in BuilderErrors
    BY DEF BuilderErrors
  <2>. QED
    BY <2>1, <2>2, FailMaps, HiddenMaps
<1>2. CASE IoFails
  <2>1. phase = "scan" /\ phase' \in BuilderErrors /\ files' = files
    BY <1>2 DEF IoFails, BFail, BuilderErrors
  <2>. QED
    BY <2>1, FailMaps
<1>3. CASE Build
  <2>1. phase = "add" /\ phase' = "sum" /\ stored' = stored
    BY <1>3 DEF Build
  <2>2. FilesGood(files) /\ FilesGood(files') /\ ToSet(files') = ToSet(files)
    BY <2>1 DEF IInv, Building
  <2>3. KeptIn(files') = KeptIn(files)
    BY <2>2, KeptSorted
  <2>. QED
    BY <2>1, <2>3, HiddenMaps
<1>4. CASE AddUp
  <2>1. phase = "sum" /\ phase' = "sum" /\ files' = files
    BY <1>4 DEF AddUp
  <2>. QED
    BY <2>1, HiddenMaps
<1>5. CASE Allocate
  <2>1. phase = "sum" /\ (phase' = "write" \/ phase' = "CapacityOverflow") /\ files' = files
    BY <1>5 DEF Allocate, BFail
  <2>2. "CapacityOverflow" \in BuilderErrors
    BY DEF BuilderErrors
  <2>. QED
    BY <2>1, <2>2, FailMaps, HiddenMaps
<1>6. CASE WriteFile
  <2>1. phase = "write" /\ phase' = "write" /\ files' = files
    BY <1>6 DEF WriteFile
  <2>. QED
    BY <2>1, HiddenMaps
<1>7. CASE BuildReturns
  <2>1. phase = "write" /\ phase' = "built" /\ files' = files
    BY <1>7 DEF BuildReturns
  <2>2. StateOf = "open" /\ StateOf' = "sealed" /\ AnswerOf' = AnswerOf /\ Kept' = Kept
    BY <2>1, Unread, KeptBy
  <2>. QED
    BY <2>2, AbstractSteps
<1>. QED
  BY <1>1, <1>2, <1>3, <1>4, <1>5, <1>6, <1>7, AddFileMaps, ScanDoneMaps DEF BNext

\* On a built archive a lookup answers with what is kept under the name.
LEMMA LookupMaps ==
  ASSUME IInv, NEW name \in Lookups, FileByName(name), UNCHANGED bVars, phase = "built"
  PROVE  AnswerOf' = <<name, Kept[name]>>
<1>. DEFINE n == Len(files)
            I == Hits(name)
            k == FirstOf(I)
<1>1. FilesGood(files) /\ files \in Seq(ArchivedFile) /\ Whole(arc, sums, files) /\ Kept = KeptIn(files)
  BY KeptBy DEF IInv, Building, Reading, FilesGood, FileByName
<1>2. n \in Nat /\ DOMAIN files = 1..n /\ Len(arc.entries) = n
  BY <1>1, WholeIs DEF Whole
<1>3. \A i \in 1..n : Resolvable(arc.entries[i]) /\ NameAt(arc.entries[i]) = files[i].name /\ DataAt(arc.entries[i]) = files[i].data
  BY <1>1, ReadBack
<1>4. I = {i \in 1..n : files[i].name = name}
  BY <1>2, <1>3 DEF Hits
<1>. HIDE DEF I
<1>5. /\ k = 0 <=> I = {}
      /\ I # {} => k \in I
  <2>1. I \in SUBSET (1..n)
    BY <1>4
  <2>. HIDE DEF n
  <2>. QED
    BY <1>2, <2>1, FirstIs
<1>6. /\ looked' = name
      /\ result' = IF k = 0 THEN [status |-> "absent"]
                   ELSE [status |-> "ok", entry |-> arc.entries[k], data |-> DataAt(arc.entries[k])]
  BY Found DEF I
<1>. HIDE DEF k
<1>7. CASE I = {}
  <2>1. Kept[name] = None
    BY <1>1, <1>2, <1>4, <1>7, KeptIs
  <2>2. result' = [status |-> "absent"]
    BY <1>5, <1>6, <1>7
  <2>3. AnswerOf' = <<looked', None>>
    BY <2>2 DEF AnswerOf
  <2>. QED
    BY <1>6, <2>1, <2>3
<1>8. CASE I # {}
  <2>1. k \in 1..n /\ files[k].name = name /\ k # 0
    BY <1>4, <1>5, <1>8
  <2>2. Kept[name] = files[k].data
    BY <1>1, <1>2, <2>1, KeptIs
  <2>3. result'.status = "ok" /\ result'.data = files[k].data
    BY <1>3, <1>6, <2>1
  <2>4. AnswerOf' = <<looked', result'.data>>
    BY <2>3 DEF AnswerOf
  <2>. QED
    BY <1>6, <2>2, <2>3, <2>4
<1>. QED
  BY <1>7, <1>8

LEMMA NextMaps ==
  ASSUME IInv, IInv', [Next]_vars
  PROVE  [Abstract!Next]_(Abstract!cVars)
<1>1. CASE rpc = "none" /\ BNext /\ UNCHANGED rVars
  BY <1>1, BuilderMaps
<1>2. CASE phase = "built" /\ TryFromBytes(archive) /\ UNCHANGED bVars
  <2>1. Whole(archive, sums, files) /\ files \in Seq(ArchivedFile)
    BY <1>2 DEF IInv, Building, FilesGood
  <2>2. HeaderError(archive) = "none"
    BY <2>1, WholeAccepted
  <2>3. result' = result /\ looked' = looked /\ phase' = phase /\ files' = files
    BY <1>2, <2>2 DEF TryFromBytes, bVars
  <2>4. StateOf' = StateOf /\ AnswerOf' = AnswerOf /\ KeptIn(files') = KeptIn(files)
    BY <1>2, <2>3 DEF StateOf, AnswerOf
  <2>. QED
    BY <2>4, Invisible
<1>3. CASE phase = "add" /\ files = <<>> /\ ForeignArchive /\ UNCHANGED bVars
  <2>1. rpc = "none" /\ rpc' \in {"ready", "done"} /\ phase' = phase /\ files' = files
    BY <1>3 DEF ForeignArchive, TryFromBytes, bVars
  <2>2. StateOf = "open" /\ StateOf' = "foreign"
    BY <1>3, <2>1 DEF StateOf, BuilderErrors
  <2>3. Kept' = Kept
    BY <2>1, KeptBy
  <2>. QED
    BY <2>2, <2>3, AbstractSteps
<1>4. CASE RNext /\ UNCHANGED bVars
  <2>1. PICK name \in Lookups : FileByName(name)
    BY <1>4 DEF RNext
  <2>2. rpc = "ready" /\ rpc' = "done" /\ phase' = phase /\ files' = files
    BY <1>4, <2>1 DEF FileByName, bVars
  <2>3. Kept' = Kept
    BY <2>2, KeptBy
  <2>4. CASE phase = "built"
    <3>1. StateOf = "sealed" /\ StateOf' = StateOf
      BY <2>2, <2>4 DEF StateOf
    <3>2. AnswerOf' = <<name, Kept[name]>>
      BY <1>4, <2>1, <2>4, LookupMaps
    <3>. QED
      BY <2>3, <3>1, <3>2, AbstractSteps
  <2>5. CASE phase = "add"
    <3>1. StateOf = "foreign" /\ StateOf' = StateOf
      BY <2>2, <2>5 DEF StateOf, BuilderErrors
    <3>. QED
      BY <2>3, <3>1, AbstractSteps
  <2>. QED
    BY <2>2, <2>4, <2>5 DEF IInv, Reading
<1>5. CASE UNCHANGED vars
  <2>1. StateOf' = StateOf /\ AnswerOf' = AnswerOf /\ KeptIn(files') = KeptIn(files)
    BY <1>5 DEF StateOf, AnswerOf, vars, bVars, rVars
  <2>. QED
    BY <2>1, Invisible
<1>. QED
  BY <1>1, <1>2, <1>3, <1>4, <1>5 DEF Next, Finished

LEMMA InitMaps == Init => Abstract!Init
<1>. SUFFICES ASSUME Init PROVE Abstract!Init
  OBVIOUS
<1>1. files = <<>> /\ rpc = "none" /\ result = NoResult /\ phase \in {"add", "scan"}
  BY DEF Init, BInit, RInit
<1>2. Kept = [name \in Lookups |-> None]
  BY <1>1 DEF Kept
<1>3. StateOf = "open" /\ AnswerOf = <<"none">>
  BY <1>1 DEF StateOf, AnswerOf, NoResult, BuilderErrors
<1>. QED
  BY <1>2, <1>3 DEF Abstract!Init, StateOf, AnswerOf

\* Whatever the files, their order and the archive's size: a build that succeeds is
\* accepted by try_from_bytes, and from then on file_by_name answers with the data
\* stored under exactly that name, or with nothing where nothing was stored.
THEOREM Pfs0ImplementsContainer == Spec => ImplementsContainer
<1>1. IInv /\ IInv' /\ [Next]_vars => [Abstract!Next]_(Abstract!cVars)
  BY NextMaps
<1>. QED
  BY <1>1, InitMaps, Pfs0Invariant, PTL DEF Spec, ImplementsContainer, Abstract!Spec
=============================================================================
