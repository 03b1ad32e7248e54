----------------------------- MODULE LayoutLemmas -----------------------------
(***************************************************************************)
(* Where a run of bytes lies in a larger one: the facts every proof about  *)
(* a written image keeps needing.  The builders append parts to a buffer,  *)
(* and the readers slice it by an offset and a size they find in a header. *)
(* And what sorting by rank gives: every place is some element's; what a   *)
(* sum over a set, a sequence of parts joined and the order of names are.  *)
(***************************************************************************)
EXTENDS NameOrder, Sequences, SequenceTheorems, FiniteSetTheorems, WellFoundedInduction, TLAPS

\* part lies in whole after the first `offset` elements.
LiesAt(whole, offset, part) ==
  /\ offset \in Nat
  /\ offset + Len(part) =< Len(whole)
  /\ \A i \in 1..Len(part) : whole[offset + i] = part[i]

\* Slicing by an offset and a size gives back the part that lies there.
LEMMA SliceIs ==
  ASSUME NEW S, NEW s \in Seq(S), NEW t \in Seq(S), NEW m, LiesAt(s, m, t)
  PROVE  SubSeq(s, m + 1, m + Len(t)) = t
<1>1. Len(t) \in Nat /\ Len(s) \in Nat /\ m \in Nat /\ m + Len(t) =< Len(s)
  BY LenProperties DEF LiesAt
<1>2. \A i \in (m + 1)..(m + Len(t)) : s[i] \in S
  <2>. SUFFICES ASSUME NEW i \in (m + 1)..(m + Len(t)) PROVE s[i] \in S
    OBVIOUS
  <2>1. i \in 1..Len(s)
    BY <1>1
  <2>. QED
    BY <2>1, ElementOfSeq
<1>. DEFINE u == SubSeq(s, m + 1, m + Len(t))
<1>3. /\ u \in Seq(S)
      /\ Len(u) = IF m + 1 =< m + Len(t) THEN (m + Len(t)) - (m + 1) + 1 ELSE 0
      /\ \A i \in 1..((m + Len(t)) - (m + 1) + 1) : u[i] = s[(m + 1) + i - 1]
  <2>1. m + 1 \in Int /\ m + Len(t) \in Int
    BY <1>1
  <2>. QED
    BY <1>2, <2>1, SubSeqProperties, SMTT(60)
<1>. HIDE DEF u
<1>4. Len(u) = Len(t)
  BY <1>1, <1>3
<1>5. \A i \in 1..Len(u) : u[i] = t[i]
  <2>. SUFFICES ASSUME NEW i \in 1..Len(u) PROVE u[i] = t[i]
    OBVIOUS
  <2>1. i \in 1..((m + Len(t)) - (m + 1) + 1) /\ (m + 1) + i - 1 = m + i
    BY <1>1, <1>4
  <2>2. s[m + i] = t[i]
    BY <1>4 DEF LiesAt
  <2>. QED
    BY <1>3, <2>1, <2>2
<1>6. u = t
  BY <1>3, <1>4, <1>5, SeqEqual
<1>. QED
  BY <1>6 DEF u

LEMMA EmptySlice ==
  ASSUME NEW S, NEW s \in Seq(S), NEW m \in Nat
  PROVE  SubSeq(s, m + 1, m) = <<>>
<1>1. /\ SubSeq(s, m + 1, m) \in Seq(S)
      /\ Len(SubSeq(s, m + 1, m)) = IF m + 1 =< m THEN m - (m + 1) + 1 ELSE 0
  BY SubSeqProperties
<1>. QED
  BY <1>1, EmptySeq

\* A sequence is a part of itself.
LEMMA LiesWhole ==
  ASSUME NEW S, NEW s \in Seq(S)
  PROVE  LiesAt(s, 0, s)
  BY LenProperties DEF LiesAt

\* What is appended lies after what was there, which stays where it was.
LEMMA LiesAppended ==
  ASSUME NEW S, NEW p \in Seq(S), NEW q \in Seq(S)
  PROVE  /\ p \o q \in Seq(S)
         /\ Len(p \o q) = Len(p) + Len(q)
         /\ LiesAt(p \o q, 0, p)
         /\ LiesAt(p \o q, Len(p), q)
<1>. DEFINE s == p \o q
<1>1. Len(p) \in Nat /\ Len(q) \in Nat
  BY LenProperties
<1>2. /\ s \in Seq(S) /\ Len(s) = Len(p) + Len(q)
      /\ \A i \in 1..(Len(p) + Len(q)) : s[i] = IF i =< Len(p) THEN p[i] ELSE q[i - Len(p)]
  BY ConcatProperties
<1>. HIDE DEF s
<1>3. LiesAt(s, 0, p)
  BY <1>1, <1>2 DEF LiesAt
<1>4. \A i \in 1..Len(q) : s[Len(p) + i] = q[i]
  <2>. SUFFICES ASSUME NEW i \in 1..Len(q) PROVE s[Len(p) + i] = q[i]
    OBVIOUS
  <2>1. /\ Len(p) + i \in 1..(Len(p) + Len(q))
        /\ ~(Len(p) + i =< Len(p)) /\ (Len(p) + i) - Len(p) = i
    BY <1>1
  <2>. QED
    BY <1>2, <2>1
<1>5. LiesAt(s, Len(p), q)
  BY <1>1, <1>2, <1>4 DEF LiesAt
<1>. QED
  BY <1>2, <1>3, <1>5 DEF s

\* A part of a part, at the sum of the offsets.
LEMMA LiesTransitive ==
  ASSUME NEW S, NEW s \in Seq(S), NEW t \in Seq(S), NEW u \in Seq(S), NEW m, NEW k,
         LiesAt(s, m, t), LiesAt(t, k, u)
  PROVE  LiesAt(s, m + k, u)
<1>1. Len(s) \in Nat /\ Len(t) \in Nat /\ Len(u) \in Nat /\ m \in Nat /\ k \in Nat
  BY LenProperties DEF LiesAt
<1>2. (m + k) + Len(u) =< Len(s)
  BY <1>1 DEF LiesAt
<1>3. ASSUME NEW i \in 1..Len(u) PROVE s[(m + k) + i] = u[i]
  <2>1. k + i \in 1..Len(t) /\ m + (k + i) = (m + k) + i
    BY <1>1 DEF LiesAt
  <2>2. s[m + (k + i)] = t[k + i]
    BY <2>1 DEF LiesAt
  <2>3. t[k + i] = u[i]
    BY DEF LiesAt
  <2>. QED
    BY <2>1, <2>2, <2>3
<1>. QED
  BY <1>1, <1>2, <1>3 DEF LiesAt

\* Appending moves nothing: a part of a prefix keeps its offset.
LEMMA LiesInPrefix ==
  ASSUME NEW S, NEW s \in Seq(S), NEW t \in Seq(S), NEW u \in Seq(S), NEW k,
         LiesAt(s, 0, t), LiesAt(t, k, u)
  PROVE  LiesAt(s, k, u)
<1>1. LiesAt(s, 0 + k, u)
  BY LiesTransitive, Zenon
<1>2. 0 + k = k
  BY DEF LiesAt
<1>. QED
  BY <1>1, <1>2, Zenon

(***************************************************************************)
(* Units                                                                   *)
(***************************************************************************)
LEMMA DivMod ==
  ASSUME NEW a \in Nat, NEW m \in Nat \ {0}
  PROVE  /\ a \div m \in Nat /\ a % m \in 0..(m - 1)
         /\ a = m * (a \div m) + (a % m)
  OBVIOUS

LEMMA DivModUnique ==
  ASSUME NEW m \in Nat \ {0}, NEW q \in Nat, NEW r \in 0..(m - 1)
  PROVE  (q * m + r) \div m = q /\ (q * m + r) % m = r
  OBVIOUS

\* A non-empty set of naturals has a least element, and Min is it.
LEMMA MinIs ==
  ASSUME NEW S \in SUBSET Nat, S # {}
  PROVE  Min(S) \in S /\ \A y \in S : Min(S) =< y
<1>1. \E x \in S : \A y \in S : ~(<<y, x>> \in OpToRel(<, Nat))
  BY NatLessThanWellFounded, WFMin
<1>2. PICK x \in S : \A y \in S : ~(<<y, x>> \in OpToRel(<, Nat))
  BY <1>1
<1>3. \A y \in S : x =< y
  <2>. SUFFICES ASSUME NEW y \in S, ~(x =< y) PROVE FALSE
    OBVIOUS
  <2>1. <<y, x>> \in Nat \X Nat /\ y < x
    OBVIOUS
  <2>2. <<y, x>> \in {ss \in Nat \X Nat : ss[1] < ss[2]}
    BY <2>1
  <2>. QED
    BY <1>2, <2>2 DEF OpToRel
<1>. QED
  BY <1>3 DEF Min

(***************************************************************************)
(* Sorting by rank                                                         *)
(***************************************************************************)
\* The elements of S that R puts before x.
Below(S, R, x) == {y \in S : <<y, x>> \in R}

StrictTotalOrder(S, R) ==
  /\ \A x \in S : <<x, x>> \notin R
  /\ \A x, y \in S : x # y => <<x, y>> \in R \/ <<y, x>> \in R
  /\ \A x, y, z \in S : <<x, y>> \in R /\ <<y, z>> \in R => <<x, z>> \in R

\* A place all whose predecessors belong is the one its number says.
LEMMA LeadingTurn ==
  ASSUME NEW S \in SUBSET (Nat \ {0}), NEW i \in Nat, 1..i \in SUBSET S
  PROVE  Cardinality({j \in S : j =< i}) = i
<1>1. {j \in S : j =< i} = 1..i
  <2>1. ASSUME NEW j \in S, j =< i PROVE j \in 1..i
    BY <2>1
  <2>2. ASSUME NEW j \in 1..i PROVE j \in S /\ j =< i
    BY <2>2
  <2>. QED
    BY <2>1, <2>2
<1>2. Cardinality(1..i) = i
  BY FS_Interval
<1>. QED
  BY <1>1, <1>2

\* The rank of an element of a finite set grows with the order, and every rank
\* below the set's size is taken.
LEMMA Ranking ==
  ASSUME NEW S, IsFiniteSet(S), NEW R, StrictTotalOrder(S, R)
  PROVE  /\ Cardinality(S) \in Nat
         /\ \A x \in S : Cardinality(Below(S, R, x)) \in 0..(Cardinality(S) - 1)
         /\ \A x, y \in S : <<x, y>> \in R => Cardinality(Below(S, R, x)) < Cardinality(Below(S, R, y))
         /\ \A k \in 1..Cardinality(S) : \E x \in S : Cardinality(Below(S, R, x)) = k - 1
<1>. DEFINE n == Cardinality(S)
            Rank(x) == Cardinality(Below(S, R, x))
<1>1. n \in Nat
  BY FS_CardinalityType
<1>2. ASSUME NEW x \in S
      PROVE  IsFiniteSet(Below(S, R, x)) /\ Rank(x) \in 0..(n - 1)
  <2>1. Below(S, R, x) \in SUBSET S /\ Below(S, R, x) # S
    BY DEF Below, StrictTotalOrder
  <2>2. /\ IsFiniteSet(Below(S, R, x))
        /\ Rank(x) <= n
        /\ n = Rank(x) => S = Below(S, R, x)
    BY <2>1, FS_Subset
  <2>3. Rank(x) \in Nat
    BY <2>2, FS_CardinalityType
  <2>. QED
    BY <1>1, <2>1, <2>2, <2>3
<1>3. ASSUME NEW x \in S, NEW y \in S, <<x, y>> \in R
      PROVE  Rank(x) < Rank(y)
  <2>1. Below(S, R, x) \in SUBSET Below(S, R, y)
    BY <1>3 DEF Below, StrictTotalOrder
  <2>2. x \in Below(S, R, y) /\ x \notin Below(S, R, x)
    BY <1>3 DEF Below, StrictTotalOrder
  <2>3. /\ Rank(x) <= Rank(y)
        /\ Rank(y) = Rank(x) => Below(S, R, y) = Below(S, R, x)
    BY <1>2, <2>1, FS_Subset
  <2>4. Rank(x) # Rank(y)
    BY <2>2, <2>3
  <2>. QED
    BY <1>1, <1>2, <2>3, <2>4
<1>4. ASSUME NEW k \in 1..n PROVE \E x \in S : Rank(x) = k - 1
  <2>. DEFINE f == [x \in S |-> Rank(x)]
              T == 0..(n - 1)
  <2>1. f \in [S -> T]
    BY <1>2
  <2>2. ASSUME NEW x \in S, NEW y \in S, f[x] = f[y] PROVE x = y
    <3>1. Rank(x) = Rank(y)
      BY <2>2
    <3>2. Rank(x) \in 0..(n - 1) /\ Rank(y) \in 0..(n - 1)
      BY <1>2
    <3>. HIDE DEF Rank
    <3>3. ~(<<x, y>> \in R) /\ ~(<<y, x>> \in R)
      BY <1>1, <1>3, <3>1, <3>2
    <3>. QED
      BY <3>3 DEF StrictTotalOrder
  <2>3. f \in Injection(S, T)
    BY <2>1, <2>2 DEF Injection, IsInjective
  <2>4. IsFiniteSet(T) /\ Cardinality(T) = n
    <3>1. 0 \in Int /\ n - 1 \in Int
      BY <1>1
    <3>2. /\ IsFiniteSet(0..(n - 1))
          /\ Cardinality(0..(n - 1)) = IF 0 > n - 1 THEN 0 ELSE n - 1 - 0 + 1
      BY <3>1, FS_Interval
    <3>. HIDE DEF n
    <3>. QED
      BY <1>1, <3>2
  <2>5. f \in Surjection(S, T)
    BY <2>3, <2>4, FS_Injection
  <2>6. k - 1 \in T
    BY <1>1
  <2>. QED
    BY <2>5, <2>6 DEF Surjection
<1>. QED
  BY <1>1, <1>2, <1>3, <1>4

\* The element with k - 1 before it.
Placed(S, R, k) == CHOOSE x \in S : Cardinality(Below(S, R, x)) = k - 1

\* Placing every rank lists the set, each element once and in order.
LEMMA Placing ==
  ASSUME NEW S, IsFiniteSet(S), NEW R, StrictTotalOrder(S, R)
  PROVE  /\ Cardinality(S) \in Nat
         /\ \A k \in 1..Cardinality(S) : Placed(S, R, k) \in S
         /\ \A j, k \in 1..Cardinality(S) : j < k => <<Placed(S, R, j), Placed(S, R, k)>> \in R
         /\ \A x \in S : \E k \in 1..Cardinality(S) : Placed(S, R, k) = x
<1>. DEFINE n == Cardinality(S)
            rank(x) == Cardinality(Below(S, R, x))
            place(k) == CHOOSE x \in S : rank(x) = k - 1
<1>1. /\ n \in Nat
      /\ \A x \in S : rank(x) \in 0..(n - 1)
      /\ \A x, y \in S : <<x, y>> \in R => rank(x) < rank(y)
      /\ \A k \in 1..n : \E x \in S : rank(x) = k - 1
  BY Ranking
<1>2. \A k : Placed(S, R, k) = place(k)
  BY DEF Placed
<1>. HIDE DEF n, rank
<1>3. ASSUME NEW k \in 1..n PROVE place(k) \in S /\ rank(place(k)) = k - 1
  <2>1. \E x \in S : rank(x) = k - 1
    BY <1>1
  <2>. QED
    BY <2>1
<1>. HIDE DEF place
<1>4. ASSUME NEW x \in S, NEW y \in S, ~(rank(y) < rank(x)), x # y PROVE <<x, y>> \in R
  BY <1>1, <1>4 DEF StrictTotalOrder
<1>5. ASSUME NEW j \in 1..n, NEW k \in 1..n, j < k PROVE <<place(j), place(k)>> \in R
  <2>1. /\ place(j) \in S /\ rank(place(j)) = j - 1
        /\ place(k) \in S /\ rank(place(k)) = k - 1
    BY <1>3
  <2>2. ~(rank(place(k)) < rank(place(j))) /\ place(j) # place(k)
    BY <1>1, <1>5, <2>1
  <2>. QED
    BY <1>4, <2>1, <2>2
<1>6. ASSUME NEW x \in S PROVE \E k \in 1..n : place(k) = x
  <2>. DEFINE k == rank(x) + 1
  <2>1. k \in 1..n /\ rank(x) = k - 1
    BY <1>1
  <2>2. place(k) \in S /\ rank(place(k)) = k - 1
    BY <1>3, <2>1
  <2>. HIDE DEF k
  <2>3. ~(rank(x) < rank(place(k))) /\ ~(rank(place(k)) < rank(x))
    BY <1>1, <2>1, <2>2
  <2>4. place(k) = x
    BY <1>1, <2>2, <2>3 DEF StrictTotalOrder
  <2>. QED
    BY <2>1, <2>4
<1>7. \A k \in 1..n : Placed(S, R, k) \in S
  BY <1>2, <1>3
<1>8. \A j, k \in 1..n : j < k => <<Placed(S, R, j), Placed(S, R, k)>> \in R
  BY <1>2, <1>5
<1>9. \A x \in S : \E k \in 1..n : Placed(S, R, k) = x
  BY <1>2, <1>6
<1>. QED
  BY <1>1, <1>7, <1>8, <1>9 DEF n

(***************************************************************************)
(* Segments in order of address                                            *)
(***************************************************************************)
\* A stable sort of segments by address: ties stay in place.
Precedes(segs, i, j) ==
  \/ segs[i].addr < segs[j].addr
  \/ segs[i].addr = segs[j].addr /\ i < j

\* The index in S of the k-th segment: the one with k - 1 before it.
PlaceIn(segs, S, k) == CHOOSE i \in S : Cardinality({j \in S : Precedes(segs, j, i)}) = k - 1

\* Sorting loses no segment, takes none twice, and puts them in order of address.
LEMMA AddressOrder ==
  ASSUME NEW T, \A t \in T : t.addr \in Nat, NEW segs \in Seq(T), NEW S \in SUBSET DOMAIN segs
  PROVE  /\ Cardinality(S) \in Nat
         /\ \A k \in 1..Cardinality(S) : PlaceIn(segs, S, k) \in S /\ segs[PlaceIn(segs, S, k)] \in T
         /\ \A j, k \in 1..Cardinality(S) : j < k => Precedes(segs, PlaceIn(segs, S, j), PlaceIn(segs, S, k))
         /\ \A i \in S : \E k \in 1..Cardinality(S) : PlaceIn(segs, S, k) = i
<1>. DEFINE n == Cardinality(S)
            seg(i) == segs[i]
            R == {p \in S \X S : Precedes(segs, p[1], p[2])}
            rank(i) == Cardinality({j \in S : Precedes(segs, j, i)})
<1>1. Len(segs) \in Nat /\ DOMAIN segs = 1..Len(segs)
  BY LenProperties
<1>2. IsFiniteSet(S)
  <2>1. S \in SUBSET (1..Len(segs))
    BY <1>1
  <2>2. IsFiniteSet(1..Len(segs))
    BY <1>1, FS_Interval
  <2>. QED
    BY <2>1, <2>2, FS_Subset
<1>3. \A i \in S : i \in Int /\ seg(i) \in T /\ seg(i).addr \in Nat
  <2>. SUFFICES ASSUME NEW i \in S PROVE i \in Int /\ seg(i) \in T /\ seg(i).addr \in Nat
    OBVIOUS
  <2>1. i \in 1..Len(segs)
    BY <1>1
  <2>2. seg(i) \in T
    BY <1>1, <2>1, ElementOfSeq
  <2>. QED
    BY <2>1, <2>2
<1>4. \A i, j \in S : <<i, j>> \in R <=> Precedes(segs, i, j)
  OBVIOUS
<1>5. StrictTotalOrder(S, R)
  <2>1. \A x \in S : ~Precedes(segs, x, x)
    BY <1>3 DEF Precedes
  <2>2. \A x, y \in S : x # y => Precedes(segs, x, y) \/ Precedes(segs, y, x)
    BY <1>3 DEF Precedes
  <2>3. \A x, y, z \in S : Precedes(segs, x, y) /\ Precedes(segs, y, z) => Precedes(segs, x, z)
    BY <1>3 DEF Precedes
  <2>. HIDE DEF R
  <2>. QED
    BY <1>4, <2>1, <2>2, <2>3 DEF StrictTotalOrder
<1>6. \A x \in S : Below(S, R, x) = {j \in S : Precedes(segs, j, x)}
  BY <1>4 DEF Below
<1>. HIDE DEF R
<1>7. /\ n \in Nat
      /\ \A x \in S : rank(x) \in 0..(n - 1)
      /\ \A x, y \in S : Precedes(segs, x, y) => rank(x) < rank(y)
      /\ \A k \in 1..n : \E x \in S : rank(x) = k - 1
  <2>1. /\ n \in Nat
        /\ \A x \in S : Cardinality(Below(S, R, x)) \in 0..(n - 1)
        /\ \A x, y \in S : <<x, y>> \in R => Cardinality(Below(S, R, x)) < Cardinality(Below(S, R, y))
        /\ \A k \in 1..n : \E x \in S : Cardinality(Below(S, R, x)) = k - 1
    BY <1>2, <1>5, Ranking
  <2>. QED
    BY <1>4, <1>6, <2>1
<1>. HIDE DEF n, rank
<1>8. \A k \in 1..n : PlaceIn(segs, S, k) \in S /\ rank(PlaceIn(segs, S, k)) = k - 1
  <2>. SUFFICES ASSUME NEW k \in 1..n PROVE PlaceIn(segs, S, k) \in S /\ rank(PlaceIn(segs, S, k)) = k - 1
    OBVIOUS
  <2>1. PlaceIn(segs, S, k) = CHOOSE i \in S : rank(i) = k - 1
    BY DEF PlaceIn, rank
  <2>2. \E x \in S : rank(x) = k - 1
    BY <1>7
  <2>. QED
    BY <2>1, <2>2
<1>9. \A j, k \in 1..n : j < k => Precedes(segs, PlaceIn(segs, S, j), PlaceIn(segs, S, k))
  <2>. SUFFICES ASSUME NEW j \in 1..n, NEW k \in 1..n, j < k PROVE Precedes(segs, PlaceIn(segs, S, j), PlaceIn(segs, S, k))
    OBVIOUS
  <2>. DEFINE x == PlaceIn(segs, S, j)
              y == PlaceIn(segs, S, k)
  <2>1. x \in S /\ y \in S /\ rank(x) = j - 1 /\ rank(y) = k - 1
    BY <1>8
  <2>. HIDE DEF x, y
  <2>2. x # y /\ ~(rank(y) < rank(x))
    BY <1>7, <2>1
  <2>3. Precedes(segs, x, y) \/ Precedes(segs, y, x)
    BY <1>4, <1>5, <2>1, <2>2 DEF StrictTotalOrder
  <2>4. Precedes(segs, x, y)
    BY <1>7, <2>1, <2>2, <2>3
  <2>. QED
    BY <2>4 DEF x, y
<1>10. \A i \in S : \E k \in 1..n : PlaceIn(segs, S, k) = i
  <2>. SUFFICES ASSUME NEW i \in S PROVE \E k \in 1..n : PlaceIn(segs, S, k) = i
    OBVIOUS
  <2>. DEFINE k == rank(i) + 1
              y == PlaceIn(segs, S, k)
  <2>1. k \in 1..n /\ rank(i) = k - 1
    BY <1>7
  <2>2. y \in S /\ rank(y) = k - 1
    BY <1>8, <2>1
  <2>. HIDE DEF k, y
  <2>3. ~(rank(i) < rank(y)) /\ ~(rank(y) < rank(i))
    BY <1>7, <2>1, <2>2
  <2>4. y = i
    BY <1>4, <1>5, <1>7, <2>2, <2>3 DEF StrictTotalOrder
  <2>. QED
    BY <2>1, <2>4 DEF y
<1>. QED
  BY <1>3, <1>7, <1>8, <1>9, <1>10 DEF n

\* `(n + page - 1) & !(page - 1)` in a width of u64.
RoundedUp(n, page, u64) == ((((n + page - 1) % u64) \div page) * page)

\* Where nothing wraps, the next multiple of a page, which a u32 holds.
LEMMA RoundedUpIs ==
  ASSUME NEW n \in Nat, NEW page \in Nat \ {0}, NEW u32 \in Nat \ {0}, NEW u64 \in Nat \ {0}, u32 =< u64, n + page =< u32
  PROVE  /\ RoundedUp(n, page, u64) = ((n + page - 1) \div page) * page
         /\ RoundedUp(n, page, u64) \in n..(n + page - 1)
         /\ RoundedUp(n, page, u64) % u32 = RoundedUp(n, page, u64)
<1>. DEFINE m == n + page - 1
            q == m \div page
            r == m % page
            w == q * page
<1>1. page \in Nat \ {0} /\ u32 \in Nat \ {0} /\ u64 \in Nat \ {0} /\ u32 =< u64
  OBVIOUS
<1>2. m \in 0..(u64 - 1) /\ m \in Nat /\ m = n + page - 1 /\ 0 \in Nat /\ 0 * u64 + m = m
  BY <1>1
<1>. HIDE DEF m
<1>3. m % u64 = m
  BY <1>1, <1>2, DivModUnique
<1>4. q \in Nat /\ r \in 0..(page - 1) /\ m = page * q + r
  BY <1>1, <1>2, DivMod, Zenon
<1>5. w \in Nat /\ w = page * q
  BY <1>1, <1>4
<1>6. RoundedUp(n, page, u64) = w
  BY <1>3 DEF RoundedUp, m
<1>. HIDE DEF q, r, w
<1>7. w \in n..(n + page - 1)
  BY <1>1, <1>2, <1>4, <1>5
<1>8. w \in 0..(u32 - 1) /\ 0 * u32 + w = w
  BY <1>1, <1>7
<1>9. w % u32 = w
  BY <1>1, <1>2, <1>8, DivModUnique
<1>. QED
  BY <1>6, <1>7, <1>9 DEF w, q, m

\* Three segments that store bytes and a fourth of bss at most, in order of address.
LaidInOrder(L, n, page, u32, u64) ==
  /\ \A j \in 1..n : /\ L[j].addr \in Nat /\ L[j].memsz \in Nat /\ L[j].bytes \in Seq(Int)
                     /\ Len(L[j].bytes) \in 0..L[j].memsz
                     /\ L[j].addr + L[j].memsz + page =< u32
  /\ \A i, j \in 1..n : i < j => L[i].addr < L[j].addr /\ L[i].addr + L[i].memsz =< L[j].addr
  /\ n = 4 => L[4].bytes = <<>> /\ L[4].addr =< L[3].addr + RoundedUp(Len(L[3].bytes), page, u64)

\* Three segments, or four of which the last is bss, none of which overlap.
LEMMA ApartInOrder ==
  ASSUME NEW T, \A t \in T : t.addr \in Nat /\ t.memsz \in Nat /\ t.bytes \in Seq(Int),
         NEW segs \in Seq(T), NEW S \in SUBSET DOMAIN segs, NEW page, NEW u32, NEW u64,
         \A i \in S : Len(segs[i].bytes) =< segs[i].memsz /\ segs[i].addr + segs[i].memsz + page =< u32,
         \A i, j \in S : i # j => (segs[i].addr < segs[j].addr /\ segs[i].addr + segs[i].memsz =< segs[j].addr)
                                 \/ (segs[j].addr < segs[i].addr /\ segs[j].addr + segs[j].memsz =< segs[i].addr),
         Cardinality(S) = 3 \/ Cardinality(S) = 4,
         Cardinality(S) # 3 =>
           \E bss, data \in S :
             /\ data # bss /\ \A i \in S \ {bss} : segs[i].addr =< segs[data].addr /\ segs[i].addr < segs[bss].addr
             /\ segs[bss].bytes = <<>>
             /\ segs[bss].addr =< segs[data].addr + RoundedUp(Len(segs[data].bytes), page, u64)
  PROVE  LET n == Cardinality(S)
             L == [k \in 1..Cardinality(S) |-> segs[PlaceIn(segs, S, k)]]
         IN  /\ n \in {3, 4} /\ DOMAIN L = 1..n /\ Len(L) = n
             /\ LaidInOrder(L, n, page, u32, u64)
             /\ \A i \in S : \E k \in 1..n : segs[i] = L[k]
<1>. DEFINE n == Cardinality(S)
            L == [k \in 1..Cardinality(S) |-> segs[PlaceIn(segs, S, k)]]
            seg(i) == segs[i]
            rounded(x) == RoundedUp(x, page, u64)
<1>1. /\ n \in Nat /\ L \in [1..n -> T]
      /\ \A k \in 1..n : PlaceIn(segs, S, k) \in S /\ L[k] = seg(PlaceIn(segs, S, k))
      /\ \A j, k \in 1..n : j < k => Precedes(segs, PlaceIn(segs, S, j), PlaceIn(segs, S, k))
      /\ \A i \in S : \E k \in 1..n : PlaceIn(segs, S, k) = i
  BY AddressOrder, SMTT(60)
<1>2. /\ \A i \in S : Len(seg(i).bytes) =< seg(i).memsz /\ seg(i).addr + seg(i).memsz + page =< u32
      /\ \A i, j \in S : i # j => \/ seg(i).addr < seg(j).addr /\ seg(i).addr + seg(i).memsz =< seg(j).addr
                                  \/ seg(j).addr < seg(i).addr /\ seg(j).addr + seg(j).memsz =< seg(i).addr
      /\ n = 3 \/ n = 4
      /\ n # 3 => \E bss, data \in S :
                 /\ data # bss /\ \A i \in S \ {bss} : seg(i).addr =< seg(data).addr /\ seg(i).addr < seg(bss).addr
                 /\ seg(bss).bytes = <<>>
                 /\ seg(bss).addr =< seg(data).addr + rounded(Len(seg(data).bytes))
  OBVIOUS
<1>. HIDE DEF n, L, rounded
<1>3. Len(L) = n /\ DOMAIN L = 1..n
  BY <1>1
<1>4. ASSUME NEW k \in 1..n
      PROVE  /\ L[k].addr \in Nat /\ L[k].memsz \in Nat /\ L[k].bytes \in Seq(Int) /\ Len(L[k].bytes) \in Nat
             /\ Len(L[k].bytes) =< L[k].memsz /\ L[k].addr + L[k].memsz + page =< u32
  <2>1. L[k] \in T
    BY <1>1
  <2>2. L[k].addr \in Nat /\ L[k].memsz \in Nat /\ L[k].bytes \in Seq(Int)
    BY <2>1
  <2>3. Len(L[k].bytes) \in Nat
    BY <2>2, LenProperties
  <2>4. L[k].addr \in Nat /\ L[k].memsz \in Nat
    BY <2>2
  <2>5. PlaceIn(segs, S, k) \in S /\ L[k] = seg(PlaceIn(segs, S, k))
    BY <1>1
  <2>6. Len(L[k].bytes) =< L[k].memsz /\ L[k].addr + L[k].memsz + page =< u32
    BY <1>2, <2>5
  <2>. QED
    BY <2>2, <2>3, <2>4, <2>6
<1>5. ASSUME NEW j \in 1..n, NEW k \in 1..n, j < k
      PROVE  L[j].addr < L[k].addr /\ L[j].addr + L[j].memsz =< L[k].addr
  <2>. DEFINE x == PlaceIn(segs, S, j)
              y == PlaceIn(segs, S, k)
  <2>1. x \in S /\ y \in S /\ L[j] = seg(x) /\ L[k] = seg(y) /\ Precedes(segs, x, y)
    BY <1>1, <1>5
  <2>. HIDE DEF x, y
  <2>2. seg(x).addr \in Nat /\ seg(y).addr \in Nat
    BY <1>4, <2>1
  <2>3. x \in Int
    <3>1. DOMAIN segs = 1..Len(segs)
      BY LenProperties
    <3>. QED
      BY <2>1, <3>1 
  <2>4. x # y /\ ~(seg(y).addr < seg(x).addr)
    BY <2>1, <2>2, <2>3 DEF Precedes
  <2>5. seg(x).addr < seg(y).addr /\ seg(x).addr + seg(x).memsz =< seg(y).addr
    BY <1>2, <2>1, <2>4
  <2>. QED
    BY <2>1, <2>5
<1>6. ASSUME n = 4 PROVE L[4].bytes = <<>> /\ L[4].addr =< L[3].addr + rounded(Len(L[3].bytes))
  <2>1. PICK bss \in S, data \in S :
          /\ data # bss /\ \A i \in S \ {bss} : seg(i).addr =< seg(data).addr /\ seg(i).addr < seg(bss).addr
          /\ seg(bss).bytes = <<>>
          /\ seg(bss).addr =< seg(data).addr + rounded(Len(seg(data).bytes))
    BY <1>2, <1>6
  <2>2. 1 \in 1..n /\ 2 \in 1..n /\ 3 \in 1..n /\ 4 \in 1..n /\ \A k \in 1..n : k = 1 \/ k = 2 \/ k = 3 \/ k = 4
    BY <1>6
  <2>3. /\ L[1].addr < L[4].addr /\ L[2].addr < L[4].addr /\ L[3].addr < L[4].addr
        /\ L[1].addr < L[3].addr /\ L[2].addr < L[3].addr
    BY <1>5, <2>2
  <2>4. L[1].addr \in Nat /\ L[2].addr \in Nat /\ L[3].addr \in Nat /\ L[4].addr \in Nat
    BY <1>4, <2>2
  <2>5. bss = PlaceIn(segs, S, 4)
    <3>. SUFFICES ASSUME bss # PlaceIn(segs, S, 4) PROVE FALSE
      OBVIOUS
    <3>1. PlaceIn(segs, S, 4) \in S \ {bss} /\ seg(PlaceIn(segs, S, 4)) = L[4]
      BY <1>1, <2>2
    <3>2. PICK k \in 1..n : PlaceIn(segs, S, k) = bss
      BY <1>1
    <3>3. seg(bss) = L[k] /\ L[4].addr < L[k].addr
      BY <1>1, <2>1, <3>1, <3>2
    <3>4. k = 1 \/ k = 2 \/ k = 3 \/ k = 4
      BY <2>2
    <3>5. ~(L[4].addr < L[1].addr) /\ ~(L[4].addr < L[2].addr) /\ ~(L[4].addr < L[3].addr) /\ ~(L[4].addr < L[4].addr)
      <4>. HIDE DEF L
      <4>. QED
        BY ONLY <2>3, <2>4, SMTT(60)
    <3>. QED
      BY <3>3, <3>4, <3>5
  <2>6. data = PlaceIn(segs, S, 3)
    <3>. SUFFICES ASSUME data # PlaceIn(segs, S, 3) PROVE FALSE
      OBVIOUS
    <3>1. PlaceIn(segs, S, 3) \in S /\ seg(PlaceIn(segs, S, 3)) = L[3] /\ seg(PlaceIn(segs, S, 4)) = L[4]
      BY <1>1, <2>2
    <3>2. PlaceIn(segs, S, 3) # bss
      BY <2>3, <2>4, <2>5, <3>1
    <3>3. L[3].addr =< seg(data).addr
      BY <2>1, <3>1, <3>2
    <3>4. PICK k \in 1..n : PlaceIn(segs, S, k) = data
      BY <1>1
    <3>5. seg(data) = L[k] /\ k # 3 /\ k # 4
      BY <1>1, <2>1, <2>5, <3>4
    <3>. QED
      BY <2>2, <2>3, <2>4, <3>3, <3>5, SMTT(60)
  <2>7. seg(bss) = L[4] /\ seg(data) = L[3]
    BY <1>1, <2>2, <2>5, <2>6
  <2>. QED
    BY <2>1, <2>7
<1>7. \A i \in S : \E k \in 1..n : seg(i) = L[k]
  BY <1>1
<1>8. \A k \in 1..n : Len(L[k].bytes) \in 0..L[k].memsz
  BY <1>4
<1>9. n \in {3, 4}
  BY <1>2
<1>10. LaidInOrder(L, n, page, u32, u64)
  BY <1>4, <1>5, <1>6, <1>8 DEF LaidInOrder, rounded
<1>. QED
  BY <1>3, <1>7, <1>9, <1>10 DEF n, L

\* Bytes with zeros up to the next multiple of a page.
PagePadded(bytes, page) ==
  [i \in 1..(((Len(bytes) + page - 1) \div page) * page) |-> IF i =< Len(bytes) THEN bytes[i] ELSE 0]

LEMMA PagePaddedIs ==
  ASSUME NEW bytes \in Seq(Int), NEW page \in Nat \ {0}
  PROVE  /\ PagePadded(bytes, page) \in Seq(Int)
         /\ Len(PagePadded(bytes, page)) = ((Len(bytes) + page - 1) \div page) * page
         /\ Len(PagePadded(bytes, page)) \in Len(bytes)..(Len(bytes) + page - 1)
         /\ \A i \in 1..Len(PagePadded(bytes, page)) : PagePadded(bytes, page)[i] = IF i =< Len(bytes) THEN bytes[i] ELSE 0
<1>. DEFINE m == Len(bytes) + page - 1
            q == m \div page
            n == q * page
<1>1. page \in Nat \ {0} /\ Len(bytes) \in Nat
  BY LenProperties
<1>2. m \in Nat
  BY <1>1
<1>3. q \in Nat /\ m % page \in 0..(page - 1) /\ m = page * q + (m % page)
  BY <1>1, <1>2, DivMod, Zenon
<1>4. n \in Nat /\ n = page * q
  BY <1>1, <1>3
<1>5. n \in Len(bytes)..(Len(bytes) + page - 1)
  <2>. DEFINE r == m % page
  <2>1. m = n + r /\ r \in 0..(page - 1) /\ m = Len(bytes) + page - 1
    BY <1>3, <1>4
  <2>. HIDE DEF r, m, n
  <2>. QED
    BY <1>1, <1>4, <2>1
<1>6. PagePadded(bytes, page) = [i \in 1..n |-> IF i =< Len(bytes) THEN bytes[i] ELSE 0]
  BY DEF PagePadded
<1>. HIDE DEF n
<1>7. \A i \in 1..n : (IF i =< Len(bytes) THEN bytes[i] ELSE 0) \in Int
  <2>. SUFFICES ASSUME NEW i \in 1..n, i =< Len(bytes) PROVE bytes[i] \in Int
    OBVIOUS
  <2>. QED
    BY <1>1, ElementOfSeq
<1>8. PagePadded(bytes, page) \in Seq(Int) /\ Len(PagePadded(bytes, page)) = n
  BY <1>4, <1>6, <1>7
<1>. QED
  BY <1>5, <1>6, <1>8 DEF n, q, m

\* The address a lies in the memory of the k-th segment.
InSegment(L, k, a) == a \in L[k].addr..(L[k].addr + L[k].memsz - 1)

\* What that segment has there: its bytes, then zeros.
OwnByte(L, k, a) == IF a - L[k].addr < Len(L[k].bytes) THEN L[k].bytes[a - L[k].addr + 1] ELSE 0

\* The segments written in order, each padded to a page: the last one covering a.
LoadedByte(L, page, u64, a) ==
  LET covers(j) == a \in L[j].addr..(L[j].addr + RoundedUp(Len(L[j].bytes), page, u64) - 1)
      byte(j) == PagePadded(L[j].bytes, page)[a - L[j].addr + 1]
  IN  IF covers(3) THEN byte(3) ELSE IF covers(2) THEN byte(2) ELSE IF covers(1) THEN byte(1) ELSE 0

DataEnd(L, page, u64) == L[3].addr + RoundedUp(Len(L[3].bytes), page, u64)

\* The memory of a fourth segment, or what data asks for past its last page.
BssAfter(L, n, page, u32, u64) ==
  LET stored == RoundedUp(Len(L[3].bytes), page, u64)
  IN  (IF n >= 4 THEN RoundedUp(L[4].memsz, page, u64)
       ELSE IF L[3].memsz > Len(L[3].bytes) /\ L[3].memsz > stored
            THEN RoundedUp(L[3].memsz - stored, page, u64) ELSE 0) % u32

\* What a loader has at an address when the segments are written in order, each
\* padded to a page: the last one that covers the address.
LEMMA LoadedInOrder ==
  ASSUME NEW page \in Nat \ {0}, NEW u32 \in Nat \ {0}, NEW u64 \in Nat \ {0}, u32 =< u64,
         NEW n \in {3, 4}, NEW L, LaidInOrder(L, n, page, u32, u64),
         NEW k \in 1..n, NEW a, InSegment(L, k, a)
  PROVE  /\ a \in Nat /\ a < DataEnd(L, page, u64) + BssAfter(L, n, page, u32, u64)
         /\ LoadedByte(L, page, u64, a) = OwnByte(L, k, a)
<1>. DEFINE A(j) == L[j].addr
            M(j) == L[j].memsz
            N(j) == Len(L[j].bytes)
            rounded(x) == RoundedUp(x, page, u64)
            R(j) == rounded(N(j))
            C(j) == a \in A(j)..(A(j) + R(j) - 1)
            P(j) == PagePadded(L[j].bytes, page)[a - A(j) + 1]
            full == IF n >= 4 THEN rounded(M(4))
                    ELSE IF M(3) > N(3) /\ M(3) > R(3) THEN rounded(M(3) - R(3)) ELSE 0
            bss == full % u32
            want == IF a - A(k) < N(k) THEN L[k].bytes[a - A(k) + 1] ELSE 0
<1>0. page \in Nat \ {0} /\ u32 \in Nat \ {0} /\ u64 \in Nat \ {0} /\ u32 =< u64 /\ (n = 3 \/ n = 4)
  OBVIOUS
<1>1. \A j \in 1..n : A(j) \in Nat /\ M(j) \in Nat /\ N(j) \in 0..M(j) /\ A(j) + M(j) + page =< u32
  BY DEF LaidInOrder
<1>2. \A x \in Nat : x + page =< u32 => rounded(x) \in x..(x + page - 1) /\ rounded(x) % u32 = rounded(x)
  BY <1>0, RoundedUpIs
<1>3. \A j \in 1..n : N(j) \in Nat /\ N(j) + page =< u32
  <2>. HIDE DEF A, M, N
  <2>. QED
    BY <1>0, <1>1
<1>4. ASSUME NEW j \in 1..n, C(j) PROVE P(j) = IF a - A(j) < N(j) THEN L[j].bytes[a - A(j) + 1] ELSE 0
  <2>1. L[j].bytes \in Seq(Int) /\ N(j) \in Nat /\ N(j) + page =< u32 /\ A(j) \in Nat
    BY <1>1, <1>3 DEF LaidInOrder
  <2>2. R(j) = ((N(j) + page - 1) \div page) * page
    BY <1>0, <2>1, RoundedUpIs
  <2>3. R(j) \in N(j)..(N(j) + page - 1)
    BY <1>0, <2>1, RoundedUpIs
  <2>4. /\ Len(PagePadded(L[j].bytes, page)) = R(j)
        /\ \A i \in 1..R(j) : PagePadded(L[j].bytes, page)[i] = IF i =< N(j) THEN L[j].bytes[i] ELSE 0
    <3>. DEFINE u == L[j].bytes
                v == PagePadded(u, page)
    <3>. HIDE DEF u
    <3>1. u \in Seq(Int)
      BY <2>1 DEF u
    <3>2. /\ Len(v) = ((Len(u) + page - 1) \div page) * page
          /\ \A i \in 1..Len(v) : v[i] = IF i =< Len(u) THEN u[i] ELSE 0
      BY <1>0, <3>1, PagePaddedIs, Zenon
    <3>3. Len(v) = R(j)
      BY <2>2, <3>2 DEF u
    <3>. HIDE DEF v
    <3>4. \A i \in 1..R(j) : v[i] = IF i =< Len(u) THEN u[i] ELSE 0
      BY <3>2, <3>3
    <3>. QED
      BY <3>3, <3>4 DEF u, v
  <2>. DEFINE i == a - A(j) + 1
  <2>5. i \in 1..R(j) /\ (i =< N(j) <=> a - A(j) < N(j))
    <3>1. a \in A(j)..(A(j) + R(j) - 1)
      BY <1>4
    <3>2. N(j) \in Nat /\ A(j) \in Nat /\ R(j) \in N(j)..(N(j) + page - 1)
      BY <2>1, <2>3
    <3>. HIDE DEF A, N, R, C
    <3>. QED
      BY <1>0, <3>1, <3>2
  <2>. HIDE DEF i
  <2>6. PagePadded(L[j].bytes, page)[i] = IF i =< N(j) THEN L[j].bytes[i] ELSE 0
    BY <2>4, <2>5, Zenon
  <2>. QED
    BY <2>5, <2>6 DEF i
<1>5. \A i, j \in 1..n : i < j => A(i) < A(j) /\ A(i) + M(i) =< A(j)
  BY DEF LaidInOrder
<1>6. n = 4 => N(4) = 0 /\ A(4) =< A(3) + R(3)
  BY DEF LaidInOrder
<1>7. a \in A(k)..(A(k) + M(k) - 1) /\ k \in 1..n
  BY DEF InSegment
<1>8. /\ R(1) \in N(1)..(N(1) + page - 1) /\ R(2) \in N(2)..(N(2) + page - 1)
      /\ R(3) \in N(3)..(N(3) + page - 1)
  <2>. HIDE DEF N, rounded
  <2>1. 1 \in 1..n /\ 2 \in 1..n /\ 3 \in 1..n
    BY <1>0
  <2>. QED
    BY <1>2, <1>3, <2>1
<1>. HIDE DEF A, M, N, rounded, R
<1>9. /\ A(1) \in Nat /\ M(1) \in Nat /\ N(1) \in 0..M(1) /\ A(1) < A(2) /\ A(1) + M(1) =< A(2)
      /\ A(2) \in Nat /\ M(2) \in Nat /\ N(2) \in 0..M(2) /\ A(2) < A(3) /\ A(2) + M(2) =< A(3)
      /\ A(3) \in Nat /\ M(3) \in Nat /\ N(3) \in 0..M(3) /\ A(3) + M(3) + page =< u32
      /\ n = 4 => A(4) \in Nat /\ M(4) \in Nat /\ A(4) + M(4) + page =< u32 /\ A(3) < A(4) /\ A(3) + M(3) =< A(4)
  BY <1>0, <1>1, <1>5
<1>10. /\ bss \in Nat
       /\ n = 4 => bss >= M(4)
       /\ n = 3 /\ M(3) > R(3) => bss >= M(3) - R(3)
  <2>1. CASE n = 4
    <3>1. M(4) \in Nat /\ M(4) + page =< u32
      BY <1>0, <1>9, <2>1
    <3>2. full = rounded(M(4))
      BY <2>1
    <3>3. full \in M(4)..(M(4) + page - 1) /\ bss = full
      BY <1>2, <3>1, <3>2
    <3>. HIDE DEF bss, full
    <3>. QED
      BY <1>0, <2>1, <3>1, <3>3
  <2>2. CASE n = 3 /\ M(3) > R(3)
    <3>. DEFINE x == M(3) - R(3)
    <3>1. x \in Nat /\ x + page =< u32 /\ M(3) > N(3)
      BY <1>0, <1>8, <1>9, <2>2
    <3>2. full = rounded(x)
      BY <2>2, <3>1
    <3>. HIDE DEF x, full
    <3>3. full \in x..(x + page - 1) /\ bss = full
      BY <1>2, <3>1, <3>2
    <3>. HIDE DEF bss
    <3>4. bss \in Nat /\ bss >= x
      BY <1>0, <3>1, <3>3
    <3>. QED
      BY <2>2, <3>4 DEF x
  <2>3. CASE n = 3 /\ ~(M(3) > R(3))
    <3>1. full = 0
      BY <2>3
    <3>2. 0 % u32 = 0
      <4>1. 0 \in Nat /\ 0 \in 0..(u32 - 1) /\ 0 * u32 + 0 = 0
        BY <1>0
      <4>. QED
        BY <1>0, <4>1, DivModUnique
    <3>. HIDE DEF full
    <3>. QED
      BY <2>3, <3>1, <3>2
  <2>. QED
    BY <1>0, <2>1, <2>2, <2>3
<1>. HIDE DEF bss
<1>11. a \in Nat /\ A(k) =< a /\ a < A(k) + M(k)
  BY <1>1, <1>7
<1>12. k = 1 \/ k = 2 \/ k = 3 \/ (k = 4 /\ n = 4)
  BY <1>0, <1>7
<1>13. a < A(3) + R(3) + bss
  <2>1. CASE k = 1 \/ k = 2
    BY <1>8, <1>9, <1>10, <1>11, <2>1
  <2>2. CASE k = 3
    <3>1. CASE n = 4
      BY <1>0, <1>6, <1>8, <1>9, <1>10, <1>11, <2>2, <3>1
    <3>2. CASE n = 3
      BY <1>0, <1>8, <1>9, <1>10, <1>11, <2>2, <3>2
    <3>. QED
      BY <1>0, <3>1, <3>2
  <2>3. CASE k = 4 /\ n = 4
    BY <1>0, <1>6, <1>8, <1>9, <1>10, <1>11, <2>3
  <2>. QED
    BY <1>12, <2>1, <2>2, <2>3
<1>14. (IF C(3) THEN P(3) ELSE IF C(2) THEN P(2) ELSE IF C(1) THEN P(1) ELSE 0) = want
  <2>. DEFINE own(j) == IF a - A(j) < N(j) THEN L[j].bytes[a - A(j) + 1] ELSE 0
  <2>0. 1 \in 1..n /\ 2 \in 1..n /\ 3 \in 1..n
    BY <1>0
  <2>1. (C(1) => P(1) = own(1)) /\ (C(2) => P(2) = own(2)) /\ (C(3) => P(3) = own(3))
    BY <1>4, <2>0
  <2>2. want = own(k)
    OBVIOUS
  <2>3. \A j \in 1..n : ~(a - A(j) < N(j)) => own(j) = 0
    OBVIOUS
  <2>. HIDE DEF P, own, want
  <2>4. CASE k = 1
    <3>1. ~C(2) /\ ~C(3) /\ (~C(1) => ~(a - A(1) < N(1)))
      BY <1>8, <1>9, <1>11, <2>4
    <3>. HIDE DEF C
    <3>. QED
      BY <2>0, <2>1, <2>2, <2>3, <2>4, <3>1
  <2>5. CASE k = 2
    <3>1. ~C(3) /\ ~(a - A(1) < N(1)) /\ (~C(2) => ~(a - A(2) < N(2)))
      BY <1>8, <1>9, <1>11, <2>5
    <3>. HIDE DEF C
    <3>. QED
      BY <2>0, <2>1, <2>2, <2>3, <2>5, <3>1
  <2>6. CASE k = 3
    <3>1. ~(a - A(1) < N(1)) /\ ~(a - A(2) < N(2)) /\ (~C(3) => ~(a - A(3) < N(3)))
      BY <1>8, <1>9, <1>11, <2>6
    <3>. HIDE DEF C
    <3>. QED
      BY <2>0, <2>1, <2>2, <2>3, <2>6, <3>1
  <2>7. CASE k = 4 /\ n = 4
    <3>1. ~(a - A(1) < N(1)) /\ ~(a - A(2) < N(2)) /\ ~(a - A(3) < N(3)) /\ ~(a - A(4) < N(4)) /\ 4 \in 1..n
      BY <1>6, <1>8, <1>9, <1>11, <2>7
    <3>. HIDE DEF C
    <3>. QED
      BY <2>0, <2>1, <2>2, <2>3, <2>7, <3>1
  <2>. QED
    BY <1>12, <2>4, <2>5, <2>6, <2>7
<1>. QED
  BY <1>11, <1>13, <1>14 DEF LoadedByte, OwnByte, DataEnd, BssAfter, A, M, N, rounded, R, bss

(***************************************************************************)
(* Sums over a finite set                                                  *)
(***************************************************************************)
\* `iter` of the sum of f over S.
SumsUp(g, f, S) ==
  g = [s \in SUBSET S |-> IF s = {} THEN 0 ELSE f[CHOOSE x \in s : TRUE] + g[s \ {CHOOSE x \in s : TRUE}]]

\* The same for the subsets with at most n elements.
SumsUpTo(g, f, S, n) ==
  LET Small == {s \in SUBSET S : Cardinality(s) =< n}
  IN  g = [s \in Small |-> IF s = {} THEN 0 ELSE f[CHOOSE x \in s : TRUE] + g[s \ {CHOOSE x \in s : TRUE}]]

LEMMA SumsExist ==
  ASSUME NEW S, IsFiniteSet(S), NEW f
  PROVE  \E g : SumsUp(g, f, S)
<1>. DEFINE Small(n) == {s \in SUBSET S : Cardinality(s) =< n}
            Pick(s) == CHOOSE x \in s : TRUE
            B == {n \in Nat : ~\E g : SumsUpTo(g, f, S, n)}
<1>1. \A s \in SUBSET S : /\ Cardinality(s) \in Nat /\ (s # {} => Cardinality(s) # 0)
                          /\ s # {} => /\ Pick(s) \in s /\ s \ {Pick(s)} \in SUBSET S
                                       /\ Cardinality(s \ {Pick(s)}) = Cardinality(s) - 1
  <2>. SUFFICES ASSUME NEW s \in SUBSET S
                PROVE  /\ Cardinality(s) \in Nat /\ (s # {} => Cardinality(s) # 0)
                       /\ s # {} => /\ Pick(s) \in s /\ s \ {Pick(s)} \in SUBSET S
                                    /\ Cardinality(s \ {Pick(s)}) = Cardinality(s) - 1
    OBVIOUS
  <2>1. IsFiniteSet(s)
    BY FS_Subset
  <2>2. Cardinality(s) \in Nat /\ (Cardinality(s) = 0 <=> s = {})
    BY <2>1, FS_CardinalityType, FS_EmptySet
  <2>3. s # {} => Pick(s) \in s
    OBVIOUS
  <2>. HIDE DEF Pick
  <2>4. s # {} => Cardinality(s \ {Pick(s)}) = Cardinality(s) - 1
    BY <2>1, <2>3, FS_RemoveElement
  <2>. QED
    BY <2>2, <2>3, <2>4
<1>2. ASSUME B # {} PROVE FALSE
  <2>1. PICK m \in B : \A y \in B : m =< y
    BY <1>2, MinIs
  <2>2. CASE m = 0
    <3>. DEFINE g == [s \in Small(0) |-> 0]
    <3>1. \A s \in Small(0) : s = {}
      <4>. SUFFICES ASSUME NEW s \in Small(0) PROVE s = {}
        OBVIOUS
      <4>1. s \in SUBSET S /\ Cardinality(s) =< 0
        OBVIOUS
      <4>2. Cardinality(s) \in Nat /\ (s # {} => Cardinality(s) # 0)
        BY <1>1, <4>1
      <4>. QED
        BY <4>1, <4>2
    <3>2. SumsUpTo(g, f, S, 0)
      BY <3>1 DEF SumsUpTo
    <3>. QED
      BY <2>1, <2>2, <3>2
  <2>3. CASE m # 0
    <3>1. m - 1 \in Nat /\ m - 1 \notin B
      BY <2>1, <2>3
    <3>2. PICK g : SumsUpTo(g, f, S, m - 1)
      BY <3>1
    <3>. DEFINE Next(s) == IF s = {} THEN 0 ELSE f[Pick(s)] + g[s \ {Pick(s)}]
                h == [s \in Small(m) |-> Next(s)]
    <3>3. \A s \in Small(m - 1) : g[s] = Next(s)
      BY <3>2 DEF SumsUpTo
    <3>4. \A s \in Small(m) : s # {} => s \ {Pick(s)} \in Small(m - 1) /\ s \ {Pick(s)} \in Small(m)
      BY <1>1, <2>1
    <3>5. \A s \in Small(m) : s # {} => h[s \ {Pick(s)}] = g[s \ {Pick(s)}]
      BY <3>3, <3>4
    <3>6. h = [s \in Small(m) |-> IF s = {} THEN 0 ELSE f[Pick(s)] + h[s \ {Pick(s)}]]
      <4>1. \A s \in Small(m) : Next(s) = IF s = {} THEN 0 ELSE f[Pick(s)] + h[s \ {Pick(s)}]
        <5>. HIDE DEF Small, Pick, h
        <5>. QED
          BY <3>5
      <4>. HIDE DEF Next, Small
      <4>2. \A s \in Small(m) : h[s] = Next(s)
        OBVIOUS
      <4>3. h = [s \in Small(m) |-> h[s]]
        OBVIOUS
      <4>. HIDE DEF h
      <4>. QED
        BY <4>1, <4>2, <4>3
    <3>7. SumsUpTo(h, f, S, m)
      <4>. HIDE DEF h
      <4>. QED
        BY <3>6 DEF SumsUpTo
    <3>. QED
      BY <2>1, <3>7
  <2>. QED
    BY <2>2, <2>3
<1>3. PICK g : SumsUpTo(g, f, S, Cardinality(S))
  <2>1. Cardinality(S) \in Nat
    BY FS_CardinalityType
  <2>. QED
    BY <1>2, <2>1
<1>4. Small(Cardinality(S)) = SUBSET S
  <2>1. \A s \in SUBSET S : Cardinality(s) =< Cardinality(S)
    BY FS_Subset
  <2>. QED
    BY <2>1
<1>5. SumsUp(g, f, S)
  BY <1>3, <1>4 DEF SumsUpTo, SumsUp
<1>. QED
  BY <1>5

LEMMA SumIs ==
  ASSUME NEW S, IsFiniteSet(S), NEW f
  PROVE  \E g : SumsUp(g, f, S) /\ SumFunctionOnSet(f, S) = g[S]
<1>. DEFINE g == CHOOSE g : g = [s \in SUBSET S |-> IF s = {} THEN 0 ELSE f[CHOOSE x \in s : TRUE] + g[s \ {CHOOSE x \in s : TRUE}]]
<1>1. SumsUp(g, f, S)
  <2>1. \E h : h = [s \in SUBSET S |-> IF s = {} THEN 0 ELSE f[CHOOSE x \in s : TRUE] + h[s \ {CHOOSE x \in s : TRUE}]]
    <3>1. PICK h : SumsUp(h, f, S)
      BY SumsExist
    <3>. QED
      BY <3>1, Zenon DEF SumsUp
  <2>2. g = [s \in SUBSET S |-> IF s = {} THEN 0 ELSE f[CHOOSE x \in s : TRUE] + g[s \ {CHOOSE x \in s : TRUE}]]
    BY <2>1
  <2>. HIDE DEF g
  <2>. QED
    BY <2>2 DEF SumsUp
<1>2. SumFunctionOnSet(f, S) = g[S]
  BY DEF SumFunctionOnSet, FoldFunctionOnSet, MapThenFoldSet
<1>. QED
  BY <1>1, <1>2

\* Of some subsets of a finite set one contains no other.
LEMMA SmallestSet ==
  ASSUME NEW U, IsFiniteSet(U), NEW B \in SUBSET (SUBSET U), B # {}
  PROVE  \E s \in B : \A t \in SUBSET s : t # s => t \in SUBSET U /\ t \notin B
<1>. DEFINE C == {n \in Nat : \E s \in B : Cardinality(s) = n}
<1>1. \A s \in SUBSET U : IsFiniteSet(s) /\ Cardinality(s) \in Nat
  BY FS_Subset, FS_CardinalityType
<1>2. C # {}
  BY <1>1
<1>3. PICK n \in C : \A m \in C : n =< m
  BY <1>2, MinIs
<1>4. PICK s \in B : Cardinality(s) = n
  BY <1>3
<1>5. ASSUME NEW t \in SUBSET s, t # s, t \in B PROVE FALSE
  <2>1. Cardinality(t) =< n /\ Cardinality(t) # n /\ Cardinality(t) \in Nat
    BY <1>1, <1>4, <1>5, FS_Subset
  <2>2. Cardinality(t) \in C
    BY <1>5, <2>1
  <2>. QED
    BY <1>3, <2>1, <2>2
<1>6. \A t \in SUBSET s : t \in SUBSET U
  OBVIOUS
<1>. QED
  BY <1>4, <1>5, <1>6

LEMMA SumsAgree ==
  ASSUME NEW U, IsFiniteSet(U), NEW S \in SUBSET U, NEW f, NEW g, NEW h, SumsUp(g, f, S), SumsUp(h, f, U)
  PROVE  \A s \in SUBSET S : g[s] = h[s]
<1>. DEFINE B == {s \in SUBSET S : g[s] # h[s]}
            Pick(s) == CHOOSE x \in s : TRUE
<1>1. ASSUME B # {} PROVE FALSE
  <2>0. IsFiniteSet(S)
    BY FS_Subset
  <2>1. PICK s \in B : \A x \in s : s \ {x} \in SUBSET S /\ s \ {x} \notin B
    <3>1. B \in SUBSET (SUBSET S)
      OBVIOUS
    <3>. HIDE DEF B
    <3>2. \E s \in B : \A t \in SUBSET s : t # s => t \in SUBSET S /\ t \notin B
      BY <1>1, <2>0, <3>1, SmallestSet
    <3>. QED
      BY <3>2
  <2>2. g[s] = IF s = {} THEN 0 ELSE f[Pick(s)] + g[s \ {Pick(s)}]
    BY DEF SumsUp
  <2>3. h[s] = IF s = {} THEN 0 ELSE f[Pick(s)] + h[s \ {Pick(s)}]
    BY DEF SumsUp
  <2>4. s # {} => Pick(s) \in s
    OBVIOUS
  <2>. HIDE DEF Pick
  <2>5. s # {} => g[s \ {Pick(s)}] = h[s \ {Pick(s)}]
    BY <2>1, <2>4
  <2>. QED
    BY <2>2, <2>3, <2>5
<1>. QED
  BY <1>1

\* Any element may be taken from the sum first.
LEMMA SumsRemove ==
  ASSUME NEW U, IsFiniteSet(U), NEW f, \A x \in U : f[x] \in Nat, NEW g, SumsUp(g, f, U)
  PROVE  /\ g[{}] = 0
         /\ \A s \in SUBSET U : g[s] \in Nat /\ \A x \in s : g[s] = f[x] + g[s \ {x}]
<1>. DEFINE Good(s) == g[s] \in Nat /\ \A x \in s : g[s] = f[x] + g[s \ {x}]
            B == {s \in SUBSET U : ~Good(s)}
            Pick(s) == CHOOSE x \in s : TRUE
<1>1. ASSUME B # {} PROVE FALSE
  <2>1. PICK s \in B : \A t \in SUBSET s : t # s => t \in SUBSET U /\ t \notin B
    <3>1. B \in SUBSET (SUBSET U)
      OBVIOUS
    <3>. HIDE DEF B
    <3>. QED
      BY <1>1, <3>1, SmallestSet
  <2>2. g[s] = IF s = {} THEN 0 ELSE f[Pick(s)] + g[s \ {Pick(s)}]
    BY DEF SumsUp
  <2>3. s # {} => Pick(s) \in s
    OBVIOUS
  <2>. HIDE DEF Pick
  <2>4. \A x \in s : Good(s \ {x}) /\ f[x] \in Nat
    BY <2>1
  <2>5. g[s] \in Nat
    BY <2>2, <2>3, <2>4, SMTT(60)
  <2>6. ASSUME NEW x \in s PROVE g[s] = f[x] + g[s \ {x}]
    <3>. DEFINE p == Pick(s)
    <3>0. p \in s /\ g[s] = f[p] + g[s \ {p}]
      BY <2>2, <2>3
    <3>. HIDE DEF p
    <3>1. CASE x = p
      BY <3>0, <3>1
    <3>2. CASE x # p
      <4>1. x \in s \ {p} /\ p \in s \ {x} /\ (s \ {p}) \ {x} = (s \ {x}) \ {p}
        BY <3>0, <3>2
      <4>2. g[s \ {p}] = f[x] + g[(s \ {p}) \ {x}]
        BY <2>4, <3>0, <4>1
      <4>3. g[s \ {x}] = f[p] + g[(s \ {x}) \ {p}]
        BY <2>4, <4>1
      <4>4. g[(s \ {x}) \ {p}] \in Nat
        <5>1. (s \ {x}) \ {p} \in SUBSET s /\ (s \ {x}) \ {p} # s
          OBVIOUS
        <5>2. Good((s \ {x}) \ {p})
          BY <2>1, <5>1
        <5>. QED
          BY <5>2
      <4>5. g[(s \ {p}) \ {x}] = g[(s \ {x}) \ {p}] /\ f[x] \in Nat /\ f[p] \in Nat
        BY <2>4, <3>0, <4>1
      <4>. HIDE DEF Good
      <4>. QED
        BY ONLY <3>0, <4>2, <4>3, <4>4, <4>5
    <3>. QED
      BY <3>1, <3>2
  <2>. QED
    BY <2>1, <2>5, <2>6
<1>2. g[{}] = 0
  BY DEF SumsUp
<1>. QED
  BY <1>1, <1>2

\* SumFunctionOnSet adds up, in whatever order.
LEMMA SumAdds ==
  ASSUME NEW S, IsFiniteSet(S), NEW f, NEW x, x \notin S, \A y \in S \union {x} : f[y] \in Nat
  PROVE  /\ SumFunctionOnSet(f, S) \in Nat
         /\ SumFunctionOnSet(f, S \union {x}) = SumFunctionOnSet(f, S) + f[x]
<1>. DEFINE U == S \union {x}
<1>1. IsFiniteSet(U)
  BY FS_AddElement
<1>2. PICK g : SumsUp(g, f, S) /\ SumFunctionOnSet(f, S) = g[S]
  BY SumIs
<1>3. PICK h : SumsUp(h, f, U) /\ SumFunctionOnSet(f, U) = h[U]
  BY <1>1, SumIs
<1>4. S \in SUBSET U /\ U \in SUBSET U /\ x \in U /\ U \ {x} = S /\ S \in SUBSET S
  OBVIOUS
<1>. HIDE DEF U
<1>5. g[S] = h[S]
  BY <1>1, <1>2, <1>3, <1>4, SumsAgree
<1>6. h[S] \in Nat /\ h[U] = f[x] + h[S]
  <2>1. \A y \in U : f[y] \in Nat
    BY DEF U
  <2>. QED
    BY <1>1, <1>3, <1>4, <2>1, SumsRemove, SMTT(60)
<1>7. f[x] \in Nat
  OBVIOUS
<1>. QED
  BY <1>2, <1>3, <1>5, <1>6, <1>7 DEF U

Summable(f, S, x) == IsFiniteSet(S) /\ x \notin S /\ \A y \in S \union {x} : f[y] \in Nat
Added(f, S, x) == SumFunctionOnSet(f, S \union {x}) = SumFunctionOnSet(f, S) + f[x]

LEMMA SumAdded ==
  ASSUME NEW S, NEW f, NEW x, Summable(f, S, x)
  PROVE  Added(f, S, x)
<1>1. IsFiniteSet(S) /\ x \notin S /\ \A y \in S \union {x} : f[y] \in Nat
  BY DEF Summable
<1>2. SumFunctionOnSet(f, S \union {x}) = SumFunctionOnSet(f, S) + f[x]
  BY <1>1, SumAdds
<1>. QED
  BY <1>2 DEF Added

LEMMA SumOfNone ==
  ASSUME NEW f
  PROVE  SumFunctionOnSet(f, {}) = 0
<1>1. IsFiniteSet({})
  BY FS_EmptySet
<1>2. PICK g : SumsUp(g, f, {}) /\ SumFunctionOnSet(f, {}) = g[{}]
  BY <1>1, SumIs
<1>3. {} \in SUBSET {}
  OBVIOUS
<1>. QED
  BY <1>2, <1>3 DEF SumsUp
(***************************************************************************)
(* The order of names                                                      *)
(***************************************************************************)
\* Names agree before the i-th character, where s has ended or has the smaller one.
LessAt(s, t, i) ==
  /\ i \in 1..Len(t) /\ i =< Len(s) + 1
  /\ \A j \in 1..(i - 1) : s[j] = t[j]
  /\ i =< Len(s) => s[i] < t[i]

LEMMA PrefixIs ==
  ASSUME NEW s \in Seq(Int), NEW t \in Seq(Int)
  PROVE  IsPrefix(s, t) <=> Len(s) =< Len(t) /\ \A j \in 1..Len(s) : s[j] = t[j]
<1>. DEFINE n == Len(s)
            u == SubSeq(t, 1, n)
<1>1. n \in Nat /\ Len(t) \in Nat
  BY LenProperties
<1>2. SubSeq(s, 1, n) = s
  <2>1. SubSeq(s, 0 + 1, 0 + Len(s)) = s
    BY LiesWhole, SliceIs
  <2>2. 0 + 1 = 1 /\ 0 + Len(s) = n
    BY <1>1
  <2>. QED
    BY <2>1, <2>2
<1>3. ASSUME n =< Len(t) PROVE u \in Seq(Int) /\ Len(u) = n /\ \A j \in 1..n : u[j] = t[j]
  <2>1. \A i \in 1..n : t[i] \in Int
    <3>. SUFFICES ASSUME NEW i \in 1..n PROVE t[i] \in Int
      OBVIOUS
    <3>1. i \in 1..Len(t)
      BY <1>1, <1>3
    <3>. QED
      BY <3>1, ElementOfSeq
  <2>2. /\ u \in Seq(Int) /\ Len(u) = IF 1 =< n THEN n - 1 + 1 ELSE 0
        /\ \A i \in 1..(n - 1 + 1) : u[i] = t[1 + i - 1]
    BY <1>1, <2>1, SubSeqProperties
  <2>. HIDE DEF u, n
  <2>3. \A j \in 1..n : j \in 1..(n - 1 + 1) /\ 1 + j - 1 = j
    BY <1>1
  <2>. QED
    BY <1>1, <2>2, <2>3
<1>4. ASSUME n =< Len(t) PROVE s = u <=> \A j \in 1..n : s[j] = t[j]
  <2>1. u \in Seq(Int) /\ Len(u) = n /\ \A j \in 1..n : u[j] = t[j]
    BY <1>3, <1>4
  <2>. HIDE DEF u
  <2>2. s = u => \A j \in 1..n : s[j] = t[j]
    BY <2>1
  <2>3. (\A j \in 1..n : s[j] = u[j]) => s = u
    BY <2>1, SeqEqual
  <2>. QED
    BY <2>1, <2>2, <2>3
<1>. QED
  BY <1>2, <1>4 DEF IsPrefix

LEMMA NameLessIs ==
  ASSUME NEW s \in Seq(Int), NEW t \in Seq(Int)
  PROVE  NameLess(s, t) <=> \E i \in 1..Len(t) : LessAt(s, t, i)
<1>. DEFINE m == Min({Len(s), Len(t)})
<1>1. Len(s) \in Nat /\ Len(t) \in Nat
  BY LenProperties
<1>2. m \in {Len(s), Len(t)} /\ m =< Len(s) /\ m =< Len(t)
  <2>1. {Len(s), Len(t)} \in SUBSET Nat /\ {Len(s), Len(t)} # {}
    BY <1>1
  <2>. QED
    BY <2>1, MinIs
<1>3. NameLess(s, t) <=> (\E i \in 1..m : s[i] < t[i] /\ \A j \in 1..(i - 1) : s[j] = t[j]) \/ IsStrictPrefix(s, t)
  BY DEF NameLess
<1>. HIDE DEF m
<1>4. ASSUME NEW i \in 1..m, s[i] < t[i], \A j \in 1..(i - 1) : s[j] = t[j]
      PROVE  \E k \in 1..Len(t) : LessAt(s, t, k)
  <2>1. i \in 1..Len(t) /\ i =< Len(s) + 1
    BY <1>1, <1>2, SMTT(60)
  <2>2. LessAt(s, t, i)
    BY <1>4, <2>1 DEF LessAt
  <2>. QED
    BY <2>1, <2>2
<1>5. ASSUME IsStrictPrefix(s, t) PROVE \E k \in 1..Len(t) : LessAt(s, t, k)
  <2>1. Len(s) =< Len(t) /\ (\A j \in 1..Len(s) : s[j] = t[j]) /\ s # t
    BY <1>5, PrefixIs DEF IsStrictPrefix
  <2>2. Len(s) # Len(t)
    BY <2>1, SeqEqual
  <2>3. Len(s) + 1 \in 1..Len(t) /\ (Len(s) + 1) - 1 = Len(s) /\ ~(Len(s) + 1 =< Len(s))
    BY <1>1, <2>1, <2>2
  <2>4. LessAt(s, t, Len(s) + 1)
    BY <1>1, <2>1, <2>3 DEF LessAt
  <2>. QED
    BY <2>3, <2>4
<1>6. ASSUME NEW i \in 1..Len(t), LessAt(s, t, i)
      PROVE  (\E k \in 1..m : s[k] < t[k] /\ \A j \in 1..(k - 1) : s[j] = t[j]) \/ IsStrictPrefix(s, t)
  <2>1. CASE i =< Len(s)
    <3>1. i \in 1..m /\ s[i] < t[i] /\ \A j \in 1..(i - 1) : s[j] = t[j]
      BY <1>1, <1>2, <1>6, <2>1, SMTT(60) DEF LessAt
    <3>. QED
      BY <3>1
  <2>2. CASE ~(i =< Len(s))
    <3>1. i = Len(s) + 1 /\ Len(s) < Len(t) /\ \A j \in 1..Len(s) : s[j] = t[j]
      <4>1. i = Len(s) + 1
        BY <1>1, <1>6, <2>2 DEF LessAt
      <4>2. i - 1 = Len(s) /\ Len(s) < Len(t)
        BY <1>1, <4>1
      <4>3. \A j \in 1..(i - 1) : s[j] = t[j]
        BY <1>6 DEF LessAt
      <4>. QED
        BY <4>1, <4>2, <4>3
    <3>2. IsPrefix(s, t) /\ s # t
      BY <1>1, <3>1, PrefixIs
    <3>. QED
      BY <3>2 DEF IsStrictPrefix
  <2>. QED
    BY <2>1, <2>2
<1>. QED
  BY <1>3, <1>4, <1>5, <1>6

\* str::cmp is a strict total order.
LEMMA NamesOrdered ==
  /\ \A s \in Seq(Int) : ~NameLess(s, s)
  /\ \A s, t \in Seq(Int) : s # t => NameLess(s, t) \/ NameLess(t, s)
  /\ \A s, t, u \in Seq(Int) : NameLess(s, t) /\ NameLess(t, u) => NameLess(s, u)
<1>1. ASSUME NEW s \in Seq(Int), NameLess(s, s) PROVE FALSE
  <2>1. PICK i \in 1..Len(s) : LessAt(s, s, i)
    BY <1>1, NameLessIs
  <2>2. s[i] \in Int /\ i =< Len(s)
    BY ElementOfSeq, LenProperties
  <2>. QED
    BY <2>1, <2>2 DEF LessAt
<1>2. ASSUME NEW s \in Seq(Int), NEW t \in Seq(Int), s # t, Len(s) =< Len(t) PROVE NameLess(s, t) \/ NameLess(t, s)
  <2>. DEFINE D == {i \in 1..Len(s) : s[i] # t[i]}
              d == Min(D)
  <2>1. Len(s) \in Nat /\ Len(t) \in Nat /\ \A i \in 1..Len(s) : s[i] \in Int /\ t[i] \in Int
    <3>1. Len(s) \in Nat /\ Len(t) \in Nat
      BY LenProperties
    <3>2. \A i \in 1..Len(s) : i \in 1..Len(t)
      BY <1>2, <3>1
    <3>. QED
      BY <3>1, <3>2, ElementOfSeq
  <2>2. CASE D = {}
    <3>1. \A j \in 1..Len(s) : s[j] = t[j]
      BY <2>2
    <3>2. IsStrictPrefix(s, t)
      BY <1>2, <3>1, PrefixIs DEF IsStrictPrefix
    <3>. QED
      BY <3>2 DEF NameLess
  <2>3. CASE D # {}
    <3>1. D \in SUBSET Nat
      BY <2>1
    <3>2. d \in D /\ \A y \in D : d =< y
      BY <2>3, <3>1, MinIs
    <3>. HIDE DEF d
    <3>3. d \in 1..Len(s) /\ s[d] # t[d] /\ \A j \in 1..(d - 1) : s[j] = t[j]
      <4>1. d \in 1..Len(s) /\ s[d] # t[d]
        BY <3>2
      <4>2. ASSUME NEW j \in 1..(d - 1) PROVE s[j] = t[j]
        <5>1. j \in 1..Len(s) /\ ~(d =< j)
          BY <2>1, <4>1
        <5>. QED
          BY <3>2, <5>1
      <4>. QED
        BY <4>1, <4>2
    <3>. HIDE DEF D
    <3>4. d \in 1..Len(t) /\ d =< Len(s) + 1 /\ d =< Len(t) + 1 /\ d =< Len(s) /\ d =< Len(t)
      BY <1>2, <2>1, <3>3, SMTT(60)
    <3>5. s[d] < t[d] \/ t[d] < s[d]
      BY <2>1, <3>3
    <3>6. s[d] < t[d] => LessAt(s, t, d)
      BY <3>3, <3>4 DEF LessAt
    <3>7. t[d] < s[d] => LessAt(t, s, d)
      BY <3>3, <3>4 DEF LessAt
    <3>. QED
      BY <3>3, <3>4, <3>5, <3>6, <3>7, NameLessIs
  <2>. QED
    BY <2>2, <2>3
<1>3. ASSUME NEW s \in Seq(Int), NEW t \in Seq(Int), s # t PROVE NameLess(s, t) \/ NameLess(t, s)
  <2>1. Len(s) =< Len(t) \/ Len(t) =< Len(s)
    BY LenProperties
  <2>. QED
    BY <1>2, <1>3, <2>1
<1>4. ASSUME NEW s \in Seq(Int), NEW t \in Seq(Int), NEW u \in Seq(Int), NameLess(s, t), NameLess(t, u)
      PROVE  NameLess(s, u)
  <2>1. PICK i \in 1..Len(t) : LessAt(s, t, i)
    BY <1>4, NameLessIs
  <2>2. PICK k \in 1..Len(u) : LessAt(t, u, k)
    BY <1>4, NameLessIs
  <2>3. Len(s) \in Nat /\ Len(t) \in Nat /\ Len(u) \in Nat
    BY LenProperties
  <2>4. /\ \A j \in 1..Len(s) : s[j] \in Int
        /\ \A j \in 1..Len(t) : t[j] \in Int
        /\ \A j \in 1..Len(u) : u[j] \in Int
    BY ElementOfSeq
  <2>5. CASE i =< k
    <3>1. i \in 1..Len(u) /\ i =< Len(s) + 1
      BY <2>1, <2>2, <2>3, <2>5 DEF LessAt
    <3>2. \A j \in 1..(i - 1) : s[j] = u[j]
      BY <2>1, <2>2, <2>3, <2>5 DEF LessAt
    <3>3. ASSUME i =< Len(s) PROVE s[i] < u[i]
      <4>1. s[i] < t[i] /\ s[i] \in Int /\ t[i] \in Int /\ u[i] \in Int
        BY <2>1, <2>3, <2>4, <3>1, <3>3 DEF LessAt
      <4>2. CASE i < k
        <5>1. i \in 1..(k - 1)
          BY <2>3, <4>2
        <5>2. t[i] = u[i]
          BY <2>2, <5>1 DEF LessAt
        <5>. QED
          BY <4>1, <5>2
      <4>3. CASE i = k
        <5>1. t[i] < u[i]
          BY <2>1, <2>2, <2>3, <4>3 DEF LessAt
        <5>. QED
          BY <4>1, <5>1
      <4>. QED
        BY <2>3, <2>5, <4>2, <4>3
    <3>4. LessAt(s, u, i)
      BY <3>1, <3>2, <3>3 DEF LessAt
    <3>. QED
      BY <3>1, <3>4, NameLessIs
  <2>6. CASE k < i
    <3>1. k =< Len(s) /\ k =< Len(t) /\ k =< Len(s) + 1 /\ k \in 1..(i - 1)
      <4>1. i \in 1..Len(t) /\ i =< Len(s) + 1 /\ k \in 1..Len(u)
        BY <2>1 DEF LessAt
      <4>. QED
        BY ONLY <2>3, <2>6, <4>1, SMTT(60)
    <3>2. \A j \in 1..(k - 1) : s[j] = u[j]
      BY <2>1, <2>2, <2>3, <2>6 DEF LessAt
    <3>3. s[k] = t[k] /\ t[k] < u[k]
      BY <2>1, <2>2, <3>1 DEF LessAt
    <3>4. LessAt(s, u, k)
      BY <3>1, <3>2, <3>3 DEF LessAt
    <3>. QED
      BY <3>4, NameLessIs
  <2>. QED
    BY <2>3, <2>5, <2>6
<1>. QED
  BY <1>1, <1>3, <1>4

(***************************************************************************)
(* Parts joined one after another *)
(***************************************************************************)
LEMMA ListIsSeq ==
  ASSUME NEW n \in Nat, NEW S, NEW f \in [1..n -> S]
  PROVE  f \in Seq(S) /\ Len(f) = n /\ DOMAIN f = 1..n
  OBVIOUS

\* The partial results of FlattenSeq: after k parts, what those parts spell.
Flattens(fl, ss) ==
  /\ fl[0] = <<>>
  /\ \A k \in 1..Len(ss) : fl[k] = fl[k - 1] \o ss[k]

\* `flatten` of FlattenSeq on the first n parts.
Flat(f, ss, n) == f = [i \in 1..n |-> IF i = 1 THEN ss[i] ELSE f[i - 1] \o ss[i]]

\* The recursion has a solution however many parts there are.
LEMMA FlatExists ==
  ASSUME NEW ss, NEW n \in Nat
  PROVE  \E f : Flat(f, ss, n)
<1>. DEFINE B == {m \in Nat : ~\E f : Flat(f, ss, m)}
<1>1. ASSUME B # {} PROVE FALSE
  <2>1. PICK m \in B : \A y \in B : m =< y
    BY <1>1, MinIs
  <2>2. m # 0
    <3>1. Flat(<<>>, ss, 0)
      BY DEF Flat
    <3>. QED
      BY <2>1, <3>1
  <2>3. m - 1 \in Nat /\ m - 1 \notin B
    BY <2>1, <2>2
  <2>4. PICK f : Flat(f, ss, m - 1)
    BY <2>3
  <2>. DEFINE g == [i \in 1..m |-> IF i = m THEN IF m = 1 THEN ss[m] ELSE f[m - 1] \o ss[m] ELSE f[i]]
  <2>5. ASSUME NEW i \in 1..m PROVE g[i] = IF i = 1 THEN ss[i] ELSE g[i - 1] \o ss[i]
    <3>1. CASE i = m
      BY <2>1, <3>1
    <3>2. CASE i # m
      <4>1. i \in 1..(m - 1) /\ (i # 1 => i - 1 \in 1..m /\ i - 1 # m)
        BY <2>1, <3>2
      <4>2. f[i] = IF i = 1 THEN ss[i] ELSE f[i - 1] \o ss[i]
        BY <2>4, <4>1 DEF Flat
      <4>. QED
        BY <3>2, <4>1, <4>2
    <3>. QED
      BY <3>1, <3>2
  <2>6. Flat(g, ss, m)
    <3>1. g = [i \in 1..m |-> g[i]]
      OBVIOUS
    <3>. HIDE DEF g
    <3>. QED
      BY <2>5, <3>1 DEF Flat
  <2>. QED
    BY <2>1, <2>6
<1>. QED
  BY <1>1

\* FlattenSeq appends the parts in turn.
LEMMA FlattenIs ==
  ASSUME NEW S, NEW n \in Nat, NEW ss \in [1..n -> Seq(S)]
  PROVE  \E fl \in [0..n -> Seq(S)] : Flattens(fl, ss) /\ FlattenSeq(ss) = fl[n] /\ Len(ss) = n
<1>1. Len(ss) = n /\ ss \in Seq(Seq(S))
  BY ListIsSeq
<1>2. CASE n = 0
  <2>. DEFINE fl == [k \in 0..n |-> <<>>]
  <2>1. ss = <<>>
    BY <1>1, <1>2, EmptySeq
  <2>2. FlattenSeq(ss) = <<>>
    BY <1>1, <1>2, <2>1 DEF FlattenSeq
  <2>3. fl \in [0..n -> Seq(S)] /\ Flattens(fl, ss) /\ fl[n] = <<>>
    BY <1>1, <1>2 DEF Flattens
  <2>. QED
    BY <1>1, <2>2, <2>3
<1>3. CASE n # 0
  <2>. DEFINE f == CHOOSE f : f = [i \in 1..Len(ss) |-> IF i = 1 THEN ss[i] ELSE f[i - 1] \o ss[i]]
  <2>1. Flat(f, ss, n)
    <3>1. \E h : h = [i \in 1..Len(ss) |-> IF i = 1 THEN ss[i] ELSE h[i - 1] \o ss[i]]
      BY <1>1, FlatExists DEF Flat
    <3>2. f = [i \in 1..Len(ss) |-> IF i = 1 THEN ss[i] ELSE f[i - 1] \o ss[i]]
      BY <3>1
    <3>. QED
      BY <1>1, <3>2 DEF Flat
  <2>2. FlattenSeq(ss) = f[n]
    BY <1>1, <1>3 DEF FlattenSeq
  <2>. HIDE DEF f
  <2>3. \A i \in 1..n : f[i] = IF i = 1 THEN ss[i] ELSE f[i - 1] \o ss[i]
    BY <2>1 DEF Flat
  <2>4. \A i \in 1..n : f[i] \in Seq(S)
    <3>. DEFINE B == {m \in 1..n : f[m] \notin Seq(S)}
    <3>1. ASSUME B # {} PROVE FALSE
      <4>0. B \in SUBSET Nat
        OBVIOUS
      <4>1. PICK m \in B : \A y \in B : m =< y
        BY <3>1, <4>0, MinIs
      <4>2. m # 1
        BY <2>3, <4>1
      <4>3. m - 1 \in 1..n /\ m - 1 \notin B
        BY <4>1, <4>2
      <4>4. f[m - 1] \in Seq(S) /\ ss[m] \in Seq(S)
        BY <4>1, <4>3
      <4>5. f[m] = f[m - 1] \o ss[m]
        BY <2>3, <4>1, <4>2
      <4>6. PICK a, b : a = f[m - 1] /\ b = ss[m]
        OBVIOUS
      <4>7. a \o b \in Seq(S)
        BY <4>4, <4>6, ConcatProperties
      <4>. QED
        BY <4>1, <4>5, <4>6, <4>7
    <3>. QED
      BY <3>1
  <2>. DEFINE fl == [k \in 0..n |-> IF k = 0 THEN <<>> ELSE f[k]]
  <2>5. fl \in [0..n -> Seq(S)]
    BY <2>4
  <2>6. Flattens(fl, ss)
    <3>1. fl[0] = <<>>
      OBVIOUS
    <3>2. ASSUME NEW k \in 1..n PROVE fl[k] = fl[k - 1] \o ss[k]
      <4>1. k - 1 \in 0..n /\ k \in 0..n /\ k # 0 /\ ss[k] \in Seq(S)
        OBVIOUS
      <4>2. CASE k = 1
        <5>1. fl[k] = ss[k] /\ fl[k - 1] = <<>>
          BY <2>3, <4>1, <4>2
        <5>2. <<>> \o ss[k] = ss[k]
          BY <4>1, ConcatEmptySeq
        <5>. QED
          BY <5>1, <5>2
      <4>3. CASE k # 1
        <5>1. fl[k] = f[k] /\ fl[k - 1] = f[k - 1]
          BY <4>1, <4>3
        <5>. QED
          BY <2>3, <4>3, <5>1
      <4>. QED
        BY <4>2, <4>3
    <3>. QED
      BY <1>1, <3>1, <3>2 DEF Flattens
  <2>7. fl[n] = f[n]
    BY <1>3
  <2>. QED
    BY <1>1, <2>2, <2>5, <2>6, <2>7
<1>. QED
  BY <1>2, <1>3


(***************************************************************************)
(* Recursion over the naturals                                             *)
(***************************************************************************)
\* What holds at 0 and carries over holds up to n.
LEMMA UpTo ==
  ASSUME NEW n \in Nat, NEW G, 0 \in G, \A k \in 1..n : k - 1 \in G => k \in G
  PROVE  \A k \in 0..n : k \in G
<1>. DEFINE B == {k \in 0..n : k \notin G}
<1>1. ASSUME B # {} PROVE FALSE
  <2>1. B \in SUBSET Nat
    OBVIOUS
  <2>. HIDE DEF B
  <2>2. PICK m \in B : \A y \in B : m =< y
    BY <1>1, <2>1, MinIs
  <2>. USE DEF B
  <2>3. m \in 1..n
    BY <2>2
  <2>4. m - 1 \in 0..n /\ m - 1 \notin B
    BY <2>2, <2>3
  <2>. QED
    BY <2>2, <2>3, <2>4
<1>. QED
  BY <1>1

\* A recursion of n steps that has a solution whose values keep to S.
Solvable(n, S, base, step) ==
  \E f : /\ f = [k \in 0..n |-> IF k = 0 THEN base ELSE step[<<k, f[k - 1]>>]]
         /\ \A k \in 0..n : f[k] \in S[k]

LEMMA RecursionSolvable ==
  ASSUME NEW n \in Nat, NEW S, NEW base \in S[0], NEW step,
         \A k \in 1..n : \A w \in S[k - 1] : step[<<k, w>>] \in S[k]
  PROVE  Solvable(n, S, base, step)
<1>. DEFINE Solves(f, m) == /\ f = [k \in 0..m |-> IF k = 0 THEN base ELSE step[<<k, f[k - 1]>>]]
                            /\ \A k \in 0..m : f[k] \in S[k]
            G == {m \in 0..n : \E f : Solves(f, m)}
<1>1. 0 \in G
  <2>. DEFINE f == [k \in 0..0 |-> base]
  <2>1. f = [k \in 0..0 |-> IF k = 0 THEN base ELSE step[<<k, f[k - 1]>>]] /\ \A k \in 0..0 : f[k] \in S[k]
    OBVIOUS
  <2>2. Solves(f, 0)
    BY <2>1
  <2>. HIDE DEF Solves, f
  <2>. QED
    BY <2>2
<1>2. ASSUME NEW m \in 1..n, m - 1 \in G PROVE m \in G
  <2>1. PICK f : Solves(f, m - 1)
    BY <1>2
  <2>. DEFINE g == [k \in 0..m |-> IF k = m THEN step[<<m, f[m - 1]>>] ELSE f[k]]
  <2>2. \A k \in 0..m : k # m => k \in 0..(m - 1)
    OBVIOUS
  <2>3. m - 1 \in 0..(m - 1) /\ f[m - 1] \in S[m - 1]
    BY <2>1
  <2>4. \A k \in 0..m : g[k] \in S[k]
    BY <2>1, <2>2, <2>3
  <2>5. ASSUME NEW k \in 0..m PROVE g[k] = IF k = 0 THEN base ELSE step[<<k, g[k - 1]>>]
    <3>1. CASE k = m
      <4>1. m - 1 \in 0..m /\ m - 1 # m /\ m # 0
        OBVIOUS
      <4>. QED
        BY <3>1, <4>1
    <3>2. CASE k # m
      <4>1. k \in 0..(m - 1)
        BY <3>2
      <4>2. g[k] = f[k] /\ (k # 0 => k - 1 \in 0..m /\ k - 1 # m)
        BY <3>2
      <4>3. f[k] = IF k = 0 THEN base ELSE step[<<k, f[k - 1]>>]
        BY <2>1, <4>1
      <4>. QED
        BY <4>2, <4>3
    <3>. QED
      BY <3>1, <3>2
  <2>6. g = [k \in 0..m |-> g[k]]
    OBVIOUS
  <2>. HIDE DEF g
  <2>7. g = [k \in 0..m |-> IF k = 0 THEN base ELSE step[<<k, g[k - 1]>>]]
    BY <2>5, <2>6
  <2>8. Solves(g, m)
    BY <2>4, <2>7
  <2>. HIDE DEF Solves
  <2>. QED
    BY <2>8
<1>3. \A k \in 1..n : k - 1 \in G => k \in G
  BY <1>2
<1>. HIDE DEF G
<1>4. n \in G
  <2>1. \A k \in 0..n : k \in G
    BY <1>1, <1>3, UpTo
  <2>. QED
    BY <2>1
<1>. QED
  BY <1>4 DEF G, Solvable

(***************************************************************************)
(* The stable sort                                                         *)
(***************************************************************************)
LEMMA SortedOrder ==
  ASSUME NEW n \in Nat, NEW keys \in [1..n -> Seq(Int)]
  PROVE  /\ SortedBy(keys) \in [1..n -> 1..n]
         /\ \A i \in 1..n : \E k \in 1..n : SortedBy(keys)[k] = i
         /\ \A j, k \in 1..n : j < k => SortsBefore(keys, SortedBy(keys)[j], SortedBy(keys)[k])
<1>. DEFINE S == 1..n
            R == {p \in S \X S : SortsBefore(keys, p[1], p[2])}
            place(k) == Placed(S, R, k)
<1>1. IsFiniteSet(S) /\ Cardinality(S) = n
  <2>1. IsFiniteSet(1..n) /\ Cardinality(1..n) = IF 1 > n THEN 0 ELSE n - 1 + 1
    BY FS_Interval
  <2>. QED
    BY <2>1
<1>2. DOMAIN keys = S /\ \A i \in S : keys[i] \in Seq(Int) /\ i \in Int
  OBVIOUS
<1>3. DOMAIN SortedBy(keys) = S /\ \A k \in S : SortedBy(keys)[k] = CHOOSE i \in S : Cardinality({j \in S : SortsBefore(keys, j, i)}) = k - 1
  BY <1>2 DEF SortedBy
<1>4. SortedBy(keys) = [k \in S |-> SortedBy(keys)[k]]
  <2>. DEFINE e(k) == CHOOSE i \in S : Cardinality({j \in S : SortsBefore(keys, j, i)}) = k - 1
              f == [k \in S |-> e(k)]
  <2>1. SortedBy(keys) = f
    BY <1>2 DEF SortedBy
  <2>. HIDE DEF e
  <2>2. f = [k \in S |-> f[k]]
    OBVIOUS
  <2>. QED
    BY <2>1, <2>2
<1>5. \A i, j \in S : <<i, j>> \in R <=> SortsBefore(keys, i, j)
  OBVIOUS
<1>6. \A i, j \in S : SortsBefore(keys, i, j) <=> NameLess(keys[i], keys[j]) \/ (keys[i] = keys[j] /\ i < j)
  BY DEF SortsBefore
<1>7. StrictTotalOrder(S, R)
  <2>. HIDE DEF S, R
  <2>1. ASSUME NEW x \in S PROVE <<x, x>> \notin R
    <3>1. ~NameLess(keys[x], keys[x])
      BY <1>2, NamesOrdered
    <3>. QED
      BY <1>2, <1>5, <1>6, <3>1
  <2>2. ASSUME NEW x \in S, NEW y \in S, x # y PROVE <<x, y>> \in R \/ <<y, x>> \in R
    <3>1. keys[x] # keys[y] => NameLess(keys[x], keys[y]) \/ NameLess(keys[y], keys[x])
      BY <1>2, NamesOrdered
    <3>2. x < y \/ y < x
      BY <1>2, <2>2
    <3>. QED
      BY <1>5, <1>6, <3>1, <3>2
  <2>3. ASSUME NEW x \in S, NEW y \in S, NEW z \in S, <<x, y>> \in R, <<y, z>> \in R PROVE <<x, z>> \in R
    <3>1. /\ NameLess(keys[x], keys[y]) \/ (keys[x] = keys[y] /\ x < y)
          /\ NameLess(keys[y], keys[z]) \/ (keys[y] = keys[z] /\ y < z)
      BY <1>5, <1>6, <2>3
    <3>2. NameLess(keys[x], keys[y]) /\ NameLess(keys[y], keys[z]) => NameLess(keys[x], keys[z])
      BY <1>2, NamesOrdered
    <3>3. x < y /\ y < z => x < z
      BY <1>2
    <3>4. NameLess(keys[x], keys[z]) \/ (keys[x] = keys[z] /\ x < z)
      BY <3>1, <3>2, <3>3
    <3>. QED
      BY <1>5, <1>6, <3>4
  <2>. QED
    BY <2>1, <2>2, <2>3 DEF StrictTotalOrder
<1>8. \A i \in S : Below(S, R, i) = {j \in S : SortsBefore(keys, j, i)}
  BY <1>5 DEF Below
<1>9. \A k \in S : SortedBy(keys)[k] = place(k)
  <2>. SUFFICES ASSUME NEW k \in S PROVE SortedBy(keys)[k] = place(k)
    OBVIOUS
  <2>1. SortedBy(keys)[k] = CHOOSE i \in S : Cardinality({j \in S : SortsBefore(keys, j, i)}) = k - 1
    BY <1>3
  <2>2. (CHOOSE i \in S : Cardinality({j \in S : SortsBefore(keys, j, i)}) = k - 1)
          = CHOOSE i \in S : Cardinality(Below(S, R, i)) = k - 1
    <3>. HIDE DEF S, R
    <3>. QED
      BY <1>8
  <2>. QED
    BY <2>1, <2>2 DEF Placed
<1>. HIDE DEF R, S
<1>10. /\ \A k \in 1..n : place(k) \in S
       /\ \A j, k \in 1..n : j < k => <<place(j), place(k)>> \in R
       /\ \A x \in S : \E k \in 1..n : place(k) = x
  BY <1>1, <1>7, Placing
<1>. HIDE DEF place
<1>11. /\ SortedBy(keys) \in [S -> S]
       /\ \A i \in S : \E k \in S : SortedBy(keys)[k] = i
       /\ \A j, k \in S : j < k => SortsBefore(keys, SortedBy(keys)[j], SortedBy(keys)[k])
  BY <1>4, <1>5, <1>9, <1>10, ZenonT(60) DEF S
<1>. QED
  BY <1>11 DEF S

\* The order puts nothing twice.
LEMMA SortedOnce ==
  ASSUME NEW n \in Nat, NEW keys \in [1..n -> Seq(Int)], NEW j \in 1..n, NEW k \in 1..n,
         SortedBy(keys)[j] = SortedBy(keys)[k]
  PROVE  j = k
<1>1. \A x, y \in 1..n : x < y => SortedBy(keys)[x] # SortedBy(keys)[y]
  <2>. SUFFICES ASSUME NEW x \in 1..n, NEW y \in 1..n, x < y, SortedBy(keys)[x] = SortedBy(keys)[y] PROVE FALSE
    OBVIOUS
  <2>1. SortedBy(keys)[x] \in 1..n /\ SortsBefore(keys, SortedBy(keys)[x], SortedBy(keys)[x])
    BY SortedOrder, ZenonT(60)
  <2>2. PICK i \in 1..n : i = SortedBy(keys)[x]
    BY <2>1
  <2>3. ~NameLess(keys[i], keys[i]) /\ ~(i < i)
    BY NamesOrdered
  <2>. QED
    BY <2>1, <2>2, <2>3 DEF SortsBefore
<1>2. j < k \/ k < j \/ j = k
  OBVIOUS
<1>. QED
  BY <1>1, <1>2

\* Names that begin alike are ordered by how they go on.
LEMMA CommonFront ==
  ASSUME NEW s \in Seq(Int), NEW t \in Seq(Int), NEW u \in Seq(Int)
  PROVE  NameLess(s \o t, s \o u) <=> NameLess(t, u)
<1>. DEFINE a == s \o t
            b == s \o u
            n == Len(s)
<1>0. n \in Nat /\ Len(t) \in Nat /\ Len(u) \in Nat
  BY LenProperties
<1>1. /\ n \in Nat /\ Len(t) \in Nat /\ Len(u) \in Nat
      /\ a \in Seq(Int) /\ Len(a) = n + Len(t) /\ b \in Seq(Int) /\ Len(b) = n + Len(u)
      /\ \A i \in 1..n : s[i] \in Int
  BY LenProperties, ConcatProperties, ElementOfSeq
<1>2. /\ \A i \in 1..(n + Len(t)) : a[i] = IF i =< n THEN s[i] ELSE t[i - n]
      /\ \A i \in 1..(n + Len(u)) : b[i] = IF i =< n THEN s[i] ELSE u[i - n]
  BY ConcatProperties
<1>. HIDE DEF a, b, n
<1>3. /\ \A i \in 1..n : a[i] = s[i] /\ b[i] = s[i]
      /\ \A i \in 1..Len(t) : a[n + i] = t[i]
      /\ \A i \in 1..Len(u) : b[n + i] = u[i]
  <2>1. \A i \in 1..n : i \in 1..(n + Len(t)) /\ i \in 1..(n + Len(u)) /\ i =< n
    BY <1>1, SMTT(60)
  <2>2. \A i \in 1..Len(t) : n + i \in 1..(n + Len(t)) /\ ~(n + i =< n) /\ (n + i) - n = i
    BY <1>1
  <2>3. \A i \in 1..Len(u) : n + i \in 1..(n + Len(u)) /\ ~(n + i =< n) /\ (n + i) - n = i
    BY <1>1
  <2>. QED
    BY <1>2, <2>1, <2>2, <2>3
<1>4. ASSUME NEW i \in 1..Len(u), LessAt(t, u, i) PROVE LessAt(a, b, n + i)
  <2>1. n + i \in 1..Len(b) /\ n + i =< Len(a) + 1 /\ i =< Len(t) + 1 /\ i \in Nat
    BY <1>1, <1>4 DEF LessAt
  <2>2. ASSUME NEW j \in 1..((n + i) - 1) PROVE a[j] = b[j]
    <3>1. CASE j =< n
      BY <1>1, <1>3, <3>1
    <3>2. CASE ~(j =< n)
      <4>1. PICK k \in 1..(i - 1) : j = n + k
        <5>1. j - n \in 1..(i - 1) /\ j = n + (j - n)
          BY <1>1, <3>2
        <5>. QED
          BY <5>1
      <4>2. k \in 1..Len(t) /\ k \in 1..Len(u) /\ t[k] = u[k]
        <5>1. k \in 1..Len(t) /\ k \in 1..Len(u)
          <6>1. k \in Int /\ 1 =< k /\ k =< i - 1 /\ i =< Len(t) + 1 /\ i =< Len(u) /\ i \in Int
            BY <2>1
          <6>. HIDE DEF a, b, n
          <6>. QED
            BY <1>0, <6>1
        <5>. QED
          BY <1>4, <5>1 DEF LessAt
      <4>. QED
        BY <1>3, <4>1, <4>2
    <3>. QED
      BY <3>1, <3>2
  <2>3. ASSUME n + i =< Len(a) PROVE a[n + i] < b[n + i]
    <3>1. i \in 1..Len(t) /\ i =< Len(t)
      BY <1>1, <2>3
    <3>2. t[i] < u[i]
      BY <1>4, <3>1 DEF LessAt
    <3>. QED
      BY <1>3, <3>1, <3>2
  <2>4. PICK m : m = n + i
    OBVIOUS
  <2>5. LessAt(a, b, m)
    <3>1. \A j \in 1..(m - 1) : a[j] = b[j]
      <4>1. 1..(m - 1) = 1..((n + i) - 1)
        BY <2>4
      <4>. QED
        BY <2>2, <4>1
    <3>2. m =< Len(a) => a[m] < b[m]
      BY <2>3, <2>4
    <3>. QED
      BY <2>1, <2>4, <3>1, <3>2 DEF LessAt
  <2>. QED
    BY <2>4, <2>5
<1>5. ASSUME NEW m \in 1..Len(b), LessAt(a, b, m) PROVE m - n \in 1..Len(u) /\ LessAt(t, u, m - n)
  <2>1. m =< Len(a) + 1 /\ (\A j \in 1..(m - 1) : a[j] = b[j]) /\ (m =< Len(a) => a[m] < b[m])
    BY <1>5 DEF LessAt
  <2>2. ~(m =< n)
    <3>1. ASSUME m =< n PROVE FALSE
      <4>1. m \in 1..n /\ m =< Len(a)
        BY <1>1, <3>1
      <4>2. a[m] = s[m] /\ b[m] = s[m] /\ s[m] \in Int /\ a[m] < b[m]
        BY <1>1, <1>3, <2>1, <4>1
      <4>. QED
        BY <4>2
    <3>. QED
      BY <3>1
  <2>3. PICK i \in 1..Len(u) : m = n + i /\ m - n = i
    <3>1. m - n \in 1..Len(u) /\ m = n + (m - n)
      BY <1>1, <2>2
    <3>. QED
      BY <3>1
  <2>4. i =< Len(t) + 1
    BY <1>1, <2>1, <2>3
  <2>5. ASSUME NEW j \in 1..(i - 1) PROVE t[j] = u[j]
    <3>1. j \in 1..Len(t) /\ j \in 1..Len(u) /\ n + j \in 1..(m - 1)
      BY <1>0, <2>3, <2>4, SMTT(60)
    <3>2. a[n + j] = b[n + j]
      BY <2>1, <3>1
    <3>. QED
      BY <1>3, <3>1, <3>2
  <2>6. ASSUME i =< Len(t) PROVE t[i] < u[i]
    <3>1. i \in 1..Len(t) /\ n + i =< Len(a)
      BY <1>1, <2>6
    <3>2. a[n + i] < b[n + i]
      BY <2>1, <2>3, <3>1
    <3>. QED
      BY <1>3, <3>1, <3>2
  <2>7. LessAt(t, u, i)
    BY <2>4, <2>5, <2>6 DEF LessAt
  <2>. QED
    BY <2>3, <2>7
<1>6. NameLess(a, b) => NameLess(t, u)
  BY <1>1, <1>5, NameLessIs
<1>7. NameLess(t, u) => NameLess(a, b)
  <2>1. ASSUME NEW i \in 1..Len(u), LessAt(t, u, i) PROVE NameLess(a, b)
    <3>1. n + i \in 1..Len(b)
      BY <1>1
    <3>. QED
      BY <1>1, <1>4, <2>1, <3>1, NameLessIs
  <2>. QED
    BY <2>1, NameLessIs
<1>. QED
  BY <1>6, <1>7 DEF a, b
=============================================================================
