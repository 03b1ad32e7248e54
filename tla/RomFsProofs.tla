----------------------------- MODULE RomFsProofs ----------------------------
(***************************************************************************)
(* RomFS for every tree and every image.  What build writes is the image   *)
(* the stored tree defines, whatever order the files were added in, and    *)
(* its hash chains reach every entry; no walk of the reader, whatever the  *)
(* bytes, reads outside the buffer; and on an image that was built open    *)
(* finds the file, and a listing the entries, that were stored: builder    *)
(* and reader together implement Container.                                *)
(***************************************************************************)
EXTENDS RomFs, LayoutLemmas, TLAPS

(***************************************************************************)
(* Sequences and the full path a sequence of names spells                  *)
(***************************************************************************)
LEMMA FrontLast ==
  ASSUME NEW S, NEW p \in Seq(S), p # <<>>
  PROVE  /\ Front(p) \in Seq(S) /\ Len(Front(p)) = Len(p) - 1 /\ Last(p) \in S
         /\ \A i \in 1..(Len(p) - 1) : Front(p)[i] = p[i]
         /\ p = Append(Front(p), Last(p))
<1>1. Len(p) \in Nat \ {0} /\ \A i \in 1..Len(p) : p[i] \in S
  BY EmptySeq, LenProperties, ElementOfSeq
<1>2. Front(p) = SubSeq(p, 1, Len(p) - 1) /\ Last(p) = p[Len(p)]
  BY DEF Front, Last
<1>3. /\ Front(p) \in Seq(S) /\ Len(Front(p)) = (IF 1 =< Len(p) - 1 THEN Len(p) - 1 - 1 + 1 ELSE 0)
      /\ \A i \in 1..(Len(p) - 1 - 1 + 1) : Front(p)[i] = p[1 + i - 1]
  <2>1. \A i \in 1..(Len(p) - 1) : p[i] \in S
    BY <1>1
  <2>2. 1 \in Int /\ Len(p) - 1 \in Int
    BY <1>1
  <2>. QED
    BY <1>2, <2>1, <2>2, SubSeqProperties
<1>4. Len(Front(p)) = Len(p) - 1 /\ \A i \in 1..(Len(p) - 1) : Front(p)[i] = p[i]
  <2>1. \A i \in 1..(Len(p) - 1) : i \in 1..(Len(p) - 1 - 1 + 1) /\ 1 + i - 1 = i
    BY <1>1, SMTT(60)
  <2>2. Len(Front(p)) = Len(p) - 1
    <3>. DEFINE n == Len(p)
    <3>0. n \in Nat \ {0}
      BY <1>1
    <3>. HIDE DEF n
    <3>1. n - 1 - 1 + 1 = n - 1 /\ (1 =< n - 1 \/ n - 1 = 0)
      BY <3>0
    <3>. QED
      BY <1>3, <3>1 DEF n
  <2>. QED
    BY <1>3, <2>1, <2>2
<1>5. p = Append(Front(p), Last(p))
  <2>. DEFINE q == Append(Front(p), Last(p))
  <2>1. /\ q \in Seq(S) /\ Len(q) = Len(p)
        /\ (\A i \in 1..(Len(p) - 1) : q[i] = Front(p)[i]) /\ q[Len(p)] = Last(p)
    BY <1>1, <1>2, <1>3, <1>4, AppendProperties
  <2>. HIDE DEF q
  <2>2. \A i \in 1..Len(p) : p[i] = q[i]
    <3>1. \A i \in 1..Len(p) : i \in 1..(Len(p) - 1) \/ i = Len(p)
      BY <1>1
    <3>. QED
      BY <1>2, <1>4, <2>1, <3>1
  <2>3. p = q
    BY <2>1, <2>2, SeqEqual
  <2>. QED
    BY <2>3 DEF q
<1>. QED
  BY <1>1, <1>2, <1>3, <1>4, <1>5

LEMMA AppendIs ==
  ASSUME NEW S, NEW p \in Seq(S), NEW x \in S
  PROVE  /\ Append(p, x) \in Seq(S) /\ Append(p, x) # <<>>
         /\ Front(Append(p, x)) = p /\ Last(Append(p, x)) = x
<1>1. Append(p, x) \in Seq(S) /\ Append(p, x) # <<>>
  BY AppendProperties
<1>2. Append(p, x) = Append(Front(Append(p, x)), Last(Append(p, x))) /\ Front(Append(p, x)) \in Seq(S) /\ Last(Append(p, x)) \in S
  BY <1>1, FrontLast
<1>. QED
  BY <1>1, <1>2, AppendInjective

LEMMA TextIs ==
  ASSUME NEW t \in Text
  PROVE  /\ t \in Seq(Int) /\ Len(t) \in Nat /\ <<SEP>> \o t \in Seq(Nat)
         /\ INVALID \notin ToSet(t)
         /\ \A i \in 1..Len(t) : t[i] \in Nat /\ t[i] # SEP
<1>1. t \in Seq(Nat \ {SEP, INVALID})
  BY DEF Text
<1>2. Len(t) \in Nat /\ DOMAIN t = 1..Len(t) /\ \A i \in 1..Len(t) : t[i] \in Nat \ {SEP, INVALID}
  BY <1>1, LenProperties, ElementOfSeq
<1>3. t \in Seq(Nat) /\ t \in Seq(Int)
  BY <1>1, SeqMonotonic
<1>4. <<SEP>> \in Seq(Nat)
  BY SepAssumption
<1>5. <<SEP>> \o t \in Seq(Nat)
  BY <1>3, <1>4, ConcatProperties
<1>. QED
  BY <1>2, <1>3, <1>5 DEF ToSet

LEMMA NameIs ==
  ASSUME NEW s \in Name
  PROVE  s \in Text /\ s # <<>>
  BY DEF Name

\* What Full makes of each part of a path.
Spelt(p) == [k \in DOMAIN p |-> <<SEP>> \o p[k]]

LEMMA FullIs ==
  ASSUME NEW p \in Seq(Text)
  PROVE  \E fl \in [0..Len(p) -> Seq(Nat)] : Flattens(fl, Spelt(p)) /\ Full(p) = fl[Len(p)] /\ Len(Spelt(p)) = Len(p)
<1>1. Len(p) \in Nat /\ DOMAIN p = 1..Len(p) /\ \A k \in 1..Len(p) : <<SEP>> \o p[k] \in Seq(Nat)
  BY LenProperties, ElementOfSeq, TextIs
<1>2. Spelt(p) \in [1..Len(p) -> Seq(Nat)]
  BY <1>1 DEF Spelt
<1>3. Full(p) = FlattenSeq(Spelt(p))
  BY DEF Full, Spelt
<1>. QED
  BY <1>1, <1>2, <1>3, FlattenIs

LEMMA FullType ==
  ASSUME NEW p \in Seq(Text)
  PROVE  Full(p) \in Seq(Nat) /\ Full(p) \in Seq(Int)
<1>1. Len(p) \in 0..Len(p)
  BY LenProperties
<1>2. Full(p) \in Seq(Nat)
  BY <1>1, FullIs
<1>. QED
  BY <1>2, SeqMonotonic

LEMMA FullEmpty == Full(<<>>) = <<>>
<1>1. <<>> \in Seq(Text) /\ Len(<<>>) = 0
  BY EmptySeq
<1>2. PICK fl \in [0..0 -> Seq(Nat)] : Flattens(fl, Spelt(<<>>)) /\ Full(<<>>) = fl[0]
  BY <1>1, FullIs
<1>. QED
  BY <1>2 DEF Flattens

Joined(s, t) == s \o (<<SEP>> \o t)

\* format!("{}/{}", parent, name) is the full path of the entry.
LEMMA FullAppend ==
  ASSUME NEW p \in Seq(Text), NEW t \in Text
  PROVE  Full(Append(p, t)) = Full(p) \o <<SEP>> \o t /\ Full(Append(p, t)) = Joined(Full(p), t)
<1>. DEFINE n == Len(p)
            q == Append(p, t)
<1>1. n \in Nat /\ DOMAIN p = 1..n
  BY LenProperties
<1>2. q \in Seq(Text) /\ Len(q) = n + 1 /\ (\A i \in 1..n : q[i] = p[i]) /\ q[n + 1] = t /\ DOMAIN q = 1..(n + 1)
  BY AppendProperties, LenProperties
<1>3. PICK f \in [0..n -> Seq(Nat)] : Flattens(f, Spelt(p)) /\ Full(p) = f[n] /\ Len(Spelt(p)) = n
  BY FullIs
<1>. HIDE DEF q
<1>4. PICK g \in [0..(n + 1) -> Seq(Nat)] : Flattens(g, Spelt(q)) /\ Full(q) = g[n + 1] /\ Len(Spelt(q)) = n + 1
  BY <1>2, FullIs
<1>. DEFINE G == {k \in 0..n : g[k] = f[k]}
<1>5. 0 \in G
  BY <1>1, <1>3, <1>4 DEF Flattens
<1>6. \A k \in 1..n : Spelt(q)[k] = Spelt(p)[k] /\ k \in 1..(n + 1)
  BY <1>1, <1>2 DEF Spelt
<1>7. ASSUME NEW k \in 1..n, k - 1 \in G PROVE k \in G
  <2>1. g[k] = g[k - 1] \o Spelt(q)[k] /\ f[k] = f[k - 1] \o Spelt(p)[k]
    BY <1>3, <1>4, <1>6 DEF Flattens
  <2>2. g[k - 1] = f[k - 1] /\ k \in 0..n
    BY <1>7
  <2>. QED
    BY <1>6, <2>1, <2>2
<1>8. g[n] = f[n]
  <2>1. \A k \in 0..n : k \in G
    <3>1. \A k \in 1..n : k - 1 \in G => k \in G
      BY <1>7
    <3>. HIDE DEF G
    <3>. QED
      BY <1>1, <1>5, <3>1, UpTo
  <2>. QED
    BY <1>1, <2>1
<1>9. g[n + 1] = g[n] \o (<<SEP>> \o t)
  <2>1. n + 1 \in 1..(n + 1) /\ (n + 1) - 1 = n
    BY <1>1
  <2>2. Spelt(q)[n + 1] = <<SEP>> \o t
    BY <1>2, <2>1 DEF Spelt
  <2>3. g[n + 1] = g[(n + 1) - 1] \o Spelt(q)[n + 1]
    BY <1>4, <2>1 DEF Flattens
  <2>. QED
    BY <2>1, <2>2, <2>3
<1>10. Full(q) = Full(p) \o (<<SEP>> \o t)
  BY <1>3, <1>4, <1>8, <1>9
<1>11. Full(p) \o (<<SEP>> \o t) = Full(p) \o <<SEP>> \o t
  <2>1. Full(p) \in Seq(Int) /\ t \in Seq(Int) /\ <<SEP>> \in Seq(Int)
    BY FullType, TextIs, SepAssumption
  <2>. QED
    BY <2>1, ConcatAssociative, SMTT(60)
<1>. QED
  BY <1>10, <1>11 DEF q, Joined

LEMMA LastPartIs ==
  ASSUME NEW s \in Seq(Int), NEW t \in Text, NEW w, w = s \o (<<SEP>> \o t)
  PROVE  /\ w \in Seq(Int) /\ Len(w) = (Len(s) + Len(t)) + 1 /\ w[Len(s) + 1] = SEP
         /\ \A i \in 1..Len(s) : w[i] = s[i]
         /\ \A i \in 1..Len(t) : w[(Len(s) + 1) + i] = t[i]
<1>. DEFINE a == <<SEP>> \o t
            m == Len(s)
            n == Len(t)
<1>1. m \in Nat /\ n \in Nat /\ t \in Seq(Int) /\ <<SEP>> \in Seq(Int) /\ Len(<<SEP>>) = 1 /\ <<SEP>>[1] = SEP
  BY LenProperties, TextIs, SepAssumption
<1>2. a \in Seq(Int) /\ Len(a) = 1 + n /\ \A i \in 1..(1 + n) : a[i] = IF i =< 1 THEN <<SEP>>[i] ELSE t[i - 1]
  BY <1>1, ConcatProperties
<1>. HIDE DEF a, m, n
<1>3. w \in Seq(Int) /\ Len(w) = m + (1 + n) /\ \A i \in 1..(m + (1 + n)) : w[i] = IF i =< m THEN s[i] ELSE a[i - m]
  <2>1. w = s \o a
    BY DEF a
  <2>. QED
    <3>1. /\ w \in Seq(Int) /\ Len(w) = Len(s) + Len(a)
          /\ \A i \in 1..(Len(s) + Len(a)) : w[i] = IF i =< Len(s) THEN s[i] ELSE a[i - Len(s)]
      <4>1. /\ s \o a \in Seq(Int) /\ Len(s \o a) = Len(s) + Len(a)
            /\ \A i \in 1..(Len(s) + Len(a)) : (s \o a)[i] = IF i =< Len(s) THEN s[i] ELSE a[i - Len(s)]
        BY <1>2, ConcatProperties
      <4>. QED
        BY <2>1, <4>1, Zenon
    <3>. QED
      BY <1>2, <3>1 DEF m
<1>4. /\ Len(w) = (m + n) + 1
      /\ m + 1 \in 1..(m + (1 + n)) /\ ~(m + 1 =< m) /\ (m + 1) - m = 1 /\ 1 \in 1..(1 + n)
      /\ \A i \in 1..m : i \in 1..(m + (1 + n)) /\ i =< m
      /\ \A i \in 1..n : /\ (m + 1) + i \in 1..(m + (1 + n)) /\ ~((m + 1) + i =< m) /\ ((m + 1) + i) - m = i + 1
                         /\ i + 1 \in 1..(1 + n) /\ ~(i + 1 =< 1) /\ (i + 1) - 1 = i
  BY <1>1, <1>3
<1>5. w[m + 1] = SEP
  <2>1. w[m + 1] = a[1]
    BY <1>3, <1>4, ZenonT(60)
  <2>2. a[1] = <<SEP>>[1]
    <3>1. 1 \in 1..(1 + n) /\ 1 =< 1
      BY <1>1
    <3>. QED
      BY <1>2, <3>1, Zenon
  <2>. QED
    BY <1>1, <2>1, <2>2, Zenon
<1>6. \A i \in 1..m : w[i] = s[i]
  BY <1>3, <1>4
<1>7. \A i \in 1..n : w[(m + 1) + i] = t[i]
  <2>1. \A i \in 1..n : w[(m + 1) + i] = a[i + 1]
    <3>. SUFFICES ASSUME NEW i \in 1..n PROVE w[(m + 1) + i] = a[i + 1]
      OBVIOUS
    <3>1. PICK j : j = (m + 1) + i
      OBVIOUS
    <3>2. j \in 1..(m + (1 + n)) /\ ~(j =< m) /\ j - m = i + 1
      BY <1>4, <3>1
    <3>3. w[j] = a[j - m]
      BY <1>3, <3>2
    <3>. QED
      BY <3>1, <3>2, <3>3
  <2>2. \A i \in 1..n : a[i + 1] = t[i]
    BY <1>2, <1>4, SMTT(60)
  <2>. QED
    BY <2>1, <2>2
<1>. QED
  BY <1>3, <1>4, <1>5, <1>6, <1>7 DEF m, n

\* Where the last separator is, the last part begins.
LEMMA LastPart ==
  ASSUME NEW s \in Seq(Int), NEW t \in Text, NEW u \in Seq(Int), NEW v \in Text, Joined(s, t) = Joined(u, v)
  PROVE  s = u /\ t = v
<1>. DEFINE w == Joined(s, t)
            m == Len(s)
            n == Len(t)
            k == Len(u)
            l == Len(v)
<1>1. /\ m \in Nat /\ n \in Nat /\ k \in Nat /\ l \in Nat /\ t \in Seq(Int) /\ v \in Seq(Int)
      /\ \A i \in 1..n : t[i] # SEP
      /\ \A i \in 1..l : v[i] # SEP
  BY LenProperties, TextIs
<1>2. /\ Len(w) = (m + n) + 1 /\ w[m + 1] = SEP
      /\ \A i \in 1..m : w[i] = s[i]
      /\ \A i \in 1..n : w[(m + 1) + i] = t[i]
  BY LastPartIs DEF Joined
<1>3. /\ Len(w) = (k + l) + 1 /\ w[k + 1] = SEP
      /\ \A i \in 1..k : w[i] = u[i]
      /\ \A i \in 1..l : w[(k + 1) + i] = v[i]
  <2>1. w = u \o (<<SEP>> \o v)
    BY DEF Joined
  <2>. HIDE DEF w
  <2>2. /\ Len(w) = (Len(u) + Len(v)) + 1 /\ w[Len(u) + 1] = SEP
        /\ \A i \in 1..Len(u) : w[i] = u[i]
        /\ \A i \in 1..Len(v) : w[(Len(u) + 1) + i] = v[i]
    BY <2>1, LastPartIs
  <2>. QED
    BY <2>2
<1>. HIDE DEF w, m, n, k, l
<1>4. m = k
  <2>1. ASSUME m < k PROVE FALSE
    <3>1. (m + n) + 1 = (k + l) + 1
      BY <1>2, <1>3
    <3>2. PICK i \in 1..n : i = k - m /\ k + 1 = (m + 1) + i
      BY <1>1, <2>1, <3>1
    <3>3. w[k + 1] = t[i]
      BY <1>2, <3>2
    <3>. QED
      BY <1>1, <1>3, <3>3
  <2>2. ASSUME k < m PROVE FALSE
    <3>1. (m + n) + 1 = (k + l) + 1
      BY <1>2, <1>3
    <3>2. PICK i \in 1..l : i = m - k /\ m + 1 = (k + 1) + i
      BY <1>1, <2>2, <3>1
    <3>3. w[m + 1] = v[i]
      BY <1>3, <3>2
    <3>. QED
      BY <1>1, <1>2, <3>3
  <2>. QED
    BY <1>1, <2>1, <2>2
<1>5. n = l
  BY <1>1, <1>2, <1>3, <1>4
<1>6. s = u
  <2>1. \A i \in 1..m : s[i] = u[i]
    BY <1>2, <1>3, <1>4
  <2>. QED
    BY <1>4, <2>1, SeqEqual DEF m, k
<1>7. t = v
  <2>1. \A i \in 1..n : t[i] = v[i]
    BY <1>2, <1>3, <1>4, <1>5
  <2>. QED
    BY <1>1, <1>5, <2>1, SeqEqual DEF n, l
<1>. QED
  BY <1>6, <1>7

\* A path ends in its last part.
LEMMA FullSplit ==
  ASSUME NEW p \in Seq(Text), p # <<>>
  PROVE  /\ Front(p) \in Seq(Text) /\ Last(p) \in Text /\ p = Append(Front(p), Last(p))
         /\ Full(p) = Joined(Full(Front(p)), Last(p))
         /\ Full(p) # <<>>
<1>1. Front(p) \in Seq(Text) /\ Last(p) \in Text /\ p = Append(Front(p), Last(p))
  BY FrontLast
<1>2. Full(p) = Joined(Full(Front(p)), Last(p))
  BY <1>1, FullAppend
<1>3. Full(p) # <<>>
  <2>1. Full(Front(p)) \in Seq(Int) /\ Len(Full(Front(p))) \in Nat /\ Len(Last(p)) \in Nat
    BY <1>1, FullType, TextIs, LenProperties
  <2>2. Len(Full(p)) = (Len(Full(Front(p))) + Len(Last(p))) + 1
    BY <1>1, <1>2, <2>1, LastPartIs DEF Joined
  <2>. DEFINE m == Len(Full(Front(p)))
              n == Len(Last(p))
  <2>. HIDE DEF m, n
  <2>3. (m + n) + 1 # 0
    BY <2>1 DEF m, n
  <2>4. Len(Full(p)) # 0
    BY <2>2, <2>3 DEF m, n
  <2>. QED
    BY <2>4, EmptySeq
<1>. QED
  BY <1>1, <1>2, <1>3

\* Different paths are spelt differently.
LEMMA FullInjective ==
  ASSUME NEW p \in Seq(Text), NEW q \in Seq(Text), Full(p) = Full(q)
  PROVE  p = q
<1>. DEFINE G == {n \in Nat : \A r \in Seq(Text) : Len(r) = n => \A s \in Seq(Text) : Full(r) = Full(s) => r = s}
<1>1. 0 \in G
  <2>. SUFFICES ASSUME NEW r \in Seq(Text), Len(r) = 0, NEW s \in Seq(Text), Full(r) = Full(s) PROVE r = s
    OBVIOUS
  <2>1. r = <<>> /\ Full(r) = <<>>
    BY EmptySeq, FullEmpty
  <2>. QED
    BY <2>1, FullSplit
<1>2. ASSUME NEW n \in Nat, n > 0, n - 1 \in G PROVE n \in G
  <2>. SUFFICES ASSUME NEW r \in Seq(Text), Len(r) = n, NEW s \in Seq(Text), Full(r) = Full(s) PROVE r = s
    OBVIOUS
  <2>1. r # <<>>
    BY <1>2, EmptySeq
  <2>2. /\ Front(r) \in Seq(Text) /\ Last(r) \in Text /\ r = Append(Front(r), Last(r)) /\ Full(r) # <<>>
        /\ Full(r) = Joined(Full(Front(r)), Last(r)) /\ Len(Front(r)) = n - 1
    BY <2>1, FullSplit, FrontLast
  <2>3. s # <<>>
    BY <2>2, FullEmpty
  <2>4. /\ Front(s) \in Seq(Text) /\ Last(s) \in Text /\ s = Append(Front(s), Last(s))
        /\ Full(s) = Joined(Full(Front(s)), Last(s))
    BY <2>3, FullSplit
  <2>5. Full(Front(r)) \in Seq(Int) /\ Full(Front(s)) \in Seq(Int)
    BY <2>2, <2>4, FullType
  <2>6. Full(Front(r)) = Full(Front(s)) /\ Last(r) = Last(s)
    <3>1. Joined(Full(Front(r)), Last(r)) = Joined(Full(Front(s)), Last(s))
      BY <2>2, <2>4
    <3>. QED
      BY <2>2, <2>4, <2>5, <3>1, LastPart
  <2>7. Front(r) = Front(s)
    BY <1>2, <2>2, <2>4, <2>6
  <2>. QED
    BY <2>2, <2>4, <2>6, <2>7
<1>3. Len(p) \in Nat
  BY LenProperties
<1>4. Len(p) \in G
  <2>1. \A k \in 1..Len(p) : k - 1 \in G => k \in G
    <3>1. \A k \in 1..Len(p) : k \in Nat /\ k > 0
      OBVIOUS
    <3>. QED
      BY <1>2, <3>1
  <2>. HIDE DEF G
  <2>2. \A k \in 0..Len(p) : k \in G
    BY <1>1, <1>3, <2>1, UpTo
  <2>. QED
    BY <1>3, <2>2
<1>. QED
  BY <1>4

\* Paths are ordered as the sort orders what they spell.
LEMMA PathsOrdered ==
  /\ \A p \in Seq(Text) : ~PathLess(p, p)
  /\ \A p, q \in Seq(Text) : p # q => PathLess(p, q) \/ PathLess(q, p)
  /\ \A p, q \in Seq(Text) : ~(PathLess(p, q) /\ PathLess(q, p))
  /\ \A p, q, r \in Seq(Text) : PathLess(p, q) /\ PathLess(q, r) => PathLess(p, r)
<1>1. ASSUME NEW p \in Seq(Text) PROVE ~PathLess(p, p)
  BY FullType, NamesOrdered DEF PathLess
<1>2. ASSUME NEW p \in Seq(Text), NEW q \in Seq(Text), p # q PROVE PathLess(p, q) \/ PathLess(q, p)
  <2>1. Full(p) # Full(q)
    BY <1>2, FullInjective
  <2>. QED
    BY <2>1, FullType, NamesOrdered DEF PathLess
<1>3. ASSUME NEW p \in Seq(Text), NEW q \in Seq(Text), NEW r \in Seq(Text), PathLess(p, q), PathLess(q, r) PROVE PathLess(p, r)
  <2>1. Full(p) \in Seq(Int) /\ Full(q) \in Seq(Int) /\ Full(r) \in Seq(Int)
    BY FullType
  <2>. QED
    BY <1>3, <2>1, NamesOrdered DEF PathLess
<1>4. \A p, q \in Seq(Text) : ~(PathLess(p, q) /\ PathLess(q, p))
  BY <1>1, <1>3
<1>. QED
  BY <1>1, <1>2, <1>3, <1>4

\* The entries of a directory come in the order of their names.
LEMMA SiblingsOrdered ==
  ASSUME NEW p \in Seq(Text), NEW q \in Seq(Text), p # <<>>, q # <<>>, Front(p) = Front(q)
  PROVE  PathLess(p, q) <=> NameLess(Last(p), Last(q))
<1>1. /\ Front(p) \in Seq(Text) /\ Last(p) \in Text /\ Last(q) \in Text
      /\ Full(p) = Joined(Full(Front(p)), Last(p)) /\ Full(q) = Joined(Full(Front(p)), Last(q))
  BY FullSplit
<1>2. Full(Front(p)) \in Seq(Int)
  BY <1>1, FullType
<1>3. <<SEP>> \in Seq(Int) /\ Last(p) \in Seq(Int) /\ Last(q) \in Seq(Int)
  BY <1>1, TextIs, SepAssumption
<1>4. <<SEP>> \o Last(p) \in Seq(Int) /\ <<SEP>> \o Last(q) \in Seq(Int)
  BY <1>3, ConcatProperties
<1>5. NameLess(<<SEP>> \o Last(p), <<SEP>> \o Last(q)) <=> NameLess(Last(p), Last(q))
  BY <1>3, CommonFront
<1>6. NameLess(Full(Front(p)) \o (<<SEP>> \o Last(p)), Full(Front(p)) \o (<<SEP>> \o Last(q)))
        <=> NameLess(<<SEP>> \o Last(p), <<SEP>> \o Last(q))
  BY <1>2, <1>4, CommonFront
<1>. QED
  BY <1>1, <1>5, <1>6 DEF PathLess, Joined

\* The root comes before everything in it.
LEMMA RootFirst ==
  ASSUME NEW p \in Seq(Text), p # <<>>
  PROVE  PathLess(<<>>, p)
<1>1. Full(p) \in Seq(Int) /\ Full(p) # <<>> /\ Full(<<>>) = <<>> /\ <<>> \in Seq(Int) /\ Len(<<>>) = 0
  BY FullSplit, FullType, FullEmpty, EmptySeq
<1>2. Len(Full(p)) \in Nat \ {0}
  BY <1>1, EmptySeq
<1>3. LessAt(<<>>, Full(p), 1) /\ 1 \in 1..Len(Full(p))
  BY <1>1, <1>2 DEF LessAt
<1>. QED
  BY <1>1, <1>3, NameLessIs DEF PathLess

(***************************************************************************)
(* The builder's vectors hold a tree                                       *)
(***************************************************************************)
Path == Seq(Name)
DirRec == [path : Seq(Nat), name : Text, children : Seq(Nat), files : Seq(Nat), parent : Nat]
FileRec == [path : Seq(Nat), name : Text, data : Bytes, parent : Nat]

Once(s) == \A j, k \in DOMAIN s : s[j] = s[k] => j = k

\* The indices of the paths of P right inside p.
Within(P, p) == {i \in DOMAIN P : P[i] # <<>> /\ Front(P[i]) = p}

Lists(indices, P, p) == indices \in Seq(Nat) /\ Once(indices) /\ ToSet(indices) = Within(P, p)

DirIs(d, D, F, p) ==
  /\ d.path = Full(p) /\ d.name = BaseName(p)
  /\ d.parent \in DOMAIN D /\ D[d.parent] = Parent(p)
  /\ Lists(d.children, D, p) /\ Lists(d.files, F, p)

FileIs(f, D, p) ==
  /\ p # <<>> /\ f.path = Full(p) /\ f.name = Last(p)
  /\ f.parent \in DOMAIN D /\ D[f.parent] = Front(p)

\* D and F are the paths the vectors stand for.
Filed(ds, fls, D, F) ==
  /\ ds \in Seq(DirRec) /\ D \in Seq(Path) /\ Len(D) = Len(ds) /\ Once(D)
  /\ fls \in Seq(FileRec) /\ F \in Seq(Path) /\ Len(F) = Len(fls) /\ Once(F)
  /\ D # <<>> /\ D[1] = <<>>
  /\ \A i \in DOMAIN D : DirIs(ds[i], D, F, D[i])
  /\ \A i \in DOMAIN F : FileIs(fls[i], D, F[i])

LEMMA PathIs ==
  ASSUME NEW p \in Path
  PROVE  /\ p \in Seq(Text)
         /\ p # <<>> => Front(p) \in Path /\ Last(p) \in Name /\ p = Append(Front(p), Last(p))
         /\ Parent(p) \in Path /\ BaseName(p) \in Text
<1>1. Name \subseteq Text /\ <<>> \in Text
  BY EmptySeq DEF Name, Text
<1>2. p \in Seq(Text)
  BY <1>1, SeqMonotonic DEF Path
<1>3. p # <<>> => Front(p) \in Path /\ Last(p) \in Name /\ p = Append(Front(p), Last(p))
  BY FrontLast DEF Path
<1>4. <<>> \in Path
  BY EmptySeq DEF Path
<1>. QED
  BY <1>1, <1>2, <1>3, <1>4 DEF Parent, BaseName

LEMMA FiledIs ==
  ASSUME NEW ds, NEW fls, NEW D, NEW F, Filed(ds, fls, D, F)
  PROVE  /\ Len(D) \in Nat \ {0} /\ DOMAIN D = 1..Len(D) /\ DOMAIN ds = 1..Len(D) /\ Len(ds) = Len(D)
         /\ Len(F) \in Nat /\ DOMAIN F = 1..Len(F) /\ DOMAIN fls = 1..Len(F) /\ Len(fls) = Len(F)
         /\ \A i \in 1..Len(D) : D[i] \in Path /\ ds[i] \in DirRec /\ DirIs(ds[i], D, F, D[i])
         /\ \A i \in 1..Len(F) : F[i] \in Path /\ fls[i] \in FileRec /\ FileIs(fls[i], D, F[i])
         /\ \A i \in 1..Len(D) : D[i] # <<>> => Front(D[i]) \in ToSet(D)
         /\ \A i \in 1..Len(F) : F[i] # <<>> /\ Front(F[i]) \in ToSet(D)
<1>1. /\ Len(D) \in Nat \ {0} /\ DOMAIN D = 1..Len(D) /\ DOMAIN ds = 1..Len(D) /\ Len(ds) = Len(D)
      /\ Len(F) \in Nat /\ DOMAIN F = 1..Len(F) /\ DOMAIN fls = 1..Len(F) /\ Len(fls) = Len(F)
  BY LenProperties, EmptySeq DEF Filed
<1>2. \A i \in 1..Len(D) : D[i] \in Path /\ ds[i] \in DirRec
  BY <1>1, ElementOfSeq DEF Filed
<1>3. \A i \in 1..Len(F) : F[i] \in Path /\ fls[i] \in FileRec
  BY <1>1, ElementOfSeq DEF Filed
<1>4. \A i \in 1..Len(D) : DirIs(ds[i], D, F, D[i])
  BY <1>1 DEF Filed
<1>5. \A i \in 1..Len(F) : FileIs(fls[i], D, F[i])
  BY <1>1 DEF Filed
<1>6. \A i \in 1..Len(D) : D[i] # <<>> => Front(D[i]) \in ToSet(D)
  BY <1>1, <1>4 DEF DirIs, Parent, ToSet
<1>7. \A i \in 1..Len(F) : F[i] # <<>> /\ Front(F[i]) \in ToSet(D)
  BY <1>1, <1>5 DEF FileIs, ToSet
<1>. QED
  BY <1>1, <1>2, <1>3, <1>4, <1>5, <1>6, <1>7

\* What a path appended to a vector adds to its directories.
LEMMA WithinAppend ==
  ASSUME NEW P \in Seq(Path), NEW q \in Path, q # <<>>, NEW p
  PROVE  Within(Append(P, q), p) = Within(P, p) \union (IF Front(q) = p THEN {Len(P) + 1} ELSE {})
<1>. DEFINE n == Len(P)
            Q == Append(P, q)
<1>1. n \in Nat /\ DOMAIN P = 1..n
  BY LenProperties
<1>2. DOMAIN Q = 1..(n + 1) /\ (\A i \in 1..n : Q[i] = P[i]) /\ Q[n + 1] = q
  BY AppendProperties, LenProperties
<1>. HIDE DEF Q, n
<1>3. DOMAIN Q = (1..n) \union {n + 1} /\ n + 1 \notin 1..n
  BY <1>1, <1>2
<1>4. Within(Q, p) = {i \in 1..n : Q[i] # <<>> /\ Front(Q[i]) = p} \union {i \in {n + 1} : Q[i] # <<>> /\ Front(Q[i]) = p}
  BY <1>3 DEF Within
<1>5. {i \in 1..n : Q[i] # <<>> /\ Front(Q[i]) = p} = Within(P, p)
  BY <1>1, <1>2 DEF Within
<1>6. {i \in {n + 1} : Q[i] # <<>> /\ Front(Q[i]) = p} = IF Front(q) = p THEN {n + 1} ELSE {}
  BY <1>2
<1>. QED
  BY <1>4, <1>5, <1>6 DEF Q, n

LEMMA ListsAppend ==
  ASSUME NEW P \in Seq(Path), NEW q \in Path, q # <<>>, NEW indices, Lists(indices, P, Front(q))
  PROVE  Lists(Append(indices, Len(P) + 1), Append(P, q), Front(q))
<1>. DEFINE n == Len(P)
            m == Len(indices)
            s == Append(indices, n + 1)
<1>1. n \in Nat /\ m \in Nat /\ DOMAIN P = 1..n /\ indices \in Seq(Nat) /\ DOMAIN indices = 1..m
  BY LenProperties DEF Lists
<1>2. s \in Seq(Nat) /\ DOMAIN s = 1..(m + 1) /\ (\A i \in 1..m : s[i] = indices[i]) /\ s[m + 1] = n + 1
  <2>1. n + 1 \in Nat
    BY <1>1
  <2>. QED
    BY <1>1, <2>1, AppendProperties, LenProperties
<1>3. \A i \in 1..m : indices[i] \in 1..n
  BY <1>1 DEF Lists, ToSet, Within
<1>4. Within(Append(P, q), Front(q)) = Within(P, Front(q)) \union {n + 1}
  BY WithinAppend
<1>. HIDE DEF s, m, n
<1>5. DOMAIN s = (1..m) \union {m + 1} /\ m + 1 \notin 1..m /\ n + 1 \notin 1..n
  BY <1>1, <1>2
<1>6. Once(s)
  <2>1. ASSUME NEW j \in 1..m, NEW k \in 1..m, s[j] = s[k] PROVE j = k
    BY <1>1, <1>2, <2>1 DEF Lists, Once
  <2>2. \A j \in 1..m : s[j] # s[m + 1]
    BY <1>2, <1>3, <1>5
  <2>. QED
    BY <1>5, <2>1, <2>2 DEF Once
<1>7. ToSet(s) = ToSet(indices) \union {n + 1}
  BY <1>1, <1>2, <1>5, SMTT(60) DEF ToSet
<1>8. Lists(s, Append(P, q), Front(q))
  BY <1>2, <1>4, <1>6, <1>7 DEF Lists
<1>. QED
  BY <1>8 DEF s, n

LEMMA OnceAppend ==
  ASSUME NEW S, NEW P \in Seq(S), NEW q \in S, Once(P), q \notin ToSet(P)
  PROVE  Once(Append(P, q)) /\ ToSet(Append(P, q)) = ToSet(P) \union {q}
<1>. DEFINE n == Len(P)
            Q == Append(P, q)
<1>1. n \in Nat /\ DOMAIN P = 1..n
  BY LenProperties
<1>2. DOMAIN Q = 1..(n + 1) /\ (\A i \in 1..n : Q[i] = P[i]) /\ Q[n + 1] = q
  BY AppendProperties, LenProperties
<1>. HIDE DEF Q, n
<1>3. DOMAIN Q = (1..n) \union {n + 1} /\ n + 1 \notin 1..n
  BY <1>1, <1>2
<1>4. \A i \in 1..n : P[i] # q
  BY <1>1 DEF ToSet
<1>5. Once(Q)
  BY <1>1, <1>2, <1>3, <1>4 DEF Once
<1>6. ToSet(Q) = ToSet(P) \union {q}
  BY <1>1, <1>2, <1>3 DEF ToSet
<1>. QED
  BY <1>5, <1>6 DEF Q

LEMMA PushDirKeeps ==
  ASSUME NEW ds, NEW fls, NEW D, NEW F, Filed(ds, fls, D, F), NEW i \in DOMAIN D, NEW nm \in Name,
         Append(D[i], nm) \notin ToSet(D)
  PROVE  /\ Filed(PushDir(ds, i, nm), fls, Append(D, Append(D[i], nm)), F)
         /\ ToSet(Append(D, Append(D[i], nm))) = ToSet(D) \union {Append(D[i], nm)}
         /\ Append(D[i], nm) \in Path
<1>. DEFINE n == Len(D)
            q == Append(D[i], nm)
            E == Append(D, q)
            upd == [ds EXCEPT ![i].children = Append(@, Len(ds) + 1)]
            new == [path |-> ds[i].path \o <<SEP>> \o nm, name |-> nm, children |-> <<>>, files |-> <<>>, parent |-> i]
            es == PushDir(ds, i, nm)
<1>1. /\ n \in Nat \ {0} /\ DOMAIN D = 1..n /\ DOMAIN ds = 1..n /\ Len(ds) = n
      /\ \A j \in 1..n : D[j] \in Path /\ ds[j] \in DirRec /\ DirIs(ds[j], D, F, D[j])
      /\ \A j \in 1..n : D[j] # <<>> => Front(D[j]) \in ToSet(D)
      /\ \A j \in 1..Len(F) : F[j] # <<>> /\ Front(F[j]) \in ToSet(D)
      /\ DOMAIN F = 1..Len(F)
  BY FiledIs
<1>2. D \in Seq(Path) /\ ds \in Seq(DirRec) /\ Once(D) /\ D[1] = <<>>
  BY DEF Filed
<1>3. q \in Path /\ q # <<>> /\ Front(q) = D[i] /\ Last(q) = nm /\ D[i] \in Seq(Text) /\ nm \in Text
  <2>1. D[i] \in Path /\ nm \in Text
    BY <1>1, NameIs
  <2>. QED
    BY <2>1, AppendIs, PathIs, ZenonT(60) DEF Path
<1>. HIDE DEF q
<1>4. /\ E \in Seq(Path) /\ Len(E) = n + 1 /\ DOMAIN E = 1..(n + 1) /\ E # <<>>
      /\ \A j \in 1..n : E[j] = D[j]
      /\ E[n + 1] = q
  BY <1>2, <1>3, AppendProperties, LenProperties
<1>5. Once(E) /\ ToSet(E) = ToSet(D) \union {q}
  BY <1>2, <1>3, OnceAppend, ZenonT(60) DEF q
<1>6. /\ upd \in Seq(DirRec) /\ Len(upd) = n
      /\ \A j \in 1..n : upd[j] = IF j = i THEN [ds[i] EXCEPT !.children = Append(@, n + 1)] ELSE ds[j]
  <2>. DEFINE e == [ds[i] EXCEPT !.children = Append(@, n + 1)]
  <2>1. ds[i] \in DirRec /\ n + 1 \in Nat
    BY <1>1
  <2>2. Append(ds[i].children, n + 1) \in Seq(Nat)
    BY <2>1, AppendProperties DEF DirRec
  <2>3. e \in DirRec
    BY <2>1, <2>2 DEF DirRec
  <2>4. upd = [ds EXCEPT ![i] = e]
    BY <1>1
  <2>. HIDE DEF e, upd
  <2>5. /\ upd \in Seq(DirRec) /\ Len(upd) = Len(ds)
        /\ \A j \in 1..Len(ds) : upd[j] = IF j = i THEN e ELSE ds[j]
    BY <1>1, <1>2, <2>3, <2>4, ExceptSeq
  <2>. QED
    BY <1>1, <2>5 DEF e
<1>7. new \in DirRec /\ new.path = Full(q)
  <2>1. ds[i].path = Full(D[i])
    BY <1>1 DEF DirIs
  <2>2. Full(q) = Full(D[i]) \o <<SEP>> \o nm
    BY <1>3, FullAppend DEF q
  <2>3. Full(q) \in Seq(Nat)
    BY <1>3, FullType, PathIs
  <2>4. i \in Nat /\ <<>> \in Seq(Nat)
    BY <1>1, EmptySeq
  <2>. QED
    BY <1>3, <2>1, <2>2, <2>3, <2>4 DEF DirRec
<1>8. es = Append(upd, new)
  BY DEF PushDir
<1>. HIDE DEF upd, E, es
<1>9. /\ es \in Seq(DirRec) /\ Len(es) = n + 1
      /\ \A j \in 1..n : es[j] = upd[j]
      /\ es[n + 1] = new
  <2>. HIDE DEF new
  <2>1. upd \in Seq(DirRec) /\ new \in DirRec /\ Len(upd) = n
    BY <1>6, <1>7
  <2>. HIDE DEF n
  <2>. QED
    BY <1>8, <2>1, AppendProperties
<1>10. \A p \in Path : Within(E, p) = Within(D, p) \union (IF D[i] = p THEN {n + 1} ELSE {})
  BY <1>2, <1>3, WithinAppend DEF E
<1>11. ASSUME NEW j \in 1..n PROVE DirIs(es[j], E, F, E[j])
  <2>1. /\ DirIs(ds[j], D, F, D[j]) /\ E[j] = D[j] /\ D[j] \in Path
        /\ es[j] = IF j = i THEN [ds[i] EXCEPT !.children = Append(@, n + 1)] ELSE ds[j]
    BY <1>1, <1>4, <1>6, <1>9
  <2>2. ds[j].parent \in 1..n /\ D[ds[j].parent] = Parent(D[j])
    BY <1>1, <2>1 DEF DirIs
  <2>3. ds[j].parent \in DOMAIN E /\ E[ds[j].parent] = Parent(E[j])
    BY <1>1, <1>4, <2>1, <2>2
  <2>4. CASE j = i
    <3>1. Lists(ds[j].children, D, Front(q)) /\ Front(q) = E[j]
      BY <1>3, <2>1, <2>4 DEF DirIs
    <3>2. Lists(Append(ds[j].children, n + 1), E, E[j])
      BY <1>2, <1>3, <3>1, ListsAppend DEF E
    <3>3. /\ es[j].path = ds[j].path /\ es[j].name = ds[j].name /\ es[j].parent = ds[j].parent /\ es[j].files = ds[j].files
          /\ es[j].children = Append(ds[j].children, n + 1)
      BY <1>1, <2>1, <2>4 DEF DirRec
    <3>. QED
      BY <2>1, <2>3, <3>2, <3>3 DEF DirIs
  <2>5. CASE j # i
    <3>1. D[i] # D[j]
      BY <1>1, <1>2, <2>5 DEF Once
    <3>2. Within(E, E[j]) = Within(D, D[j])
      BY <1>10, <2>1, <3>1
    <3>. QED
      BY <2>1, <2>3, <2>5, <3>2 DEF DirIs, Lists
  <2>. QED
    BY <2>4, <2>5
<1>12. DirIs(es[n + 1], E, F, q)
  <2>1. Within(D, q) = {}
    BY <1>1 DEF Within, q
  <2>2. Within(F, q) = {}
    BY <1>1 DEF Within, q
  <2>3. D[i] # q
    BY <1>1 DEF ToSet, q
  <2>4. Within(E, q) = {}
    BY <1>3, <1>10, <2>1, <2>3
  <2>5. Lists(<<>>, E, q) /\ Lists(<<>>, F, q)
    BY <2>2, <2>4, EmptySeq DEF Lists, Once, ToSet
  <2>6. BaseName(q) = nm /\ Parent(q) = D[i] /\ i \in DOMAIN E /\ E[i] = D[i]
    BY <1>1, <1>3, <1>4 DEF BaseName, Parent
  <2>. QED
    BY <1>7, <1>9, <2>5, <2>6, SMTT(60) DEF DirIs
<1>13. \A j \in DOMAIN E : DirIs(es[j], E, F, E[j])
  <2>1. \A j \in DOMAIN E : j \in 1..n \/ j = n + 1
    BY <1>1, <1>4
  <2>. QED
    BY <1>4, <1>11, <1>12, <2>1
<1>14. \A j \in DOMAIN F : FileIs(fls[j], E, F[j])
  <2>. SUFFICES ASSUME NEW j \in DOMAIN F PROVE FileIs(fls[j], E, F[j])
    OBVIOUS
  <2>1. FileIs(fls[j], D, F[j])
    BY DEF Filed
  <2>2. fls[j].parent \in 1..n
    BY <1>1, <2>1 DEF FileIs
  <2>3. fls[j].parent \in DOMAIN E /\ E[fls[j].parent] = D[fls[j].parent]
    BY <1>1, <1>4, <2>2
  <2>. QED
    BY <2>1, <2>3 DEF FileIs
<1>15. E[1] = <<>>
  BY <1>1, <1>2, <1>4
<1>16. Filed(es, fls, E, F)
  BY <1>4, <1>5, <1>9, <1>13, <1>14, <1>15 DEF Filed
<1>. QED
  BY <1>3, <1>5, <1>16 DEF E, q, es

LEMMA PushFileKeeps ==
  ASSUME NEW ds, NEW fls, NEW D, NEW F, Filed(ds, fls, D, F), NEW i \in DOMAIN D, NEW nm \in Name, NEW data \in Bytes,
         Append(D[i], nm) \notin ToSet(F)
  PROVE  LET pushed == PushFile(ds, fls, i, nm, data)
             q == Append(D[i], nm)
         IN  /\ Filed(pushed.dirs, pushed.files, D, Append(F, q))
             /\ ToSet(Append(F, q)) = ToSet(F) \union {q}
             /\ (\A j \in DOMAIN F : pushed.files[j] = fls[j] /\ Append(F, q)[j] = F[j])
             /\ pushed.files[Len(F) + 1].data = data /\ Append(F, q)[Len(F) + 1] = q
             /\ Len(pushed.files) = Len(F) + 1
<1>. DEFINE n == Len(F)
            q == Append(D[i], nm)
            G == Append(F, q)
            pushed == PushFile(ds, fls, i, nm, data)
            new == [path |-> ds[i].path \o <<SEP>> \o nm, name |-> nm, data |-> data, parent |-> i]
            es == [ds EXCEPT ![i].files = Append(@, Len(fls) + 1)]
            gs == Append(fls, new)
<1>1. /\ DOMAIN D = 1..Len(D) /\ DOMAIN ds = 1..Len(D) /\ Len(ds) = Len(D)
      /\ n \in Nat /\ DOMAIN F = 1..n /\ DOMAIN fls = 1..n /\ Len(fls) = n
      /\ \A j \in 1..Len(D) : D[j] \in Path /\ ds[j] \in DirRec /\ DirIs(ds[j], D, F, D[j])
      /\ \A j \in 1..n : F[j] \in Path /\ fls[j] \in FileRec /\ FileIs(fls[j], D, F[j])
  BY FiledIs
<1>2. D \in Seq(Path) /\ ds \in Seq(DirRec) /\ Once(D) /\ F \in Seq(Path) /\ fls \in Seq(FileRec) /\ Once(F)
  BY DEF Filed
<1>3. q \in Path /\ q # <<>> /\ Front(q) = D[i] /\ Last(q) = nm /\ D[i] \in Seq(Text) /\ nm \in Text
  <2>1. D[i] \in Path /\ nm \in Text
    BY <1>1, NameIs
  <2>. QED
    BY <2>1, AppendIs, PathIs, ZenonT(60) DEF Path
<1>. HIDE DEF q
<1>4. /\ G \in Seq(Path) /\ Len(G) = n + 1 /\ DOMAIN G = 1..(n + 1)
      /\ \A j \in 1..n : G[j] = F[j]
      /\ G[n + 1] = q
  BY <1>2, <1>3, AppendProperties, LenProperties
<1>5. Once(G) /\ ToSet(G) = ToSet(F) \union {q}
  BY <1>2, <1>3, OnceAppend, ZenonT(60) DEF q
<1>6. /\ es \in Seq(DirRec) /\ Len(es) = Len(D)
      /\ \A j \in 1..Len(D) : es[j] = IF j = i THEN [ds[i] EXCEPT !.files = Append(@, n + 1)] ELSE ds[j]
  <2>. DEFINE e == [ds[i] EXCEPT !.files = Append(@, n + 1)]
  <2>1. ds[i] \in DirRec /\ n + 1 \in Nat
    BY <1>1
  <2>2. Append(ds[i].files, n + 1) \in Seq(Nat)
    BY <2>1, AppendProperties DEF DirRec
  <2>3. e \in DirRec
    BY <2>1, <2>2 DEF DirRec
  <2>4. es = [ds EXCEPT ![i] = e]
    BY <1>1
  <2>. HIDE DEF e, es
  <2>5. /\ es \in Seq(DirRec) /\ Len(es) = Len(ds)
        /\ \A j \in 1..Len(ds) : es[j] = IF j = i THEN e ELSE ds[j]
    BY <1>1, <1>2, <2>3, <2>4, ExceptSeq
  <2>. QED
    BY <1>1, <2>5 DEF e
<1>7. new \in FileRec /\ new.path = Full(q)
  <2>1. ds[i].path = Full(D[i])
    BY <1>1 DEF DirIs
  <2>2. Full(q) = Full(D[i]) \o <<SEP>> \o nm
    BY <1>3, FullAppend DEF q
  <2>3. Full(q) \in Seq(Nat) /\ i \in Nat
    BY <1>1, <1>3, FullType, PathIs
  <2>. QED
    BY <1>3, <2>1, <2>2, <2>3 DEF FileRec
<1>8. pushed.dirs = es /\ pushed.files = gs
  BY DEF PushFile
<1>. HIDE DEF es, G, pushed
<1>9. /\ gs \in Seq(FileRec) /\ Len(gs) = n + 1
      /\ \A j \in 1..n : gs[j] = fls[j]
      /\ gs[n + 1] = new
  BY <1>1, <1>2, <1>7, AppendProperties
<1>. HIDE DEF gs
<1>10. \A p \in Path : Within(G, p) = Within(F, p) \union (IF D[i] = p THEN {n + 1} ELSE {})
  BY <1>2, <1>3, WithinAppend DEF G
<1>11. ASSUME NEW j \in 1..Len(D) PROVE DirIs(es[j], D, G, D[j])
  <2>1. /\ DirIs(ds[j], D, F, D[j]) /\ D[j] \in Path
        /\ es[j] = IF j = i THEN [ds[i] EXCEPT !.files = Append(@, n + 1)] ELSE ds[j]
    BY <1>1, <1>6
  <2>2. CASE j = i
    <3>1. Lists(ds[j].files, F, Front(q)) /\ Front(q) = D[j]
      BY <1>3, <2>1, <2>2 DEF DirIs
    <3>2. Lists(Append(ds[j].files, n + 1), G, D[j])
      BY <1>2, <1>3, <3>1, ListsAppend DEF G
    <3>3. /\ es[j].path = ds[j].path /\ es[j].name = ds[j].name /\ es[j].parent = ds[j].parent /\ es[j].children = ds[j].children
          /\ es[j].files = Append(ds[j].files, n + 1)
      BY <1>1, <2>1, <2>2 DEF DirRec
    <3>. QED
      BY <2>1, <3>2, <3>3 DEF DirIs
  <2>3. CASE j # i
    <3>1. D[i] # D[j]
      BY <1>1, <1>2, <2>3 DEF Once
    <3>2. Within(G, D[j]) = Within(F, D[j])
      BY <1>10, <2>1, <3>1
    <3>. QED
      BY <2>1, <2>3, <3>2 DEF DirIs, Lists
  <2>. QED
    BY <2>2, <2>3
<1>12. \A j \in DOMAIN D : DirIs(es[j], D, G, D[j])
  BY <1>1, <1>11
<1>13. \A j \in DOMAIN G : FileIs(gs[j], D, G[j])
  <2>1. \A j \in DOMAIN G : j \in 1..n \/ j = n + 1
    BY <1>1, <1>4
  <2>2. FileIs(new, D, q)
    BY <1>3, <1>7 DEF FileIs
  <2>. QED
    BY <1>1, <1>4, <1>9, <2>1, <2>2
<1>14. Filed(es, gs, D, G)
  BY <1>1, <1>2, <1>4, <1>5, <1>6, <1>9, <1>12, <1>13 DEF Filed
<1>15. gs[n + 1].data = data
  BY <1>9
<1>. QED
  BY <1>1, <1>4, <1>5, <1>8, <1>9, <1>14, <1>15 DEF G, q, pushed

LEMMA PrefixStep ==
  ASSUME NEW S, NEW p \in Seq(S)
  PROVE  /\ SubSeq(p, 1, 0) = <<>> /\ SubSeq(p, 1, Len(p)) = p
         /\ \A k \in 0..Len(p) : SubSeq(p, 1, k) \in Seq(S) /\ Len(SubSeq(p, 1, k)) = k
         /\ \A k \in 1..Len(p) : SubSeq(p, 1, k) = Append(SubSeq(p, 1, k - 1), p[k])
<1>. DEFINE n == Len(p)
<1>1. n \in Nat /\ \A i \in 1..n : p[i] \in S
  BY LenProperties, ElementOfSeq
<1>. HIDE DEF n
<1>2. ASSUME NEW k \in 0..n PROVE /\ SubSeq(p, 1, k) \in Seq(S) /\ Len(SubSeq(p, 1, k)) = k
                                  /\ \A i \in 1..k : SubSeq(p, 1, k)[i] = p[i]
  <2>1. \A i \in 1..k : p[i] \in S
    BY <1>1
  <2>2. /\ SubSeq(p, 1, k) \in Seq(S) /\ Len(SubSeq(p, 1, k)) = (IF 1 =< k THEN k - 1 + 1 ELSE 0)
        /\ \A i \in 1..(k - 1 + 1) : SubSeq(p, 1, k)[i] = p[1 + i - 1]
    BY <1>1, <2>1, SubSeqProperties
  <2>3. (IF 1 =< k THEN k - 1 + 1 ELSE 0) = k /\ k - 1 + 1 = k /\ \A i \in 1..k : 1 + i - 1 = i
    BY <1>1
  <2>. QED
    BY <2>2, <2>3
<1>3. ASSUME NEW k \in 1..n PROVE SubSeq(p, 1, k) = Append(SubSeq(p, 1, k - 1), p[k])
  <2>. DEFINE a == SubSeq(p, 1, k)
              b == SubSeq(p, 1, k - 1)
              c == Append(b, p[k])
  <2>1. k \in 0..n /\ k - 1 \in 0..n /\ p[k] \in S
    BY <1>1
  <2>2. /\ a \in Seq(S) /\ Len(a) = k /\ b \in Seq(S) /\ Len(b) = k - 1
        /\ (\A i \in 1..k : a[i] = p[i]) /\ (\A i \in 1..(k - 1) : b[i] = p[i])
    BY <1>2, <2>1
  <2>. HIDE DEF a, b
  <2>3. c \in Seq(S) /\ Len(c) = k /\ (\A i \in 1..(k - 1) : c[i] = b[i]) /\ c[k] = p[k]
    <3>1. c \in Seq(S) /\ Len(c) = (k - 1) + 1 /\ (\A i \in 1..(k - 1) : c[i] = b[i]) /\ c[(k - 1) + 1] = p[k]
      BY <2>1, <2>2, AppendProperties
    <3>. QED
      BY <3>1
  <2>. HIDE DEF c
  <2>4. \A i \in 1..k : a[i] = c[i]
    <3>1. \A i \in 1..k : i \in 1..(k - 1) \/ i = k
      OBVIOUS
    <3>. QED
      BY <2>2, <2>3, <3>1
  <2>5. a = c
    BY <2>2, <2>3, <2>4, SeqEqual
  <2>. QED
    BY <2>5 DEF a, b, c
<1>4. SubSeq(p, 1, 0) = <<>>
  BY SubSeqEmpty
<1>5. SubSeq(p, 1, Len(p)) = p
  BY SubSeqFull
<1>. QED
  BY <1>2, <1>3, <1>4, <1>5 DEF n

WalkRec == [dirs : Seq(DirRec), at : Nat]

\* A walk stands in a directory of the vectors.
Walking(w, fls, E, F) == w \in WalkRec /\ Filed(w.dirs, fls, E, F) /\ w.at \in DOMAIN E

\* A walk entered q.
Enters(w, fls, D, F, q) ==
  \E E : Walking(w, fls, E, F) /\ E[w.at] = q /\ ToSet(E) = ToSet(D) \union {q}

\* The child is found by its name, or made.
LEMMA EnterDirKeeps ==
  ASSUME NEW w, NEW fls, NEW D, NEW F, Walking(w, fls, D, F), NEW nm \in Name
  PROVE  Enters(EnterDir(w, nm), fls, D, F, Append(D[w.at], nm))
<1>. DEFINE n == Len(D)
            i == w.at
            q == Append(D[i], nm)
            children == w.dirs[i].children
            I == {k \in 1..Len(children) : w.dirs[children[k]].name = nm}
            hit == IF I # {} THEN Min(I) ELSE 0
            x == EnterDir(w, nm)
<1>1. /\ n \in Nat \ {0} /\ DOMAIN D = 1..n /\ DOMAIN w.dirs = 1..n /\ Len(w.dirs) = n /\ i \in 1..n
      /\ \A j \in 1..n : D[j] \in Path /\ DirIs(w.dirs[j], D, F, D[j])
  BY FiledIs DEF Walking
<1>2. /\ children \in Seq(Nat) /\ ToSet(children) = Within(D, D[i]) /\ Len(children) \in Nat /\ DOMAIN children = 1..Len(children)
      /\ Filed(w.dirs, fls, D, F) /\ w \in WalkRec
  BY <1>1, LenProperties DEF DirIs, Lists, Walking
<1>3. x = IF hit # 0 THEN [w EXCEPT !.at = children[hit]] ELSE [dirs |-> PushDir(w.dirs, i, nm), at |-> Len(w.dirs) + 1]
  BY DEF EnterDir, SelectInSeq
<1>4. q \in Path /\ q # <<>> /\ Front(q) = D[i] /\ Last(q) = nm
  BY <1>1, AppendIs, ZenonT(60) DEF Path
<1>5. I # {} => Min(I) \in I
  <2>1. I \in SUBSET Nat
    OBVIOUS
  <2>. HIDE DEF I
  <2>. QED
    BY <2>1, MinIs
<1>6. \A k \in 1..Len(children) : /\ children[k] \in 1..n /\ D[children[k]] # <<>> /\ Front(D[children[k]]) = D[i]
                                  /\ w.dirs[children[k]].name = Last(D[children[k]])
  <2>. SUFFICES ASSUME NEW k \in 1..Len(children)
                PROVE  /\ children[k] \in 1..n /\ D[children[k]] # <<>> /\ Front(D[children[k]]) = D[i]
                       /\ w.dirs[children[k]].name = Last(D[children[k]])
    OBVIOUS
  <2>1. children[k] \in Within(D, D[i])
    BY <1>2 DEF ToSet
  <2>2. children[k] \in 1..n /\ D[children[k]] # <<>> /\ Front(D[children[k]]) = D[i]
    BY <1>1, <2>1 DEF Within
  <2>3. DirIs(w.dirs[children[k]], D, F, D[children[k]])
    BY <1>1, <2>2
  <2>. QED
    BY <2>2, <2>3, ZenonT(60) DEF DirIs, BaseName
<1>. HIDE DEF x, q
<1>7. CASE I # {}
  <2>. DEFINE k == Min(I)
              j == children[k]
  <2>1. k \in 1..Len(children) /\ w.dirs[children[k]].name = nm /\ k # 0
    <3>1. k \in I
      BY <1>5, <1>7
    <3>. HIDE DEF k
    <3>2. k \in 1..Len(children) /\ w.dirs[children[k]].name = nm
      BY <3>1, SMTT(60)
    <3>. QED
      BY <3>2, SMTT(60)
  <2>. HIDE DEF k
  <2>2. j \in 1..n /\ D[j] # <<>> /\ Front(D[j]) = D[i] /\ Last(D[j]) = nm
    BY <1>6, <2>1, SMTT(60)
  <2>3. D[j] = q
    <3>1. D[j] = Append(Front(D[j]), Last(D[j]))
      BY <1>1, <2>2, PathIs, ZenonT(60)
    <3>. QED
      BY <2>2, <3>1, ZenonT(60) DEF q
  <2>4. x = [w EXCEPT !.at = j]
    BY <1>3, <1>7, <2>1 DEF k
  <2>5. x \in WalkRec /\ x.dirs = w.dirs /\ x.at = j
    <3>1. j \in Nat
      BY <2>2
    <3>. QED
      BY <1>2, <2>4, <3>1 DEF WalkRec
  <2>6. Walking(x, fls, D, F) /\ D[x.at] = q
    BY <1>1, <1>2, <2>2, <2>3, <2>5 DEF Walking
  <2>7. ToSet(D) = ToSet(D) \union {q}
    BY <1>1, <2>2, <2>3 DEF ToSet
  <2>. QED
    BY <2>6, <2>7 DEF x, q, Enters
<1>8. CASE I = {}
  <2>1. q \notin ToSet(D)
    <3>. SUFFICES ASSUME NEW j \in 1..n, D[j] = q PROVE FALSE
      BY <1>1 DEF ToSet
    <3>1. j \in Within(D, D[i])
      BY <1>1, <1>4 DEF Within
    <3>2. PICK k \in 1..Len(children) : children[k] = j
      BY <1>2, <3>1 DEF ToSet
    <3>3. w.dirs[children[k]].name = nm
      <4>1. w.dirs[children[k]].name = Last(D[children[k]])
        BY <1>6
      <4>2. D[children[k]] = q
        BY <3>2
      <4>. QED
        BY <1>4, <4>1, <4>2
    <3>4. k \in I
      BY <3>3
    <3>. QED
      BY <1>8, <3>4
  <2>. DEFINE ds == PushDir(w.dirs, i, nm)
              E == Append(D, q)
  <2>2. Filed(ds, fls, E, F) /\ ToSet(E) = ToSet(D) \union {q}
    <3>1. i \in DOMAIN D
      BY <1>1
    <3>2. Filed(w.dirs, fls, D, F) /\ Append(D[i], nm) \notin ToSet(D)
      BY <1>2, <2>1 DEF q
    <3>. DEFINE dd == w.dirs
    <3>. HIDE DEF i, dd, I, hit, n, children
    <3>3. /\ Filed(PushDir(dd, i, nm), fls, Append(D, Append(D[i], nm)), F)
          /\ ToSet(Append(D, Append(D[i], nm))) = ToSet(D) \union {Append(D[i], nm)}
      <4>1. Filed(dd, fls, D, F)
        BY <3>2, SMTT(60) DEF dd
      <4>. QED
        BY <3>1, <3>2, <4>1, PushDirKeeps
    <3>. QED
      BY <3>3 DEF q, dd
  <2>3. x = [dirs |-> ds, at |-> n + 1]
    BY <1>1, <1>3, <1>8
  <2>4. DOMAIN E = 1..(n + 1) /\ E[n + 1] = q
    <3>1. D \in Seq(Path)
      BY <1>2 DEF Filed
    <3>. QED
      BY <1>4, <3>1, AppendProperties, LenProperties
  <2>5. n + 1 \in DOMAIN E /\ n + 1 \in Nat
    BY <1>1, <2>4
  <2>6. ds \in Seq(DirRec)
    BY <2>2 DEF Filed
  <2>. HIDE DEF ds, E
  <2>7. Walking(x, fls, E, F) /\ E[x.at] = q
    BY <2>2, <2>3, <2>4, <2>5, <2>6 DEF Walking, WalkRec
  <2>. QED
    BY <2>2, <2>7 DEF x, q, Enters
<1>. QED
  BY <1>7, <1>8

\* The directories of a path are found or made, one in the other.
LEMMA EnterDirsKeep ==
  ASSUME NEW D, NEW F, Filed(dirs, files, D, F), NEW p \in Path
  PROVE  \E E : /\ Walking(EnterDirs(p), files, E, F)
                /\ E[EnterDirs(p).at] = p
                /\ ToSet(E) = ToSet(D) \union Prefixes(p)
<1>. DEFINE n == Len(p)
            Some(k) == {SubSeq(p, 1, l) : l \in 0..k}
            Good(w, k) == \E E : Walking(w, files, E, F) /\ E[w.at] = SubSeq(p, 1, k) /\ ToSet(E) = ToSet(D) \union Some(k)
            S == [k \in 0..n |-> {w \in WalkRec : Good(w, k)}]
            base == [dirs |-> dirs, at |-> 1]
            step == [x \in (1..n) \X WalkRec |-> EnterDir(x[2], p[x[1]])]
<1>1. n \in Nat /\ \A k \in 1..n : p[k] \in Name
  BY LenProperties, ElementOfSeq DEF Path
<1>2. /\ SubSeq(p, 1, 0) = <<>> /\ SubSeq(p, 1, n) = p
      /\ \A k \in 1..n : SubSeq(p, 1, k) = Append(SubSeq(p, 1, k - 1), p[k])
  BY PrefixStep DEF Path
<1>3. base \in S[0]
  <2>1. Len(D) \in Nat \ {0} /\ DOMAIN D = 1..Len(D) /\ dirs \in Seq(DirRec) /\ D[1] = <<>>
    BY FiledIs DEF Filed
  <2>2. 1 \in DOMAIN D
    BY <2>1
  <2>3. Walking(base, files, D, F)
    BY <2>1, <2>2 DEF Walking, WalkRec
  <2>4. Some(0) = {<<>>}
    <3>1. 0..0 = {0}
      OBVIOUS
    <3>. QED
      BY <1>2, <3>1
  <2>5. ToSet(D) = ToSet(D) \union Some(0)
    BY <2>1, <2>2, <2>4 DEF ToSet
  <2>6. Good(base, 0)
    BY <1>2, <2>1, <2>3, <2>5
  <2>7. 0 \in 0..n /\ base \in WalkRec
    BY <1>1, <2>3 DEF Walking
  <2>. HIDE DEF Good, base
  <2>. QED
    BY <2>6, <2>7
<1>4. ASSUME NEW k \in 1..n, NEW w \in S[k - 1]
      PROVE  step[<<k, w>>] = EnterDir(w, p[k]) /\ step[<<k, w>>] \in S[k]
  <2>1. k - 1 \in 0..n /\ k \in 0..n /\ w \in WalkRec /\ Good(w, k - 1)
    <3>1. k - 1 \in 0..n /\ k \in 0..n
      BY <1>1
    <3>. HIDE DEF Good
    <3>. QED
      BY <1>4, <3>1
  <2>2. PICK E : Walking(w, files, E, F) /\ E[w.at] = SubSeq(p, 1, k - 1) /\ ToSet(E) = ToSet(D) \union Some(k - 1)
    BY <2>1
  <2>3. SubSeq(p, 1, k) = Append(E[w.at], p[k]) /\ p[k] \in Name
    BY <1>1, <1>2, <2>2
  <2>4. PICK G : /\ Walking(EnterDir(w, p[k]), files, G, F)
                 /\ G[EnterDir(w, p[k]).at] = SubSeq(p, 1, k)
                 /\ ToSet(G) = ToSet(E) \union {SubSeq(p, 1, k)}
    <3>1. PICK G : /\ Walking(EnterDir(w, p[k]), files, G, F)
                   /\ G[EnterDir(w, p[k]).at] = Append(E[w.at], p[k])
                   /\ ToSet(G) = ToSet(E) \union {Append(E[w.at], p[k])}
      <4>1. Walking(w, files, E, F) /\ p[k] \in Name
        BY <1>1, <2>2
      <4>. DEFINE nm == p[k]
      <4>. HIDE DEF nm, S, step, base, Good, n
      <4>2. Enters(EnterDir(w, nm), files, E, F, Append(E[w.at], nm))
        <5>1. nm \in Name
          BY <4>1 DEF nm
        <5>. QED
          BY <4>1, <5>1, EnterDirKeeps
      <4>. QED
        BY <4>2 DEF nm, Enters
    <3>. QED
      BY <2>3, <3>1
  <2>5. Some(k) = Some(k - 1) \union {SubSeq(p, 1, k)}
    <3>1. 0..k = (0..(k - 1)) \union {k}
      BY <1>1
    <3>. QED
      BY <3>1
  <2>6. Good(EnterDir(w, p[k]), k)
    <3>. HIDE DEF Some
    <3>1. ToSet(G) = ToSet(D) \union Some(k)
      BY <2>2, <2>4, <2>5
    <3>. QED
      BY <2>4, <3>1
  <2>7. EnterDir(w, p[k]) \in WalkRec
    BY <2>4 DEF Walking
  <2>8. step[<<k, w>>] = EnterDir(w, p[k])
    BY <2>1
  <2>. HIDE DEF Good, step
  <2>. QED
    BY <2>1, <2>6, <2>7, <2>8
<1>. DEFINE walk == CHOOSE walk : walk = [k \in 0..n |-> IF k = 0 THEN base ELSE EnterDir(walk[k - 1], p[k])]
<1>5. EnterDirs(p) = walk[n]
  BY DEF EnterDirs
<1>. HIDE DEF step, base, Good
<1>6. PICK f : /\ f = [k \in 0..n |-> IF k = 0 THEN base ELSE step[<<k, f[k - 1]>>]]
               /\ \A k \in 0..n : f[k] \in S[k]
  <2>1. \A k \in 1..n : \A w \in S[k - 1] : step[<<k, w>>] \in S[k]
    BY <1>4
  <2>2. n \in Nat
    BY <1>1
  <2>3. base \in S[0]
    BY <1>3
  <2>. HIDE DEF S, n, walk
  <2>4. Solvable(n, S, base, step)
    BY <2>1, <2>2, <2>3, RecursionSolvable
  <2>. QED
    BY <2>4 DEF Solvable
<1>. HIDE DEF S
<1>7. f = [k \in 0..n |-> IF k = 0 THEN base ELSE EnterDir(f[k - 1], p[k])]
  <2>1. \A k \in 0..n : (IF k = 0 THEN base ELSE step[<<k, f[k - 1]>>]) = IF k = 0 THEN base ELSE EnterDir(f[k - 1], p[k])
    <3>1. \A k \in 0..n : k # 0 => k \in 1..n /\ k - 1 \in 0..n
      BY <1>1
    <3>. QED
      BY <1>4, <1>6, <3>1
  <2>. QED
    BY <1>6, <2>1
<1>8. walk = [k \in 0..n |-> IF k = 0 THEN base ELSE EnterDir(walk[k - 1], p[k])]
  BY <1>7
<1>. HIDE DEF walk
<1>9. walk[n] \in S[n]
  <2>. DEFINE G == {k \in 0..n : walk[k] = f[k]}
  <2>1. 0 \in G
    BY <1>1, <1>7, <1>8
  <2>2. ASSUME NEW k \in 1..n, k - 1 \in G PROVE k \in G
    <3>1. k \in 0..n /\ k # 0
      BY <1>1
    <3>2. walk[k] = EnterDir(walk[k - 1], p[k])
      BY <1>8, <3>1
    <3>3. f[k] = EnterDir(f[k - 1], p[k])
      BY <1>7, <3>1
    <3>4. walk[k - 1] = f[k - 1]
      BY <2>2
    <3>. QED
      BY <3>1, <3>2, <3>3, <3>4
  <2>3. \A k \in 0..n : k \in G
    <3>1. \A k \in 1..n : k - 1 \in G => k \in G
      BY <2>2
    <3>. HIDE DEF G
    <3>. QED
      BY <1>1, <2>1, <3>1, UpTo
  <2>4. n \in 0..n
    BY <1>1
  <2>. QED
    BY <1>6, <2>3, <2>4
<1>10. Good(walk[n], n)
  <2>1. n \in 0..n
    BY <1>1
  <2>. QED
    BY <1>9, <2>1 DEF S
<1>11. Some(n) = Prefixes(p)
  BY DEF Prefixes
<1>. QED
  BY <1>2, <1>5, <1>10, <1>11 DEF Good

LEMMA ComponentsIs ==
  ASSUME NEW path, path.parts \in Seq(Text)
  PROVE  Components(path) \in Path
<1>. DEFINE parts == path.parts
            n == Len(parts)
            ss == [k \in DOMAIN parts |-> IF parts[k] = <<>> THEN <<>> ELSE <<parts[k]>>]
<1>1. n \in Nat /\ DOMAIN parts = 1..n /\ \A k \in 1..n : parts[k] \in Text
  BY LenProperties, ElementOfSeq
<1>2. ss \in [1..n -> Seq(Name)]
  <2>. HIDE DEF parts, n
  <2>1. ASSUME NEW k \in 1..n PROVE (IF parts[k] = <<>> THEN <<>> ELSE <<parts[k]>>) \in Seq(Name)
    <3>1. CASE parts[k] = <<>>
      BY <3>1, EmptySeq
    <3>2. CASE parts[k] # <<>>
      <4>1. parts[k] \in Name
        BY <1>1, <3>2 DEF Name
      <4>. QED
        BY <3>2, <4>1
    <3>. QED
      BY <3>1, <3>2
  <2>. QED
    BY <1>1, <2>1
<1>3. PICK fl \in [0..n -> Seq(Name)] : Flattens(fl, ss) /\ FlattenSeq(ss) = fl[n] /\ Len(ss) = n
  <2>. HIDE DEF ss, n
  <2>. QED
    BY <1>1, <1>2, FlattenIs
<1>4. Components(path) = fl[n]
  BY <1>3 DEF Components
<1>. HIDE DEF n
<1>. QED
  BY <1>1, <1>3, <1>4 DEF Path

\* What the files of a builder hold.
Stored(F, fls) == {[at |-> F[i], data |-> fls[i].data] : i \in DOMAIN F}

\* The vectors hold the tree that was stored.
Holding(ds, fls, tr, D, F) ==
  /\ Filed(ds, fls, D, F)
  /\ tr = [dirs |-> ToSet(D), files |-> Stored(F, fls)]

LEMMA PushFileStores ==
  ASSUME NEW ds, NEW fls, NEW D, NEW F, Filed(ds, fls, D, F), NEW i \in DOMAIN D, NEW nm \in Name, NEW data \in Bytes,
         Append(D[i], nm) \notin ToSet(F)
  PROVE  Holding(PushFile(ds, fls, i, nm, data).dirs, PushFile(ds, fls, i, nm, data).files,
                 [dirs |-> ToSet(D), files |-> Stored(F, fls) \union {[at |-> Append(D[i], nm), data |-> data]}],
                 D, Append(F, Append(D[i], nm)))
<1>. DEFINE n == Len(F)
            q == Append(D[i], nm)
            G == Append(F, q)
            pushed == PushFile(ds, fls, i, nm, data)
            gls == pushed.files
<1>1. /\ Filed(pushed.dirs, gls, D, G)
      /\ (\A j \in DOMAIN F : gls[j] = fls[j] /\ G[j] = F[j])
      /\ gls[n + 1].data = data /\ G[n + 1] = q
  BY PushFileKeeps
<1>2. n \in Nat /\ DOMAIN F = 1..n /\ F \in Seq(Path)
  BY FiledIs DEF Filed
<1>3. q \in Path
  BY FiledIs, AppendIs DEF Path
<1>4. DOMAIN G = 1..(n + 1)
  BY <1>2, <1>3, AppendProperties, LenProperties
<1>. HIDE DEF n, G, gls
<1>5. DOMAIN G = DOMAIN F \union {n + 1}
  BY <1>2, <1>4
<1>6. Stored(G, gls) = Stored(F, fls) \union {[at |-> q, data |-> data]}
  <2>1. Stored(G, gls) = {[at |-> G[j], data |-> gls[j].data] : j \in DOMAIN F} \union {[at |-> G[n + 1], data |-> gls[n + 1].data]}
    BY <1>5 DEF Stored
  <2>2. {[at |-> G[j], data |-> gls[j].data] : j \in DOMAIN F} = Stored(F, fls)
    BY <1>1 DEF Stored
  <2>. QED
    BY <1>1, <2>1, <2>2
<1>. QED
  BY <1>1, <1>6 DEF Holding, G, gls

\* A file name that no file of the directory bears.
LEMMA NoDuplicate ==
  ASSUME NEW ds, NEW fls, NEW D, NEW F, Filed(ds, fls, D, F), NEW i \in DOMAIN D, NEW nm \in Name,
         ~\E j \in ToSet(ds[i].files) : fls[j].name = nm
  PROVE  Append(D[i], nm) \notin ToSet(F)
<1>. DEFINE q == Append(D[i], nm)
<1>1. DOMAIN F = 1..Len(F) /\ i \in 1..Len(D)
  BY FiledIs
<1>. SUFFICES ASSUME NEW j \in 1..Len(F), F[j] = q PROVE FALSE
  BY <1>1 DEF ToSet
<1>2. D[i] \in Path
  BY <1>1, FiledIs
<1>3. Front(q) = D[i] /\ Last(q) = nm
  BY <1>2, AppendIs DEF Path
<1>4. F[j] # <<>> /\ fls[j].name = Last(F[j])
  <2>1. FileIs(fls[j], D, F[j])
    BY FiledIs
  <2>. QED
    BY <2>1 DEF FileIs
<1>. HIDE DEF q
<1>5. j \in Within(F, D[i])
  BY <1>1, <1>3, <1>4 DEF Within
<1>6. ToSet(ds[i].files) = Within(F, D[i])
  <2>1. DirIs(ds[i], D, F, D[i])
    BY <1>1, FiledIs
  <2>. QED
    BY <2>1 DEF DirIs, Lists
<1>. QED
  BY <1>3, <1>4, <1>5, <1>6

LEMMA AddFileStores ==
  ASSUME NEW D, NEW F, Holding(dirs, files, tree, D, F), NEW path \in Paths, NEW data \in Contents,
         AddFile(path, data)
  PROVE  \/ phase' \in BuilderErrors /\ UNCHANGED <<dirs, files, fs, stack, listing, image, tree>>
         \/ /\ phase' = "add" /\ \E E, G : Holding(dirs', files', tree', E, G)
            /\ UNCHANGED <<fs, stack, listing, image>>
<1>. DEFINE c == Components(path)
            w == EnterDirs(Front(c))
            name == Last(c)
            pushed == PushFile(w.dirs, files, w.at, name, data)
<1>1. phase = "add"
  BY DEF AddFile
<1>2. CASE ~path.absolute \/ c = <<>>
  BY <1>2 DEF AddFile, BFail, BuilderErrors
<1>3. CASE ~(~path.absolute \/ c = <<>>) /\ \E i \in ToSet(w.dirs[w.at].files) : files[i].name = name
  BY <1>3 DEF AddFile, BFail, BuilderErrors
<1>4. CASE ~(~path.absolute \/ c = <<>>) /\ ~\E i \in ToSet(w.dirs[w.at].files) : files[i].name = name
  <2>1. /\ dirs' = pushed.dirs /\ files' = pushed.files
        /\ tree' = [dirs  |-> tree.dirs \union Prefixes(Front(c)),
                    files |-> tree.files \union {[at |-> c, data |-> data]}]
        /\ phase' = "add" /\ UNCHANGED <<fs, stack, listing, image>>
    BY <1>1, <1>4 DEF AddFile
  <2>2. c \in Path /\ c # <<>> /\ data \in Bytes
    BY <1>4, ComponentsIs, PathsSupplied, ContentsSupplied
  <2>. HIDE DEF c
  <2>3. Front(c) \in Path /\ name \in Name /\ c = Append(Front(c), name)
    BY <2>2, PathIs
  <2>4. Filed(dirs, files, D, F) /\ tree.dirs = ToSet(D) /\ tree.files = Stored(F, files)
    BY DEF Holding
  <2>5. PICK E : Walking(w, files, E, F) /\ E[w.at] = Front(c) /\ ToSet(E) = ToSet(D) \union Prefixes(Front(c))
    BY <2>3, <2>4, EnterDirsKeep
  <2>. HIDE DEF w, name
  <2>6. Filed(w.dirs, files, E, F) /\ w.at \in DOMAIN E
    BY <2>5 DEF Walking
  <2>7. Append(E[w.at], name) \notin ToSet(F)
    BY <1>4, <2>3, <2>6, NoDuplicate
  <2>8. Holding(pushed.dirs, pushed.files,
                [dirs |-> ToSet(E), files |-> Stored(F, files) \union {[at |-> Append(E[w.at], name), data |-> data]}],
                E, Append(F, Append(E[w.at], name)))
    BY <2>2, <2>3, <2>6, <2>7, PushFileStores
  <2>. HIDE DEF pushed
  <2>9. tree' = [dirs |-> ToSet(E), files |-> Stored(F, files) \union {[at |-> Append(E[w.at], name), data |-> data]}]
    BY <2>1, <2>3, <2>4, <2>5
  <2>10. Holding(dirs', files', tree', E, Append(F, Append(E[w.at], name)))
    BY <2>1, <2>8, <2>9
  <2>. QED
    BY <2>1, <2>10
<1>. QED
  BY <1>2, <1>3, <1>4

(***************************************************************************)
(* The walk of from_directory                                              *)
(***************************************************************************)
Frame == [dir : Nat, at : Path]

\* The vectors hold the directory under its path.
Standing(s, D) == s.dir \in DOMAIN D /\ D[s.dir] = s.at

\* Nothing of the directory is stored yet.
Untouched(at, D, F) == \A q \in ToSet(D) \union ToSet(F) : q # <<>> => Front(q) # at

\* Directories still to be read were not looked into, and nothing that was listed
\* and not yet taken is stored.
Walked(st, li, D, F) ==
  /\ fs \in FsTrees
  /\ st \in Seq(Frame)
  /\ \A k \in DOMAIN st : Standing(st[k], D) /\ st[k].at \in DOMAIN fs /\ Untouched(st[k].at, D, F)
  /\ \A j, k \in DOMAIN st : st[j].at = st[k].at => j = k
  /\ \A m \in li :
       /\ m = [dir |-> m.dir, at |-> m.at, entry |-> m.entry]
       /\ Standing(m, D) /\ m.at \in DOMAIN fs /\ m.entry \in fs[m.at]
       /\ \A k \in DOMAIN st : st[k].at # m.at
       /\ m.entry.utf8 => Append(m.at, m.entry.name) \notin ToSet(D) \union ToSet(F)
  /\ \A l, m \in li : l.dir = m.dir /\ l.at = m.at

LEMMA PopDirKeeps ==
  ASSUME NEW D, NEW F, Holding(dirs, files, tree, D, F), Walked(stack, listing, D, F), PopDir
  PROVE  Walked(stack', listing', D, F)
<1>. DEFINE n == Len(stack)
            s == Last(stack)
            st == Front(stack)
            li == {[dir |-> s.dir, at |-> s.at, entry |-> e] : e \in fs[s.at]}
<1>1. stack # <<>> /\ stack \in Seq(Frame) /\ stack' = st /\ listing' = li
  BY DEF PopDir, Walked
<1>2. n \in Nat \ {0} /\ DOMAIN stack = 1..n /\ s = stack[n]
  BY <1>1, LenProperties, EmptySeq DEF Last
<1>3. st \in Seq(Frame) /\ DOMAIN st = 1..(n - 1) /\ \A i \in 1..(n - 1) : st[i] = stack[i]
  <2>1. st \in Seq(Frame) /\ Len(st) = n - 1 /\ \A i \in 1..(n - 1) : st[i] = stack[i]
    BY <1>1, FrontLast
  <2>. QED
    BY <2>1, LenProperties
<1>. HIDE DEF n, s, st
<1>4. n \in DOMAIN stack /\ DOMAIN st \subseteq DOMAIN stack /\ n \notin DOMAIN st
  BY <1>2, <1>3
<1>5. Standing(s, D) /\ s.at \in DOMAIN fs /\ Untouched(s.at, D, F) /\ fs \in FsTrees
  BY <1>2, <1>4 DEF Walked
<1>6. s.at \in Path
  <2>1. D \in Seq(Path) /\ s.dir \in DOMAIN D
    BY <1>5 DEF Holding, Filed, Standing
  <2>. QED
    BY <1>5, <2>1, ElementOfSeq, LenProperties DEF Standing
<1>7. \A k \in DOMAIN st : st[k] = stack[k]
  BY <1>3
<1>8. \A k \in DOMAIN st : Standing(st[k], D) /\ st[k].at \in DOMAIN fs /\ Untouched(st[k].at, D, F)
  BY <1>4, <1>7 DEF Walked
<1>9. \A j, k \in DOMAIN st : st[j].at = st[k].at => j = k
  BY <1>4, <1>7 DEF Walked
<1>10. \A k \in DOMAIN st : st[k].at # s.at
  <2>1. \A k \in DOMAIN st : k # n
    BY <1>4
  <2>. QED
    BY <1>2, <1>4, <1>7, <2>1 DEF Walked
<1>11. ASSUME NEW e \in fs[s.at], e.utf8 PROVE Append(s.at, e.name) \notin ToSet(D) \union ToSet(F)
  <2>1. e.name \in Name
    BY <1>5, <1>11, FsTreesSupplied
  <2>2. Append(s.at, e.name) # <<>> /\ Front(Append(s.at, e.name)) = s.at
    BY <1>6, <2>1, AppendIs DEF Path
  <2>. QED
    BY <1>5, <2>2 DEF Untouched
<1>12. ASSUME NEW m \in li
       PROVE  /\ m = [dir |-> m.dir, at |-> m.at, entry |-> m.entry]
              /\ Standing(m, D) /\ m.at \in DOMAIN fs /\ m.entry \in fs[m.at]
              /\ \A k \in DOMAIN st : st[k].at # m.at
              /\ m.entry.utf8 => Append(m.at, m.entry.name) \notin ToSet(D) \union ToSet(F)
              /\ m.dir = s.dir /\ m.at = s.at
  <2>1. PICK e \in fs[s.at] : m = [dir |-> s.dir, at |-> s.at, entry |-> e]
    OBVIOUS
  <2>. HIDE DEF li
  <2>2. m.dir = s.dir /\ m.at = s.at /\ m.entry = e
    BY <2>1
  <2>3. Standing(m, D)
    BY <1>5, <2>2 DEF Standing
  <2>4. m.entry.utf8 => Append(m.at, m.entry.name) \notin ToSet(D) \union ToSet(F)
    BY <1>11, <2>2
  <2>. QED
    BY <1>5, <1>10, <2>1, <2>2, <2>3, <2>4
<1>. HIDE DEF li
<1>13. Walked(st, li, D, F)
  BY <1>3, <1>5, <1>8, <1>9, <1>12 DEF Walked
<1>. QED
  BY <1>1, <1>13

\* What the entry about to be taken is.
LEMMA ItemIs ==
  ASSUME NEW D, NEW F, Holding(dirs, files, tree, D, F), Walked(stack, listing, D, F), NEW m \in listing, m.entry.utf8
  PROVE  /\ m.dir \in DOMAIN D /\ D[m.dir] = m.at /\ m.at \in Path /\ m.at \in ToSet(D)
         /\ m.entry.name \in Name /\ m.entry.data \in Bytes
         /\ Append(m.at, m.entry.name) \in Path /\ Append(m.at, m.entry.name) # <<>>
         /\ Front(Append(m.at, m.entry.name)) = m.at
         /\ Append(m.at, m.entry.name) \notin ToSet(D) \union ToSet(F)
         /\ \A l \in listing \ {m} : l.entry.utf8 => Append(l.at, l.entry.name) # Append(m.at, m.entry.name)
<1>1. m.dir \in DOMAIN D /\ D[m.dir] = m.at /\ m.at \in DOMAIN fs /\ m.entry \in fs[m.at] /\ fs \in FsTrees
  BY DEF Walked, Standing
<1>2. m.at \in Path /\ m.at \in ToSet(D)
  <2>1. D \in Seq(Path)
    BY DEF Holding, Filed
  <2>. QED
    BY <1>1, <2>1, ElementOfSeq, LenProperties DEF ToSet
<1>3. m.entry.name \in Name /\ m.entry.data \in Bytes
  BY <1>1, FsTreesSupplied
<1>4. Append(m.at, m.entry.name) \in Path /\ Append(m.at, m.entry.name) # <<>> /\ Front(Append(m.at, m.entry.name)) = m.at
  BY <1>2, <1>3, AppendIs DEF Path
<1>5. Append(m.at, m.entry.name) \notin ToSet(D) \union ToSet(F)
  BY DEF Walked
<1>6. ASSUME NEW l \in listing \ {m}, l.entry.utf8, Append(l.at, l.entry.name) = Append(m.at, m.entry.name) PROVE FALSE
  <2>1. l.dir = m.dir /\ l.at = m.at /\ l.entry \in fs[l.at]
    BY DEF Walked
  <2>2. l = [dir |-> l.dir, at |-> l.at, entry |-> l.entry] /\ m = [dir |-> m.dir, at |-> m.at, entry |-> m.entry]
    BY DEF Walked
  <2>3. l.entry.name \in Name
    BY <1>1, <1>6, <2>1, FsTreesSupplied
  <2>4. Last(Append(m.at, l.entry.name)) = l.entry.name /\ Last(Append(m.at, m.entry.name)) = m.entry.name
    BY <1>2, <1>3, <2>3, AppendIs DEF Path
  <2>5. l.entry.name = m.entry.name
    BY <1>6, <2>1, <2>4
  <2>6. l.entry = m.entry
    BY <1>1, <2>1, <2>5, FsTreesSupplied
  <2>. QED
    BY <2>1, <2>2, <2>6
<1>. QED
  BY <1>1, <1>2, <1>3, <1>4, <1>5, <1>6

LEMMA TakeDirKeeps ==
  ASSUME NEW D, NEW F, Holding(dirs, files, tree, D, F), Walked(stack, listing, D, F),
         NEW m \in listing, m.entry.utf8, TakeDir(m), listing' = listing \ {m}
  PROVE  \E E : Holding(dirs', files', tree', E, F) /\ Walked(stack', listing', E, F)
<1>. DEFINE n == Len(D)
            q == Append(m.at, m.entry.name)
            E == Append(D, q)
            fr == [dir |-> n + 1, at |-> q]
            st == Append(stack, fr)
            sn == Len(stack)
<1>1. /\ m.dir \in DOMAIN D /\ D[m.dir] = m.at /\ m.at \in ToSet(D) /\ m.entry.name \in Name
      /\ q \in Path /\ q # <<>> /\ Front(q) = m.at /\ q \notin ToSet(D) \union ToSet(F)
      /\ \A l \in listing \ {m} : l.entry.utf8 => Append(l.at, l.entry.name) # q
  BY ItemIs
<1>2. Filed(dirs, files, D, F) /\ tree = [dirs |-> ToSet(D), files |-> Stored(F, files)]
  BY DEF Holding
<1>3. n \in Nat /\ DOMAIN D = 1..n /\ D \in Seq(Path) /\ Len(dirs) = n
  BY <1>2, FiledIs DEF Filed
<1>4. /\ dirs' = PushDir(dirs, m.dir, m.entry.name) /\ files' = files /\ stack' = st
      /\ tree' = [dirs |-> ToSet(D) \union {q}, files |-> Stored(F, files)]
  <2>1. tree' = [tree EXCEPT !.dirs = @ \union {q}]
    BY DEF TakeDir
  <2>2. tree' = [dirs |-> ToSet(D) \union {q}, files |-> Stored(F, files)]
    BY <1>2, <2>1
  <2>. QED
    BY <1>3, <2>2 DEF TakeDir
<1>. HIDE DEF n
<1>5. Filed(dirs', files', E, F) /\ ToSet(E) = ToSet(D) \union {q}
  <2>1. /\ Filed(PushDir(dirs, m.dir, m.entry.name), files, Append(D, Append(D[m.dir], m.entry.name)), F)
        /\ ToSet(Append(D, Append(D[m.dir], m.entry.name))) = ToSet(D) \union {Append(D[m.dir], m.entry.name)}
    BY <1>1, <1>2, PushDirKeeps
  <2>. QED
    BY <1>1, <1>4, <2>1
<1>6. Holding(dirs', files', tree', E, F)
  BY <1>4, <1>5 DEF Holding
<1>7. DOMAIN E = 1..(n + 1) /\ (\A i \in 1..n : E[i] = D[i]) /\ E[n + 1] = q
  BY <1>1, <1>3, AppendProperties, LenProperties DEF n
<1>. HIDE DEF E, q
<1>8. \A s : Standing(s, D) => Standing(s, E)
  BY <1>3, <1>7 DEF Standing
<1>9. fr \in Frame
  BY <1>1, <1>3 DEF Frame
<1>10. sn \in Nat /\ DOMAIN stack = 1..sn /\ stack \in Seq(Frame)
  BY LenProperties DEF Walked
<1>11. st \in Seq(Frame) /\ DOMAIN st = 1..(sn + 1) /\ (\A i \in 1..sn : st[i] = stack[i]) /\ st[sn + 1] = fr
  <2>. HIDE DEF fr
  <2>. QED
    BY <1>9, <1>10, AppendProperties, LenProperties
<1>12. fr.dir = n + 1 /\ fr.at = q
  OBVIOUS
<1>. HIDE DEF st, fr, sn
<1>13. \A k \in DOMAIN st : k \in DOMAIN stack \/ k = sn + 1
  BY <1>10, <1>11
<1>14. fs \in FsTrees /\ m.at \in DOMAIN fs /\ m.entry \in fs[m.at] /\ m.entry.kind = "dir"
  BY DEF Walked, TakeDir
<1>15. Standing(fr, E) /\ fr.at \in DOMAIN fs
  <2>1. q \in DOMAIN fs
    BY <1>14, FsTreesSupplied DEF q
  <2>2. n + 1 \in DOMAIN E
    BY <1>3, <1>7
  <2>. QED
    BY <1>7, <1>12, <2>1, <2>2 DEF Standing
<1>16. Untouched(q, E, F)
  <2>1. ASSUME NEW p \in ToSet(E) \union ToSet(F), p # <<>>, Front(p) = q PROVE FALSE
    <3>1. CASE p = q
      BY <1>1, <2>1, <3>1
    <3>2. CASE p \in ToSet(D)
      <4>1. PICK i \in DOMAIN D : p = D[i]
        BY <3>2 DEF ToSet
      <4>2. Front(p) \in ToSet(D)
        BY <1>2, <2>1, <4>1, FiledIs
      <4>. QED
        BY <1>1, <2>1, <4>2
    <3>3. CASE p \in ToSet(F)
      <4>1. PICK i \in DOMAIN F : p = F[i]
        BY <3>3 DEF ToSet
      <4>2. Front(p) \in ToSet(D)
        BY <1>2, <4>1, FiledIs
      <4>. QED
        BY <1>1, <2>1, <4>2
    <3>. QED
      BY <1>5, <2>1, <3>1, <3>2, <3>3
  <2>. QED
    BY <2>1 DEF Untouched
<1>17. \A k \in DOMAIN stack : stack[k].at # m.at /\ stack[k].at \in ToSet(D)
  BY DEF Walked, Standing, ToSet
<1>18. \A k \in DOMAIN stack : Untouched(stack[k].at, E, F)
  <2>. SUFFICES ASSUME NEW k \in DOMAIN stack, NEW p \in ToSet(E) \union ToSet(F), p # <<>> PROVE Front(p) # stack[k].at
    BY DEF Untouched
  <2>1. CASE p = q
    BY <1>1, <1>17, <2>1
  <2>2. CASE p \in ToSet(D) \union ToSet(F)
    BY <2>2 DEF Walked, Untouched
  <2>. QED
    BY <1>5, <2>1, <2>2
<1>19. ASSUME NEW k \in DOMAIN st PROVE Standing(st[k], E) /\ st[k].at \in DOMAIN fs /\ Untouched(st[k].at, E, F)
  <2>1. CASE k \in DOMAIN stack
    <3>1. st[k] = stack[k] /\ Standing(stack[k], D) /\ stack[k].at \in DOMAIN fs
      BY <1>10, <1>11, <2>1 DEF Walked
    <3>. QED
      BY <1>8, <1>18, <2>1, <3>1
  <2>2. CASE k = sn + 1
    BY <1>11, <1>12, <1>15, <1>16, <2>2
  <2>. QED
    BY <1>13, <2>1, <2>2
<1>20. ASSUME NEW j \in DOMAIN st, NEW k \in DOMAIN st, st[j].at = st[k].at PROVE j = k
  <2>1. \A i \in DOMAIN stack : st[i] = stack[i] /\ st[i].at # q
    BY <1>1, <1>10, <1>11, <1>17
  <2>2. st[sn + 1].at = q
    BY <1>11, <1>12
  <2>3. CASE j \in DOMAIN stack /\ k \in DOMAIN stack
    BY <1>20, <2>1, <2>3 DEF Walked
  <2>. QED
    BY <1>13, <1>20, <2>1, <2>2, <2>3
<1>21. ASSUME NEW l \in listing \ {m}
       PROVE  /\ l = [dir |-> l.dir, at |-> l.at, entry |-> l.entry]
              /\ Standing(l, E) /\ l.at \in DOMAIN fs /\ l.entry \in fs[l.at]
              /\ \A k \in DOMAIN st : st[k].at # l.at
              /\ l.entry.utf8 => Append(l.at, l.entry.name) \notin ToSet(E) \union ToSet(F)
  <2>1. /\ l = [dir |-> l.dir, at |-> l.at, entry |-> l.entry]
        /\ Standing(l, D) /\ l.at \in DOMAIN fs /\ l.entry \in fs[l.at]
        /\ \A k \in DOMAIN stack : stack[k].at # l.at
        /\ l.entry.utf8 => Append(l.at, l.entry.name) \notin ToSet(D) \union ToSet(F)
    BY DEF Walked
  <2>2. l.at \in ToSet(D)
    BY <2>1 DEF Standing, ToSet
  <2>3. \A k \in DOMAIN st : st[k].at # l.at
    BY <1>1, <1>10, <1>11, <1>12, <1>13, <2>1, <2>2
  <2>4. l.entry.utf8 => Append(l.at, l.entry.name) \notin ToSet(E) \union ToSet(F)
    BY <1>1, <1>5, <2>1
  <2>. QED
    BY <1>8, <2>1, <2>3, <2>4
<1>22. \A j, l \in listing \ {m} : j.dir = l.dir /\ j.at = l.at
  BY DEF Walked
<1>23. Walked(st, listing \ {m}, E, F)
  BY <1>11, <1>14, <1>19, <1>20, <1>21, <1>22 DEF Walked
<1>. QED
  BY <1>4, <1>6, <1>23

LEMMA TakeFileKeeps ==
  ASSUME NEW D, NEW F, Holding(dirs, files, tree, D, F), Walked(stack, listing, D, F),
         NEW m \in listing, m.entry.utf8, TakeFile(m), listing' = listing \ {m}
  PROVE  \E G : Holding(dirs', files', tree', D, G) /\ Walked(stack', listing', D, G)
<1>. DEFINE q == Append(m.at, m.entry.name)
            G == Append(F, q)
            pushed == PushFile(dirs, files, m.dir, m.entry.name, m.entry.data)
<1>1. /\ m.dir \in DOMAIN D /\ D[m.dir] = m.at /\ m.at \in ToSet(D) /\ m.entry.name \in Name /\ m.entry.data \in Bytes
      /\ q \in Path /\ q # <<>> /\ Front(q) = m.at /\ q \notin ToSet(D) \union ToSet(F)
      /\ \A l \in listing \ {m} : l.entry.utf8 => Append(l.at, l.entry.name) # q
  BY ItemIs
<1>2. Filed(dirs, files, D, F) /\ tree = [dirs |-> ToSet(D), files |-> Stored(F, files)]
  BY DEF Holding
<1>3. /\ dirs' = pushed.dirs /\ files' = pushed.files /\ stack' = stack
      /\ tree' = [dirs |-> ToSet(D), files |-> Stored(F, files) \union {[at |-> q, data |-> m.entry.data]}]
  <2>1. tree' = [tree EXCEPT !.files = @ \union {[at |-> q, data |-> m.entry.data]}]
    BY DEF TakeFile
  <2>2. tree' = [dirs |-> ToSet(D), files |-> Stored(F, files) \union {[at |-> q, data |-> m.entry.data]}]
    BY <1>2, <2>1
  <2>. QED
    BY <2>2 DEF TakeFile
<1>4. Holding(pushed.dirs, pushed.files,
              [dirs |-> ToSet(D), files |-> Stored(F, files) \union {[at |-> Append(D[m.dir], m.entry.name), data |-> m.entry.data]}],
              D, Append(F, Append(D[m.dir], m.entry.name)))
  BY <1>1, <1>2, PushFileStores
<1>5. Holding(dirs', files', tree', D, G)
  <2>. HIDE DEF pushed
  <2>. QED
    BY <1>1, <1>3, <1>4
<1>6. ToSet(G) = ToSet(F) \union {q}
  <2>1. F \in Seq(Path) /\ Once(F)
    BY <1>2 DEF Filed
  <2>2. q \in Path /\ q \notin ToSet(F)
    BY <1>1
  <2>. HIDE DEF q
  <2>. QED
    BY <2>1, <2>2, OnceAppend
<1>. HIDE DEF G, q
<1>7. \A k \in DOMAIN stack : stack[k].at # m.at
  BY DEF Walked
<1>8. \A k \in DOMAIN stack : Untouched(stack[k].at, D, G)
  <2>. SUFFICES ASSUME NEW k \in DOMAIN stack, NEW p \in ToSet(D) \union ToSet(G), p # <<>> PROVE Front(p) # stack[k].at
    BY DEF Untouched
  <2>1. CASE p = q
    BY <1>1, <1>7, <2>1
  <2>2. CASE p \in ToSet(D) \union ToSet(F)
    BY <2>2 DEF Walked, Untouched
  <2>. QED
    BY <1>6, <2>1, <2>2
<1>9. \A l \in listing \ {m} : l.entry.utf8 => Append(l.at, l.entry.name) \notin ToSet(D) \union ToSet(G)
  BY <1>1, <1>6 DEF Walked
<1>10. Walked(stack, listing \ {m}, D, G)
  BY <1>8, <1>9 DEF Walked
<1>. QED
  BY <1>3, <1>5, <1>10

(***************************************************************************)
(* The sorts of build                                                      *)
(***************************************************************************)
Rising(P) == \A j, k \in DOMAIN P : j < k => PathLess(P[j], P[k])
Ascends(s) == \A j, k \in DOMAIN s : j < k => s[j] < s[k]

\* The paths in their order, and where each went.
Keyed(n, P, entries) ==
  /\ n \in Nat /\ P \in Seq(Path) /\ Len(P) = n /\ Once(P) /\ DOMAIN entries = 1..n
  /\ \A i \in 1..n : entries[i].path = Full(P[i])

Renumbers(n, P, Q, o, inv) ==
  /\ n \in Nat /\ DOMAIN P = 1..n /\ DOMAIN Q = 1..n
  /\ o \in [1..n -> 1..n] /\ inv \in [1..n -> 1..n]
  /\ \A i \in 1..n : o[inv[i]] = i /\ inv[o[i]] = i
  /\ \A k \in 1..n : Q[k] = P[o[k]]

InOrder(n, P, Q) ==
  Q \in Seq(Path) /\ Len(Q) = n /\ Rising(Q) /\ Once(Q) /\ ToSet(Q) = ToSet(P)

LEMMA PathSort ==
  ASSUME NEW n, NEW P, NEW entries, Keyed(n, P, entries), NEW o, o = SortedBy(PathsOf(entries)),
         NEW Q, Q = [k \in 1..n |-> P[o[k]]]
  PROVE  Renumbers(n, P, Q, o, NewIndex(o)) /\ InOrder(n, P, Q)
<1>. DEFINE keys == PathsOf(entries)
            inv == NewIndex(o)
<1>0. /\ n \in Nat /\ P \in Seq(Path) /\ Len(P) = n /\ Once(P) /\ DOMAIN entries = 1..n
      /\ \A i \in 1..n : entries[i].path = Full(P[i])
      /\ o = SortedBy(keys)
  BY DEF Keyed
<1>1. DOMAIN P = 1..n /\ \A i \in 1..n : P[i] \in Path /\ P[i] \in Seq(Text) /\ Full(P[i]) \in Seq(Int)
  BY <1>0, LenProperties, ElementOfSeq, PathIs, FullType
<1>2. keys \in [1..n -> Seq(Int)] /\ \A i \in 1..n : keys[i] = Full(P[i])
  BY <1>0, <1>1 DEF PathsOf
<1>. HIDE DEF keys
<1>3. /\ o \in [1..n -> 1..n] /\ (\A i \in 1..n : \E k \in 1..n : o[k] = i)
      /\ (\A j, k \in 1..n : j < k => SortsBefore(keys, o[j], o[k]))
  <2>1. /\ SortedBy(keys) \in [1..n -> 1..n]
        /\ (\A i \in 1..n : \E k \in 1..n : SortedBy(keys)[k] = i)
        /\ (\A j, k \in 1..n : j < k => SortsBefore(keys, SortedBy(keys)[j], SortedBy(keys)[k]))
    BY <1>0, <1>2, SortedOrder
  <2>. QED
    BY <1>0, <2>1
<1>4. \A j, k \in 1..n : o[j] = o[k] => j = k
  <2>1. \A j, k \in 1..n : SortedBy(keys)[j] = SortedBy(keys)[k] => j = k
    BY <1>0, <1>2, SortedOnce
  <2>. QED
    BY <1>0, <2>1
<1>5. \A i \in 1..n : inv[i] \in 1..n /\ o[inv[i]] = i
  <2>1. ASSUME NEW i \in 1..n PROVE inv[i] \in 1..n /\ o[inv[i]] = i
    <3>1. \E k \in 1..n : o[k] = i
      BY <1>3
    <3>2. inv[i] = CHOOSE k \in 1..n : o[k] = i
      BY <1>3 DEF NewIndex
    <3>. HIDE DEF inv
    <3>. QED
      BY <3>1, <3>2
  <2>. QED
    BY <2>1
<1>6. inv \in [1..n -> 1..n]
  <2>1. inv = [i \in 1..n |-> inv[i]]
    BY <1>3 DEF NewIndex
  <2>. HIDE DEF inv
  <2>. QED
    BY <1>5, <2>1
<1>. HIDE DEF inv
<1>7. \A i \in 1..n : o[i] \in 1..n /\ inv[o[i]] = i
  <2>1. ASSUME NEW i \in 1..n PROVE o[i] \in 1..n /\ inv[o[i]] = i
    <3>1. o[i] \in 1..n
      BY <1>3
    <3>2. inv[o[i]] \in 1..n /\ o[inv[o[i]]] = o[i]
      BY <1>5, <3>1
    <3>. QED
      BY <1>4, <3>1, <3>2
  <2>. QED
    BY <2>1
<1>8. Q \in Seq(Path) /\ Len(Q) = n /\ DOMAIN Q = 1..n
  <2>1. Q \in [1..n -> Path]
    BY <1>1, <1>7
  <2>. QED
    BY <1>0, <2>1, ListIsSeq
<1>9. \A k \in 1..n : Q[k] = P[o[k]]
  OBVIOUS
<1>10. Once(Q)
  <2>. SUFFICES ASSUME NEW j \in 1..n, NEW k \in 1..n, Q[j] = Q[k] PROVE j = k
    BY <1>8 DEF Once
  <2>1. P[o[j]] = P[o[k]] /\ o[j] \in 1..n /\ o[k] \in 1..n
    BY <1>7, <1>9
  <2>2. o[j] = o[k]
    BY <1>0, <1>1, <2>1 DEF Once
  <2>. QED
    BY <1>4, <2>2
<1>11. Rising(Q)
  <2>. SUFFICES ASSUME NEW j \in 1..n, NEW k \in 1..n, j < k PROVE PathLess(Q[j], Q[k])
    BY <1>8 DEF Rising
  <2>1. SortsBefore(keys, o[j], o[k]) /\ o[j] \in 1..n /\ o[k] \in 1..n
    BY <1>3, <1>7
  <2>2. keys[o[j]] = Full(Q[j]) /\ keys[o[k]] = Full(Q[k])
    BY <1>2, <1>9, <2>1
  <2>3. Full(Q[j]) # Full(Q[k])
    <3>1. Q[j] # Q[k]
      BY <1>8, <1>10 DEF Once
    <3>2. Q[j] \in Seq(Text) /\ Q[k] \in Seq(Text)
      BY <1>1, <1>9, <2>1
    <3>. QED
      BY <3>1, <3>2, FullInjective
  <2>. QED
    BY <2>1, <2>2, <2>3 DEF SortsBefore, PathLess
<1>12. ToSet(Q) = ToSet(P)
  <2>1. ToSet(Q) = {Q[k] : k \in 1..n}
    BY <1>8 DEF ToSet
  <2>2. ToSet(P) = {P[k] : k \in 1..n}
    BY <1>1 DEF ToSet
  <2>3. \A k \in 1..n : \E j \in 1..n : Q[k] = P[j]
    BY <1>7, <1>9
  <2>4. \A k \in 1..n : \E j \in 1..n : P[k] = Q[j]
    BY <1>5, <1>9
  <2>5. ASSUME NEW v \in ToSet(Q) PROVE v \in ToSet(P)
    BY <2>1, <2>2, <2>3
  <2>6. ASSUME NEW v \in ToSet(P) PROVE v \in ToSet(Q)
    BY <2>1, <2>2, <2>4
  <2>. QED
    BY <2>5, <2>6
<1>. QED
  BY <1>0, <1>1, <1>3, <1>5, <1>6, <1>7, <1>8, <1>9, <1>10, <1>11, <1>12 DEF inv, Renumbers, InOrder

\* A list of indices, renumbered as the entries are.
LEMMA ListsRemap ==
  ASSUME NEW n, NEW P, NEW Q, NEW o, NEW inv, Renumbers(n, P, Q, o, inv), NEW x, NEW p, Lists(x, P, p)
  PROVE  Lists(Remap(x, inv), Q, p)
<1>. DEFINE y == Remap(x, inv)
            l == Len(x)
<1>0. /\ n \in Nat /\ DOMAIN P = 1..n /\ DOMAIN Q = 1..n
      /\ o \in [1..n -> 1..n] /\ inv \in [1..n -> 1..n]
      /\ \A i \in 1..n : o[inv[i]] = i /\ inv[o[i]] = i
      /\ \A k \in 1..n : Q[k] = P[o[k]]
  BY DEF Renumbers
<1>1. x \in Seq(Nat) /\ Once(x) /\ ToSet(x) = Within(P, p) /\ l \in Nat /\ DOMAIN x = 1..l
  BY LenProperties DEF Lists
<1>. HIDE DEF l
<1>2. \A k \in 1..l : x[k] \in 1..n /\ x[k] \in Within(P, p)
  BY <1>0, <1>1 DEF ToSet, Within
<1>3. y \in [1..l -> Nat] /\ \A k \in 1..l : y[k] = inv[x[k]]
  BY <1>0, <1>1, <1>2 DEF Remap
<1>. HIDE DEF y
<1>4. y \in Seq(Nat) /\ DOMAIN y = 1..l
  BY <1>1, <1>3, ListIsSeq
<1>5. Once(y)
  <2>. SUFFICES ASSUME NEW j \in 1..l, NEW k \in 1..l, y[j] = y[k] PROVE j = k
    BY <1>4 DEF Once
  <2>1. inv[x[j]] = inv[x[k]] /\ x[j] \in 1..n /\ x[k] \in 1..n
    BY <1>2, <1>3
  <2>2. x[j] = x[k]
    BY <1>0, <2>1
  <2>. QED
    BY <1>1, <2>2 DEF Once
<1>6. \A i \in 1..n : i \in Within(P, p) <=> inv[i] \in Within(Q, p)
  <2>1. \A i \in 1..n : inv[i] \in 1..n /\ Q[inv[i]] = P[i]
    BY <1>0
  <2>. QED
    BY <1>0, <2>1 DEF Within
<1>7. ToSet(y) \subseteq Within(Q, p)
  <2>1. ASSUME NEW k \in 1..l PROVE y[k] \in Within(Q, p)
    <3>1. x[k] \in 1..n /\ x[k] \in Within(P, p) /\ y[k] = inv[x[k]]
      BY <1>2, <1>3
    <3>. QED
      BY <1>6, <3>1
  <2>. QED
    BY <1>4, <2>1 DEF ToSet
<1>8. ASSUME NEW i \in Within(Q, p) PROVE i \in ToSet(y)
  <2>1. i \in 1..n /\ o[i] \in 1..n /\ inv[o[i]] = i
    BY <1>0 DEF Within
  <2>2. o[i] \in ToSet(x)
    BY <1>1, <1>6, <2>1
  <2>3. PICK k \in 1..l : x[k] = o[i]
    BY <1>1, <2>2 DEF ToSet
  <2>4. y[k] = i
    BY <1>3, <2>1, <2>3
  <2>. QED
    BY <1>4, <2>4 DEF ToSet
<1>. QED
  BY <1>4, <1>5, <1>7, <1>8 DEF Lists, y

\* Siblings in the order of their names are in the order of their paths.
LEMMA NameSort ==
  ASSUME NEW n \in Nat, NEW P \in Seq(Path), Len(P) = n, Rising(P), NEW entries,
         NEW x, NEW p, Lists(x, P, p),
         \A i \in Within(P, p) : entries[i].name = Last(P[i])
  PROVE  Lists(SortByName(x, entries), P, p) /\ Ascends(SortByName(x, entries))
<1>. DEFINE l == Len(x)
            keys == NamesOf(Remap(x, entries))
            o == SortedBy(keys)
            y == SortByName(x, entries)
<1>1. x \in Seq(Nat) /\ Once(x) /\ ToSet(x) = Within(P, p) /\ l \in Nat /\ DOMAIN x = 1..l
  BY LenProperties DEF Lists
<1>2. DOMAIN P = 1..n /\ \A i \in 1..n : P[i] \in Path /\ P[i] \in Seq(Text)
  BY LenProperties, ElementOfSeq, PathIs
<1>. HIDE DEF l
<1>3. \A k \in 1..l : /\ x[k] \in 1..n /\ P[x[k]] # <<>> /\ Front(P[x[k]]) = p /\ entries[x[k]].name = Last(P[x[k]])
                      /\ Last(P[x[k]]) \in Text /\ Last(P[x[k]]) \in Seq(Int)
  <2>1. ASSUME NEW k \in 1..l PROVE x[k] \in Within(P, p)
    BY <1>1 DEF ToSet
  <2>2. ASSUME NEW k \in 1..l
        PROVE  /\ x[k] \in 1..n /\ P[x[k]] # <<>> /\ Front(P[x[k]]) = p /\ entries[x[k]].name = Last(P[x[k]])
               /\ P[x[k]] \in Path
    BY <1>2, <2>1 DEF Within
  <2>3. ASSUME NEW k \in 1..l PROVE Last(P[x[k]]) \in Text /\ Last(P[x[k]]) \in Seq(Int)
    BY <2>2, PathIs, NameIs, TextIs
  <2>. QED
    BY <2>2, <2>3
<1>4. keys \in [1..l -> Seq(Int)] /\ \A k \in 1..l : keys[k] = Last(P[x[k]])
  <2>1. keys = [k \in 1..l |-> entries[x[k]].name]
    BY <1>1 DEF NamesOf, Remap
  <2>. HIDE DEF keys
  <2>. QED
    BY <1>3, <2>1
<1>. HIDE DEF keys
<1>5. /\ o \in [1..l -> 1..l] /\ (\A i \in 1..l : \E k \in 1..l : o[k] = i)
      /\ (\A j, k \in 1..l : j < k => SortsBefore(keys, o[j], o[k]))
  BY <1>1, <1>4, SortedOrder
<1>6. \A j, k \in 1..l : o[j] = o[k] => j = k
  BY <1>1, <1>4, SortedOnce
<1>7. y = [k \in 1..l |-> x[o[k]]]
  <2>1. y = Remap(o, x)
    BY DEF SortByName, keys
  <2>. HIDE DEF o, y
  <2>. QED
    BY <1>5, <2>1 DEF Remap
<1>. HIDE DEF o, y
<1>8. \A k \in 1..l : o[k] \in 1..l /\ y[k] = x[o[k]] /\ y[k] \in 1..n
  BY <1>3, <1>5, <1>7
<1>9. y \in Seq(Nat) /\ DOMAIN y = 1..l
  <2>1. y \in [1..l -> Nat]
    BY <1>7, <1>8
  <2>. QED
    BY <1>1, <2>1, ListIsSeq
<1>10. Once(y)
  <2>. SUFFICES ASSUME NEW j \in 1..l, NEW k \in 1..l, y[j] = y[k] PROVE j = k
    BY <1>9 DEF Once
  <2>1. o[j] = o[k]
    BY <1>1, <1>8 DEF Once
  <2>. QED
    BY <1>6, <2>1
<1>11. ToSet(y) = Within(P, p)
  <2>1. \A i \in 1..l : \E k \in 1..l : y[k] = x[i]
    BY <1>5, <1>8
  <2>2. ToSet(y) = ToSet(x)
    <3>1. ToSet(y) = {y[k] : k \in 1..l} /\ ToSet(x) = {x[k] : k \in 1..l}
      BY <1>1, <1>9 DEF ToSet
    <3>2. \A k \in 1..l : \E i \in 1..l : y[k] = x[i]
      BY <1>8
    <3>. QED
      BY <2>1, <3>1, <3>2, ZenonT(60)
  <2>. QED
    BY <1>1, <2>2
<1>12. Ascends(y)
  <2>. SUFFICES ASSUME NEW j \in 1..l, NEW k \in 1..l, j < k PROVE y[j] < y[k]
    BY <1>9 DEF Ascends
  <2>. DEFINE a == y[j]
              b == y[k]
  <2>1. /\ a \in 1..n /\ b \in 1..n /\ a # b
        /\ P[a] \in Seq(Text) /\ P[b] \in Seq(Text) /\ P[a] # <<>> /\ P[b] # <<>> /\ Front(P[a]) = Front(P[b])
        /\ P[a] \in Path /\ P[b] \in Path
    <3>1. a # b
      BY <1>9, <1>10 DEF Once
    <3>2. ASSUME NEW c \in 1..l
          PROVE  /\ y[c] \in 1..n /\ P[y[c]] \in Seq(Text) /\ P[y[c]] \in Path
                 /\ P[y[c]] # <<>> /\ Front(P[y[c]]) = p
      <4>1. y[c] = x[o[c]] /\ o[c] \in 1..l
        BY <1>8
      <4>2. y[c] \in 1..n /\ P[y[c]] # <<>> /\ Front(P[y[c]]) = p
        BY <1>3, <4>1
      <4>. QED
        BY <1>2, <4>2
    <3>3. \A c \in 1..l : /\ y[c] \in 1..n /\ P[y[c]] \in Seq(Text) /\ P[y[c]] \in Path
                          /\ P[y[c]] # <<>> /\ Front(P[y[c]]) = p
      BY <3>2
    <3>. HIDE DEF a, b
    <3>4. /\ a \in 1..n /\ P[a] \in Seq(Text) /\ P[a] \in Path /\ P[a] # <<>> /\ Front(P[a]) = p
          /\ b \in 1..n /\ P[b] \in Seq(Text) /\ P[b] \in Path /\ P[b] # <<>> /\ Front(P[b]) = p
      BY <3>3, Zenon DEF a, b
    <3>. QED
      BY <3>1, <3>4
  <2>2. SortsBefore(keys, o[j], o[k]) /\ keys[o[j]] = Last(P[a]) /\ keys[o[k]] = Last(P[b])
    BY <1>4, <1>5, <1>8, ZenonT(60)
  <2>. HIDE DEF a, b
  <2>3. ~PathLess(P[b], P[a])
    <3>1. CASE NameLess(Last(P[a]), Last(P[b]))
      <4>1. PathLess(P[a], P[b])
        BY <2>1, <3>1, SiblingsOrdered
      <4>. QED
        BY <2>1, <4>1, PathsOrdered
    <3>2. CASE Last(P[a]) = Last(P[b])
      <4>1. P[a] = P[b]
        BY <2>1, <3>2, PathIs
      <4>. QED
        BY <2>1, <4>1, PathsOrdered
    <3>. QED
      BY <2>2, <3>1, <3>2 DEF SortsBefore
  <2>4. ~(b < a)
    BY <1>2, <2>1, <2>3 DEF Rising
  <2>. QED
    BY <2>1, <2>4 DEF a, b
<1>. QED
  BY <1>9, <1>10, <1>11, <1>12 DEF Lists, y

LEMMA RisingStartsAtRoot ==
  ASSUME NEW E \in Seq(Path), Rising(E), <<>> \in ToSet(E)
  PROVE  1 \in DOMAIN E /\ E[1] = <<>>
<1>. DEFINE n == Len(E)
<1>1. n \in Nat /\ DOMAIN E = 1..n /\ \A i \in 1..n : E[i] \in Seq(Text)
  BY LenProperties, ElementOfSeq, PathIs
<1>2. PICK r \in 1..n : E[r] = <<>>
  BY <1>1 DEF ToSet
<1>. HIDE DEF n
<1>3. 1 \in 1..n
  BY <1>1, <1>2
<1>4. ASSUME E[1] # <<>> PROVE FALSE
  <2>1. r # 1 /\ 1 < r
    BY <1>1, <1>2, <1>4
  <2>2. PathLess(E[1], <<>>)
    BY <1>1, <1>2, <1>3, <2>1 DEF Rising
  <2>3. PathLess(<<>>, E[1]) /\ E[1] \in Seq(Text) /\ E[r] \in Seq(Text)
    BY <1>1, <1>2, <1>3, <1>4, RootFirst
  <2>. QED
    BY <1>2, <2>2, <2>3, PathsOrdered
<1>. QED
  BY <1>1, <1>3, <1>4

LEMMA SortEntriesKeeps ==
  ASSUME NEW D, NEW F, Filed(dirs, files, D, F)
  PROVE  \E E, G : /\ Filed(SortEntriesByPath.dirs, SortEntriesByPath.files, E, G)
                   /\ Rising(E) /\ Rising(G) /\ ToSet(E) = ToSet(D)
                   /\ Stored(G, SortEntriesByPath.files) = Stored(F, files)
<1>. DEFINE n == Len(D)
            m == Len(F)
            o == SortedBy(PathsOf(dirs))
            u == SortedBy(PathsOf(files))
            inv == NewIndex(o)
            iu == NewIndex(u)
            E == [k \in 1..n |-> D[o[k]]]
            G == [k \in 1..m |-> F[u[k]]]
            ds == SortEntriesByPath.dirs
            fls == SortEntriesByPath.files
<1>1. /\ n \in Nat \ {0} /\ DOMAIN D = 1..n /\ DOMAIN dirs = 1..n /\ Len(dirs) = n
      /\ m \in Nat /\ DOMAIN F = 1..m /\ DOMAIN files = 1..m /\ Len(files) = m
      /\ \A i \in 1..n : D[i] \in Path /\ dirs[i] \in DirRec /\ DirIs(dirs[i], D, F, D[i])
      /\ \A i \in 1..m : F[i] \in Path /\ files[i] \in FileRec /\ FileIs(files[i], D, F[i])
  BY FiledIs
<1>2. D \in Seq(Path) /\ Once(D) /\ F \in Seq(Path) /\ Once(F) /\ D[1] = <<>>
  BY DEF Filed
<1>. HIDE DEF n, m
<1>a. Renumbers(n, D, E, o, inv) /\ InOrder(n, D, E)
  <2>1. \A i \in 1..n : dirs[i].path = Full(D[i])
    BY <1>1 DEF DirIs
  <2>2. n \in Nat /\ Len(D) = n
    BY <1>1 DEF n
  <2>3. Keyed(n, D, dirs)
    BY <1>1, <1>2, <2>1, <2>2 DEF Keyed
  <2>. QED
    BY <2>3, PathSort
<1>b. Renumbers(m, F, G, u, iu) /\ InOrder(m, F, G)
  <2>1. \A i \in 1..m : files[i].path = Full(F[i])
    BY <1>1 DEF FileIs
  <2>2. m \in Nat /\ Len(F) = m
    BY <1>1 DEF m
  <2>3. Keyed(m, F, files)
    BY <1>1, <1>2, <2>1, <2>2 DEF Keyed
  <2>. QED
    BY <2>3, PathSort
<1>3. /\ o \in [1..n -> 1..n] /\ inv \in [1..n -> 1..n]
      /\ \A i \in 1..n : o[inv[i]] = i /\ inv[o[i]] = i
      /\ E \in Seq(Path) /\ Len(E) = n /\ DOMAIN E = 1..n
      /\ Rising(E) /\ Once(E) /\ ToSet(E) = ToSet(D)
  BY <1>a DEF Renumbers, InOrder
<1>4. /\ u \in [1..m -> 1..m] /\ iu \in [1..m -> 1..m]
      /\ \A i \in 1..m : u[iu[i]] = i /\ iu[u[i]] = i
      /\ G \in Seq(Path) /\ Len(G) = m /\ DOMAIN G = 1..m
      /\ Rising(G) /\ Once(G) /\ ToSet(G) = ToSet(F)
  BY <1>b DEF Renumbers, InOrder
<1>. HIDE DEF o, u, inv, iu
<1>5. \A k \in 1..n : E[k] = D[o[k]] /\ o[k] \in 1..n /\ inv[k] \in 1..n
  BY <1>3
<1>6. \A k \in 1..m : G[k] = F[u[k]] /\ u[k] \in 1..m /\ iu[k] \in 1..m
  BY <1>4
<1>7. /\ ds = [k \in 1..n |-> [dirs[o[k]] EXCEPT !.parent = inv[@], !.children = Remap(@, inv), !.files = Remap(@, iu)]]
      /\ fls = [k \in 1..m |-> [files[u[k]] EXCEPT !.parent = inv[@]]]
  BY <1>1 DEF SortEntriesByPath, o, u, inv, iu
<1>. HIDE DEF E, G, ds, fls
<1>8. ASSUME NEW k \in 1..n PROVE ds[k] \in DirRec /\ DirIs(ds[k], E, G, E[k])
  <2>. DEFINE d == dirs[o[k]]
              p == E[k]
              c == Remap(d.children, inv)
              f == Remap(d.files, iu)
  <2>1. d \in DirRec /\ DirIs(d, D, F, p)
    BY <1>1, <1>5
  <2>. HIDE DEF d, p
  <2>2. /\ d.path = Full(p) /\ d.name = BaseName(p) /\ d.parent \in 1..n /\ D[d.parent] = Parent(p)
        /\ Lists(d.children, D, p) /\ Lists(d.files, F, p)
    BY <1>1, <2>1 DEF DirIs
  <2>3. Lists(c, E, p)
    BY <1>a, <2>2, ListsRemap
  <2>4. Lists(f, G, p)
    BY <1>b, <2>2, ListsRemap
  <2>5. c \in Seq(Nat) /\ f \in Seq(Nat)
    BY <2>3, <2>4 DEF Lists
  <2>. HIDE DEF c, f
  <2>6. ds[k] = [d EXCEPT !.parent = inv[@], !.children = c, !.files = f]
    BY <1>7 DEF d, c, f
  <2>7. inv[d.parent] \in 1..n /\ E[inv[d.parent]] = D[d.parent] /\ inv[d.parent] \in Nat
    <3>1. inv[d.parent] \in 1..n /\ o[inv[d.parent]] = d.parent
      BY <1>3, <1>5, <2>2
    <3>. QED
      BY <1>5, <3>1
  <2>8. /\ ds[k] \in DirRec /\ ds[k].path = d.path /\ ds[k].name = d.name /\ ds[k].parent = inv[d.parent]
        /\ ds[k].children = c /\ ds[k].files = f
    BY <2>1, <2>5, <2>6, <2>7 DEF DirRec
  <2>9. DirIs(ds[k], E, G, p)
    BY <1>3, <2>2, <2>3, <2>4, <2>7, <2>8 DEF DirIs
  <2>. QED
    BY <2>8, <2>9 DEF p
<1>9. ASSUME NEW k \in 1..m PROVE fls[k] \in FileRec /\ FileIs(fls[k], E, G[k]) /\ fls[k].data = files[u[k]].data
  <2>. DEFINE d == files[u[k]]
              p == G[k]
  <2>1. d \in FileRec /\ FileIs(d, D, p)
    BY <1>1, <1>6
  <2>. HIDE DEF d, p
  <2>2. /\ p # <<>> /\ d.path = Full(p) /\ d.name = Last(p) /\ d.parent \in 1..n /\ D[d.parent] = Front(p)
    BY <1>1, <2>1 DEF FileIs
  <2>3. fls[k] = [d EXCEPT !.parent = inv[@]]
    BY <1>7 DEF d
  <2>4. inv[d.parent] \in 1..n /\ E[inv[d.parent]] = D[d.parent] /\ inv[d.parent] \in Nat
    <3>1. inv[d.parent] \in 1..n /\ o[inv[d.parent]] = d.parent
      BY <1>3, <1>5, <2>2
    <3>. QED
      BY <1>5, <3>1
  <2>5. /\ fls[k] \in FileRec /\ fls[k].path = d.path /\ fls[k].name = d.name /\ fls[k].parent = inv[d.parent]
        /\ fls[k].data = d.data
    BY <2>1, <2>3, <2>4 DEF FileRec
  <2>6. FileIs(fls[k], E, p)
    BY <1>3, <2>2, <2>4, <2>5 DEF FileIs
  <2>. QED
    BY <2>5, <2>6 DEF p, d
<1>10. ds \in Seq(DirRec) /\ Len(ds) = n
  <2>1. ds \in [1..n -> DirRec]
    BY <1>7, <1>8
  <2>. QED
    BY <1>1, <2>1, ListIsSeq, SMTT(60)
<1>11. fls \in Seq(FileRec) /\ Len(fls) = m
  <2>1. fls \in [1..m -> FileRec]
    BY <1>7, <1>9
  <2>. QED
    BY <1>1, <2>1, ListIsSeq, SMTT(60)
<1>12. E # <<>> /\ E[1] = <<>>
  <2>1. <<>> \in ToSet(E)
    <3>1. D[1] \in ToSet(D)
      BY <1>1 DEF ToSet
    <3>. QED
      BY <1>2, <1>3, <3>1
  <2>2. 1 \in DOMAIN E /\ E[1] = <<>>
    BY <1>3, <2>1, RisingStartsAtRoot
  <2>. QED
    BY <2>2, EmptySeq
<1>13. Filed(ds, fls, E, G)
  BY <1>3, <1>4, <1>8, <1>9, <1>10, <1>11, <1>12 DEF Filed
<1>14. Stored(G, fls) = Stored(F, files)
  <2>. DEFINE a(k) == [at |-> G[k], data |-> fls[k].data]
              b(k) == [at |-> F[k], data |-> files[k].data]
  <2>1. Stored(G, fls) = {a(k) : k \in 1..m} /\ Stored(F, files) = {b(k) : k \in 1..m}
    BY <1>1, <1>4 DEF Stored
  <2>2. \A k \in 1..m : a(k) = b(u[k])
    BY <1>6, <1>9
  <2>3. \A k \in 1..m : b(k) = a(iu[k])
    BY <1>4, <1>6, <2>2
  <2>. HIDE DEF a, b
  <2>4. ASSUME NEW v \in {a(k) : k \in 1..m} PROVE v \in {b(k) : k \in 1..m}
    BY <1>6, <2>2
  <2>5. ASSUME NEW v \in {b(k) : k \in 1..m} PROVE v \in {a(k) : k \in 1..m}
    BY <1>6, <2>3
  <2>6. {a(k) : k \in 1..m} = {b(k) : k \in 1..m}
    BY <2>4, <2>5
  <2>. QED
    BY <2>1, <2>6
<1>. QED
  BY <1>3, <1>4, <1>13, <1>14 DEF ds, fls

\* The lists of every directory are in the order of the vectors.
Listed(ds) == \A i \in DOMAIN ds : Ascends(ds[i].children) /\ Ascends(ds[i].files)

LEMMA SortChildrenKeeps ==
  ASSUME NEW b, NEW E, NEW G, Filed(b.dirs, b.files, E, G), Rising(E), Rising(G), b = [dirs |-> b.dirs, files |-> b.files]
  PROVE  /\ Filed(SortChildren(b).dirs, b.files, E, G) /\ Listed(SortChildren(b).dirs)
         /\ SortChildren(b) = [dirs |-> SortChildren(b).dirs, files |-> b.files]
<1>. DEFINE n == Len(E)
            bd == b.dirs
            fls == b.files
            ds == [k \in 1..n |-> [bd[k] EXCEPT !.children = SortByName(@, bd), !.files = SortByName(@, fls)]]
<1>1. /\ n \in Nat \ {0} /\ DOMAIN E = 1..n /\ DOMAIN bd = 1..n /\ Len(bd) = n
      /\ DOMAIN G = 1..Len(G) /\ Len(G) \in Nat
      /\ \A i \in 1..n : E[i] \in Path /\ bd[i] \in DirRec /\ DirIs(bd[i], E, G, E[i])
      /\ \A i \in 1..Len(G) : FileIs(fls[i], E, G[i])
  BY FiledIs
<1>2. E \in Seq(Path) /\ G \in Seq(Path) /\ Len(E) = n
  BY DEF Filed
<1>. HIDE DEF n
<1>3. SortChildren(b) = [dirs |-> ds, files |-> fls]
  BY <1>1 DEF SortChildren
<1>4. Filed(bd, fls, E, G)
  OBVIOUS
<1>. HIDE DEF bd, fls
<1>5. ASSUME NEW k \in 1..n
      PROVE  /\ ds[k] \in DirRec /\ DirIs(ds[k], E, G, E[k])
             /\ Ascends(ds[k].children) /\ Ascends(ds[k].files)
  <2>. DEFINE d == bd[k]
              p == E[k]
              c == SortByName(d.children, bd)
              f == SortByName(d.files, fls)
  <2>1. d \in DirRec /\ DirIs(d, E, G, p)
    BY <1>1
  <2>. HIDE DEF d, p
  <2>2. Lists(d.children, E, p) /\ Lists(d.files, G, p)
    BY <2>1 DEF DirIs
  <2>3. \A i \in Within(E, p) : bd[i].name = Last(E[i])
    BY <1>1 DEF Within, DirIs, BaseName
  <2>4. \A i \in Within(G, p) : fls[i].name = Last(G[i])
    BY <1>1 DEF Within, FileIs
  <2>5. Lists(c, E, p) /\ Ascends(c)
    BY <1>1, <1>2, <2>2, <2>3, NameSort
  <2>6. Lists(f, G, p) /\ Ascends(f)
    BY <1>1, <1>2, <2>2, <2>4, NameSort
  <2>7. c \in Seq(Nat) /\ f \in Seq(Nat)
    BY <2>5, <2>6 DEF Lists
  <2>. HIDE DEF c, f
  <2>8. ds[k] = [d EXCEPT !.children = c, !.files = f]
    BY DEF d, c, f
  <2>9. /\ ds[k] \in DirRec /\ ds[k].path = d.path /\ ds[k].name = d.name /\ ds[k].parent = d.parent
        /\ ds[k].children = c /\ ds[k].files = f
    BY <2>1, <2>7, <2>8 DEF DirRec
  <2>10. DirIs(ds[k], E, G, p)
    BY <2>1, <2>5, <2>6, <2>9 DEF DirIs
  <2>. QED
    BY <2>5, <2>6, <2>9, <2>10 DEF p
<1>6. DOMAIN ds = 1..n /\ ds \in [1..n -> DirRec]
  BY <1>5
<1>. HIDE DEF ds
<1>7. ds \in Seq(DirRec) /\ Len(ds) = n
  BY <1>1, <1>6, ListIsSeq
<1>8. Filed(ds, fls, E, G)
  BY <1>1, <1>2, <1>4, <1>5, <1>7 DEF Filed
<1>9. Listed(ds)
  BY <1>5, <1>6 DEF Listed
<1>. QED
  BY <1>3, <1>8, <1>9 DEF fls

\* The image is of vectors in the order of the paths.
Arranged(D, F) ==
  /\ Rising(D) /\ Rising(F) /\ Listed(dirs)
  /\ image = ImageOf([dirs |-> dirs, files |-> files])

LEMMA BuildArranges ==
  ASSUME NEW D, NEW F, Holding(dirs, files, tree, D, F), Build
  PROVE  \/ phase' \in BuilderErrors /\ UNCHANGED <<dirs, files, fs, stack, listing, image, tree>>
         \/ /\ phase' = "built" /\ UNCHANGED <<fs, stack, listing, tree>>
            /\ \E E, G : Holding(dirs', files', tree', E, G) /\ Arranged(E, G)'
<1>. DEFINE a == SortEntriesByPath
            b == SortChildren(a)
<1>1. CASE files = <<>>
  BY <1>1 DEF Build, BFail, BuilderErrors
<1>2. CASE files # <<>>
  <2>1. /\ dirs' = b.dirs /\ files' = b.files /\ image' = ImageOf(b) /\ phase' = "built"
        /\ UNCHANGED <<fs, stack, listing, tree>>
    BY <1>2 DEF Build
  <2>2. PICK E, G : /\ Filed(a.dirs, a.files, E, G)
                    /\ Rising(E) /\ Rising(G) /\ ToSet(E) = ToSet(D)
                    /\ Stored(G, a.files) = Stored(F, files)
    BY SortEntriesKeeps DEF Holding
  <2>3. a = [dirs |-> a.dirs, files |-> a.files]
    BY DEF SortEntriesByPath
  <2>. HIDE DEF a
  <2>4. Filed(b.dirs, a.files, E, G) /\ Listed(b.dirs) /\ b = [dirs |-> b.dirs, files |-> a.files]
    BY <2>2, <2>3, SortChildrenKeeps
  <2>. HIDE DEF b
  <2>5. b.files = a.files
    BY <2>4
  <2>6. Holding(dirs', files', tree', E, G)
    BY <2>1, <2>2, <2>4, <2>5 DEF Holding
  <2>7. Rising(E)' /\ Rising(G)'
    BY <2>2 DEF Rising
  <2>8. Arranged(E, G)'
    BY <2>1, <2>2, <2>4, <2>5, <2>7 DEF Arranged
  <2>. QED
    BY <2>1, <2>6, <2>8
<1>. QED
  BY <1>1, <1>2

StoredInv ==
  \E D, F : /\ Holding(dirs, files, tree, D, F)
            /\ phase = "walk" => Walked(stack, listing, D, F)
            /\ phase = "built" => Arranged(D, F)

LEMMA StoredInit == Init => StoredInv
<1>. SUFFICES ASSUME Init PROVE StoredInv
  OBVIOUS
<1>. DEFINE D == <<(<<>>)>>
            F == <<>>
            st == <<[dir |-> 1, at |-> <<>>]>>
<1>1. dirs = <<Root>> /\ files = <<>> /\ tree = [dirs |-> {<<>>}, files |-> {}] /\ listing = {}
  BY DEF Init, BInit
<1>2. <<>> \in Path /\ <<>> \in Text /\ <<>> \in Seq(Nat) /\ <<>> \in Seq(Path) /\ <<>> \in Seq(FileRec)
  BY EmptySeq DEF Path, Text
<1>3. D \in Seq(Path) /\ Len(D) = 1 /\ DOMAIN D = 1..1 /\ D[1] = <<>> /\ D # <<>>
  BY <1>2
<1>4. Root \in DirRec
  BY <1>2 DEF Root, DirRec
<1>5. dirs \in Seq(DirRec) /\ Len(dirs) = 1 /\ DOMAIN dirs = 1..1 /\ dirs[1] = Root
  <2>. HIDE DEF Root
  <2>. QED
    BY <1>1, <1>4
<1>6. 1..1 = {1} /\ Len(F) = 0 /\ DOMAIN F = {}
  OBVIOUS
<1>. HIDE DEF D, F
<1>7. ToSet(D) = {<<>>} /\ ToSet(F) = {} /\ Once(D) /\ Once(F)
  BY <1>3, <1>6 DEF ToSet, Once
<1>8. Within(D, <<>>) = {} /\ Within(F, <<>>) = {}
  BY <1>3, <1>6 DEF Within
<1>9. Lists(<<>>, D, <<>>) /\ Lists(<<>>, F, <<>>)
  <2>1. ToSet(<<>>) = {} /\ Once(<<>>)
    BY DEF ToSet, Once
  <2>. QED
    BY <1>2, <1>8, <2>1 DEF Lists
<1>10. DirIs(Root, D, F, <<>>)
  BY <1>3, <1>6, <1>9, FullEmpty DEF DirIs, Root, BaseName, Parent
<1>11. Filed(dirs, files, D, F)
  <2>1. F \in Seq(Path) /\ files \in Seq(FileRec) /\ Len(F) = Len(files)
    BY <1>1, <1>2, <1>6 DEF F
  <2>2. \A i \in DOMAIN D : DirIs(dirs[i], D, F, D[i])
    BY <1>3, <1>5, <1>6, <1>10
  <2>. QED
    BY <1>3, <1>5, <1>6, <1>7, <2>1, <2>2 DEF Filed
<1>12. Holding(dirs, files, tree, D, F)
  BY <1>1, <1>6, <1>7, <1>11 DEF Holding, Stored
<1>13. phase = "walk" => Walked(stack, listing, D, F)
  <2>. SUFFICES ASSUME phase = "walk" PROVE Walked(stack, listing, D, F)
    OBVIOUS
  <2>1. fs \in FsTrees /\ stack = st
    BY DEF Init, BInit
  <2>2. st \in Seq(Frame) /\ DOMAIN st = {1} /\ st[1].dir = 1 /\ st[1].at = <<>>
    <3>1. [dir |-> 1, at |-> <<>>] \in Frame
      BY <1>2 DEF Frame
    <3>. QED
      BY <1>6, <3>1
  <2>. HIDE DEF st
  <2>3. Standing(st[1], D) /\ Untouched(<<>>, D, F) /\ <<>> \in DOMAIN fs
    BY <1>3, <1>6, <1>7, <2>1, <2>2, FsTreesSupplied DEF Standing, Untouched
  <2>. QED
    BY <1>1, <2>1, <2>2, <2>3 DEF Walked
<1>14. phase # "built"
  BY DEF Init, BInit
<1>. QED
  BY <1>12, <1>13, <1>14 DEF StoredInv

LEMMA StoredNext == StoredInv /\ [Next]_vars => StoredInv'
<1>. SUFFICES ASSUME StoredInv, [Next]_vars PROVE StoredInv'
  OBVIOUS
<1>1. PICK D, F : /\ Holding(dirs, files, tree, D, F)
                  /\ phase = "walk" => Walked(stack, listing, D, F)
                  /\ phase = "built" => Arranged(D, F)
  BY DEF StoredInv
<1>2. CASE UNCHANGED bVars
  BY <1>1, <1>2 DEF bVars, StoredInv, Holding, Walked, Arranged, Rising, Listed, Ascends
<1>3. CASE phase' \in BuilderErrors /\ UNCHANGED <<dirs, files, fs, stack, listing, image, tree>>
  <2>1. Holding(dirs', files', tree', D, F)
    BY <1>1, <1>3
  <2>. QED
    BY <1>3, <2>1 DEF StoredInv, BuilderErrors
<1>4. CASE phase' = "add" /\ \E E, G : Holding(dirs', files', tree', E, G)
  BY <1>4 DEF StoredInv
<1>5. CASE phase' = "built" /\ \E E, G : Holding(dirs', files', tree', E, G) /\ Arranged(E, G)'
  BY <1>5 DEF StoredInv
<1>6. CASE /\ phase = "walk" /\ phase' = "walk"
           /\ \E E, G : Holding(dirs', files', tree', E, G) /\ Walked(stack, listing, E, G)'
  BY <1>6 DEF StoredInv
<1>7. CASE BNext
  <2>1. ASSUME NEW path \in Paths, NEW data \in Contents, AddFile(path, data) PROVE StoredInv'
    BY <1>1, <1>3, <1>4, <2>1, AddFileStores
  <2>2. CASE PopDir
    <3>1. phase = "walk" /\ phase' = "walk" /\ UNCHANGED <<dirs, files, fs, tree>>
      BY <2>2 DEF PopDir
    <3>2. Walked(stack', listing', D, F)
      BY <1>1, <2>2, <3>1, PopDirKeeps
    <3>3. Holding(dirs', files', tree', D, F) /\ Walked(stack, listing, D, F)'
      BY <1>1, <3>1, <3>2 DEF Walked
    <3>. QED
      BY <1>6, <3>1, <3>3
  <2>3. ASSUME NEW m \in listing, TakeEntry(m) PROVE StoredInv'
    <3>1. phase = "walk" /\ m.entry.utf8 /\ listing' = listing \ {m}
      BY <2>3 DEF TakeEntry, Reading
    <3>2. CASE TakeDir(m)
      <4>1. phase' = "walk" /\ fs' = fs
        BY <3>1, <3>2 DEF TakeDir
      <4>2. PICK E : Holding(dirs', files', tree', E, F) /\ Walked(stack', listing', E, F)
        BY <1>1, <3>1, <3>2, TakeDirKeeps
      <4>3. Walked(stack, listing, E, F)'
        BY <4>1, <4>2 DEF Walked
      <4>. QED
        BY <1>6, <3>1, <4>1, <4>2, <4>3
    <3>3. CASE TakeFile(m)
      <4>1. phase' = "walk" /\ fs' = fs
        BY <3>1, <3>3 DEF TakeFile
      <4>2. PICK G : Holding(dirs', files', tree', D, G) /\ Walked(stack', listing', D, G)
        BY <1>1, <3>1, <3>3, TakeFileKeeps
      <4>3. Walked(stack, listing, D, G)'
        BY <4>1, <4>2 DEF Walked
      <4>. QED
        BY <1>6, <3>1, <4>1, <4>2, <4>3
    <3>4. CASE SkipOther(m)
      <4>1. phase' = "walk" /\ UNCHANGED <<dirs, files, fs, stack, tree>>
        BY <3>1, <3>4 DEF SkipOther
      <4>2. Holding(dirs', files', tree', D, F)
        BY <1>1, <4>1
      <4>3. Walked(stack, listing, D, F)'
        BY <1>1, <3>1, <4>1 DEF Walked
      <4>. QED
        BY <1>6, <3>1, <4>1, <4>2, <4>3
    <3>. QED
      BY <2>3, <3>2, <3>3, <3>4 DEF TakeEntry
  <2>4. ASSUME NEW m \in listing, RefuseEntry(m) PROVE StoredInv'
    BY <1>3, <2>4 DEF RefuseEntry, BFail, BuilderErrors
  <2>5. CASE IoFails
    BY <1>3, <2>5 DEF IoFails, BFail, BuilderErrors
  <2>6. CASE WalkDone
    <3>1. Holding(dirs', files', tree', D, F) /\ phase' = "add"
      BY <1>1, <2>6 DEF WalkDone
    <3>. QED
      BY <1>4, <3>1
  <2>7. CASE Build
    BY <1>1, <1>3, <1>5, <2>7, BuildArranges
  <2>. QED
    BY <1>7, <2>1, <2>2, <2>3, <2>4, <2>5, <2>6, <2>7 DEF BNext
<1>8. BNext \/ UNCHANGED bVars
  BY DEF Next, vars, Finished
<1>. QED
  BY <1>2, <1>7, <1>8

\* RomFsBuilder: in every reachable state, whatever add_file and from_directory were called with and whatever
\* they refused, the directories form a tree that the child lists mirror, and an image was built from the tree of
\* the files that were stored.
THEOREM RomFsInvariant == Spec => []StoredInv
  BY StoredInit, StoredNext, PTL DEF Spec

(***************************************************************************)
(* Offsets                                                                 *)
(***************************************************************************)
LEMMA Align16 ==
  ASSUME NEW v \in Nat
  PROVE  /\ Align(v, 16) \in Nat /\ v =< Align(v, 16) /\ Align(v, 16) < v + 16
         /\ \A w \in Nat : Align(Align(v, 16) + w, 16) = Align(v, 16) + Align(w, 16)
         /\ Align(512 + v, 16) = 512 + Align(v, 16)
BY DEF Align

LEMMA Align4 ==
  ASSUME NEW v \in Nat
  PROVE  Align(v, 4) \in Nat /\ v =< Align(v, 4)
BY DEF Align

\* Each offset is the one before it and the size there.
Piling(offs, sizes, n) ==
  /\ offs \in [1..(n + 1) -> Nat] /\ offs[1] = 0
  /\ \A k \in 1..n : offs[k + 1] = offs[k] + sizes[k]

LEMMA OffsetsPile ==
  ASSUME NEW n \in Nat, NEW sizes \in [1..n -> Nat]
  PROVE  Piling(EntryOffsets(sizes), sizes, n) /\ Last(EntryOffsets(sizes)) = EntryOffsets(sizes)[n + 1]
<1>. DEFINE S == [k \in 0..n |-> Nat]
            step == [x \in (1..n) \X Nat |-> x[2] + sizes[x[1]]]
            offs == EntryOffsets(sizes)
<1>1. Len(sizes) = n /\ \A k \in 1..n : sizes[k] \in Nat
  BY ListIsSeq
<1>2. \A k \in 1..n : \A w \in S[k - 1] : step[<<k, w>>] = w + sizes[k] /\ step[<<k, w>>] \in S[k] /\ w \in Nat
  BY <1>1
<1>3. Solvable(n, S, 0, step)
  <2>1. 0 \in S[0] /\ \A k \in 1..n : \A w \in S[k - 1] : step[<<k, w>>] \in S[k]
    BY <1>2
  <2>. HIDE DEF S, step
  <2>. QED
    BY <2>1, RecursionSolvable
<1>4. PICK g : /\ g = [k \in 0..n |-> IF k = 0 THEN 0 ELSE step[<<k, g[k - 1]>>]]
               /\ \A k \in 0..n : g[k] \in S[k]
  BY <1>3 DEF Solvable
<1>5. \A k \in 0..n : g[k] \in Nat
  BY <1>4
<1>6. g[0] = 0 /\ \A k \in 1..n : g[k] = g[k - 1] + sizes[k]
  <2>1. ASSUME NEW k \in 1..n PROVE g[k] = g[k - 1] + sizes[k]
    <3>1. k \in 0..n /\ k # 0 /\ k - 1 \in 0..n
      OBVIOUS
    <3>2. g[k] = step[<<k, g[k - 1]>>]
      BY <1>4, <3>1
    <3>3. g[k - 1] \in S[k - 1]
      BY <1>4, <3>1
    <3>. QED
      BY <1>2, <3>2, <3>3
  <2>2. 0 \in 0..n
    OBVIOUS
  <2>3. g[0] = 0
    BY <1>4, <2>2
  <2>. QED
    BY <2>1, <2>3
<1>. DEFINE h == [k \in 1..(n + 1) |-> g[k - 1]]
<1>7. h = [k \in 1..(n + 1) |-> IF k = 1 THEN 0 ELSE h[k - 1] + sizes[k - 1]]
  <2>1. ASSUME NEW k \in 1..(n + 1) PROVE g[k - 1] = IF k = 1 THEN 0 ELSE h[k - 1] + sizes[k - 1]
    <3>1. CASE k = 1
      BY <1>6, <3>1
    <3>2. CASE k # 1
      <4>1. k - 1 \in 1..n /\ k - 1 \in 1..(n + 1)
        BY <3>2
      <4>2. g[k - 1] = g[(k - 1) - 1] + sizes[k - 1] /\ h[k - 1] = g[(k - 1) - 1]
        BY <1>6, <4>1
      <4>. QED
        BY <3>2, <4>2
    <3>. QED
      BY <3>1, <3>2
  <2>. QED
    BY <2>1
<1>. DEFINE Rec(f) == f = [k \in 1..(n + 1) |-> IF k = 1 THEN 0 ELSE f[k - 1] + sizes[k - 1]]
<1>8. Rec(h)
  BY <1>7
<1>9. offs = CHOOSE f : Rec(f)
  BY <1>1 DEF EntryOffsets
<1>10. Rec(offs)
  <2>. HIDE DEF Rec, offs, h
  <2>. QED
    BY <1>8, <1>9
<1>. HIDE DEF offs
<1>11. offs[1] = 0 /\ \A k \in 1..n : offs[k + 1] = offs[k] + sizes[k]
  <2>1. ASSUME NEW k \in 1..n PROVE offs[k + 1] = offs[k] + sizes[k]
    <3>1. k + 1 \in 1..(n + 1) /\ k + 1 # 1 /\ (k + 1) - 1 = k
      OBVIOUS
    <3>. QED
      BY <1>10, <3>1
  <2>2. 1 \in 1..(n + 1)
    OBVIOUS
  <2>. QED
    BY <1>10, <2>1, <2>2
<1>12. \A k \in 0..n : offs[k + 1] \in Nat
  <2>. DEFINE G == {k \in 0..n : offs[k + 1] \in Nat}
  <2>1. 0 \in G
    BY <1>11
  <2>2. ASSUME NEW k \in 1..n, k - 1 \in G PROVE k \in G
    <3>1. offs[k] \in Nat /\ offs[k + 1] = offs[k] + sizes[k] /\ k \in 0..n
      <4>1. (k - 1) + 1 = k
        OBVIOUS
      <4>. QED
        BY <1>11, <2>2, <4>1
    <3>. QED
      BY <1>1, <3>1
  <2>3. \A k \in 1..n : k - 1 \in G => k \in G
    BY <2>2
  <2>4. \A k \in 0..n : k \in G
    <3>. HIDE DEF G
    <3>. QED
      BY <2>1, <2>3, UpTo
  <2>. QED
    BY <2>4
<1>13. offs \in [1..(n + 1) -> Nat]
  <2>1. \A k \in 1..(n + 1) : offs[k] \in Nat
    <3>. SUFFICES ASSUME NEW k \in 1..(n + 1) PROVE offs[k] \in Nat
      OBVIOUS
    <3>1. k - 1 \in 0..n /\ (k - 1) + 1 = k
      OBVIOUS
    <3>. QED
      BY <1>12, <3>1
  <2>2. offs = [k \in 1..(n + 1) |-> offs[k]]
    BY <1>10
  <2>. QED
    BY <2>1, <2>2
<1>14. Len(offs) = n + 1
  <2>1. n + 1 \in Nat
    OBVIOUS
  <2>. QED
    BY <1>13, <2>1, ListIsSeq
<1>. QED
  BY <1>11, <1>13, <1>14 DEF Piling, Last, offs

LEMMA PilingRises ==
  ASSUME NEW n \in Nat, NEW sizes \in [1..n -> Nat], NEW offs, Piling(offs, sizes, n),
         \A k \in 1..n : sizes[k] # 0
  PROVE  \A j, k \in 1..n : j < k => offs[j] < offs[k]
<1>. SUFFICES ASSUME NEW j \in 1..n PROVE \A k \in 0..n : j < k => offs[j] < offs[k]
  <2>1. \A k \in 1..n : k \in 0..n
    OBVIOUS
  <2>. QED
    BY <2>1
<1>. DEFINE G == {k \in 0..n : j < k => offs[j] < offs[k]}
<1>1. 0 \in G
  OBVIOUS
<1>2. ASSUME NEW k \in 1..n, k - 1 \in G PROVE k \in G
  <2>. SUFFICES ASSUME j < k PROVE offs[j] < offs[k]
    OBVIOUS
  <2>1. k - 1 \in 1..n /\ (k - 1) + 1 = k /\ k - 1 \in 1..(n + 1) /\ j \in 1..(n + 1)
    OBVIOUS
  <2>2. offs[k] = offs[k - 1] + sizes[k - 1] /\ sizes[k - 1] \in Nat /\ sizes[k - 1] # 0 /\ offs[k - 1] \in Nat /\ offs[j] \in Nat
    BY <2>1 DEF Piling
  <2>3. offs[j] =< offs[k - 1]
    <3>1. CASE j = k - 1
      BY <2>2, <3>1
    <3>2. CASE j # k - 1
      <4>1. j < k - 1
        BY <3>2
      <4>2. offs[j] < offs[k - 1]
        BY <1>2, <4>1
      <4>. QED
        BY <2>2, <4>2, SMTT(60)
    <3>. QED
      BY <3>1, <3>2
  <2>. QED
    BY <2>2, <2>3, SMTT(60)
<1>3. \A k \in 1..n : k - 1 \in G => k \in G
  BY <1>2
<1>4. \A k \in 0..n : k \in G
  <2>. HIDE DEF G
  <2>. QED
    BY <1>1, <1>3, UpTo
<1>. QED
  BY <1>4

\* What piles up, one size for each path of a rising list.
Piled(n, P, sizes, offs, f) ==
  /\ Len(P) = n /\ P \in Seq(Path) /\ Once(P) /\ Rising(P) /\ Piling(offs, sizes, n)
  /\ \A k \in 1..n : sizes[k] \in Nat /\ f[P[k]] = sizes[k]

Summed(n, P, offs, f) ==
  /\ \A k \in 1..n : offs[k] = SumFunctionOnSet(f, Before(ToSet(P), P[k]))
  /\ IsFiniteSet(ToSet(P)) /\ Cardinality(ToSet(P)) = n

\* What piles up is the sum over the paths before.
LEMMA PilingSums ==
  ASSUME NEW n \in Nat, NEW P, NEW sizes, NEW offs, NEW f, Piled(n, P, sizes, offs, f)
  PROVE  Summed(n, P, offs, f)
<1>. USE DEF Piled
<1>. DEFINE First(k) == {P[i] : i \in 1..k}
<1>1. DOMAIN P = 1..n /\ \A k \in 1..n : P[k] \in Seq(Text)
  BY LenProperties, ElementOfSeq, PathIs
<1>2. ASSUME NEW k \in 1..n PROVE First(k) = First(k - 1) \union {P[k]} /\ P[k] \notin First(k - 1) /\ k - 1 \in 0..n
  <2>1. 1..k = (1..(k - 1)) \union {k} /\ k \notin 1..(k - 1) /\ 1..(k - 1) \subseteq 1..n
    OBVIOUS
  <2>2. First(k) = First(k - 1) \union {P[k]}
    BY <2>1, SMTT(60)
  <2>3. P[k] \notin First(k - 1)
    <3>. SUFFICES ASSUME NEW i \in 1..(k - 1), P[k] = P[i] PROVE FALSE
      OBVIOUS
    <3>1. i \in 1..n /\ i # k
      OBVIOUS
    <3>. QED
      BY <1>1, <3>1 DEF Once
  <2>. QED
    BY <2>2, <2>3
<1>3. First(0) = {}
  OBVIOUS
<1>. DEFINE G == {k \in 0..n : IsFiniteSet(First(k)) /\ Cardinality(First(k)) = k /\ SumFunctionOnSet(f, First(k)) = offs[k + 1]}
<1>4. 0 \in G
  <2>1. IsFiniteSet({}) /\ Cardinality({}) = 0 /\ SumFunctionOnSet(f, {}) = 0
    BY FS_EmptySet, SumOfNone
  <2>2. IsFiniteSet(First(0)) /\ Cardinality(First(0)) = 0 /\ SumFunctionOnSet(f, First(0)) = 0
    BY <1>3, <2>1, Zenon
  <2>. HIDE DEF First
  <2>. QED
    BY <2>2 DEF Piling
<1>5. ASSUME NEW k \in 1..n, k - 1 \in G PROVE k \in G
  <2>1. First(k) = First(k - 1) \union {P[k]} /\ P[k] \notin First(k - 1)
    BY <1>2
  <2>2. IsFiniteSet(First(k - 1)) /\ Cardinality(First(k - 1)) = k - 1 /\ SumFunctionOnSet(f, First(k - 1)) = offs[(k - 1) + 1]
    BY <1>5
  <2>3. (k - 1) + 1 = k /\ k \in 0..n
    OBVIOUS
  <2>4. \A y \in First(k - 1) \union {P[k]} : f[y] \in Nat
    <3>1. \A i \in 1..(k - 1) : i \in 1..n
      OBVIOUS
    <3>2. \A i \in 1..n : f[P[i]] \in Nat
      OBVIOUS
    <3>. QED
      BY <3>1, <3>2
  <2>. HIDE DEF First
  <2>a. /\ IsFiniteSet(First(k - 1) \union {P[k]}) /\ Cardinality(First(k - 1) \union {P[k]}) = Cardinality(First(k - 1)) + 1
        /\ SumFunctionOnSet(f, First(k - 1) \union {P[k]}) = SumFunctionOnSet(f, First(k - 1)) + f[P[k]]
    <3>. DEFINE T == First(k - 1)
                x == P[k]
    <3>1. IsFiniteSet(T) /\ x \notin T /\ \A y \in T \union {x} : f[y] \in Nat
      BY <2>1, <2>2, <2>4
    <3>. HIDE DEF T, x
    <3>2. SumFunctionOnSet(f, T \union {x}) = SumFunctionOnSet(f, T) + f[x]
      <4>1. Summable(f, T, x)
        BY <3>1 DEF Summable
      <4>2. Added(f, T, x)
        BY <4>1, SumAdded
      <4>. QED
        BY <4>2 DEF Added
    <3>3. IsFiniteSet(T \union {x}) /\ Cardinality(T \union {x}) = Cardinality(T) + 1
      BY <3>1, FS_AddElement
    <3>. QED
      BY <3>2, <3>3 DEF T, x
  <2>b. /\ IsFiniteSet(First(k)) /\ Cardinality(First(k)) = Cardinality(First(k - 1)) + 1
        /\ SumFunctionOnSet(f, First(k)) = SumFunctionOnSet(f, First(k - 1)) + f[P[k]]
    BY <2>1, <2>a, Zenon
  <2>5. IsFiniteSet(First(k)) /\ Cardinality(First(k)) = k
    BY <2>2, <2>b
  <2>6. SumFunctionOnSet(f, First(k)) = SumFunctionOnSet(f, First(k - 1)) + f[P[k]]
    BY <2>b
  <2>7. offs[k + 1] = offs[k] + sizes[k]
    BY DEF Piling
  <2>8. SumFunctionOnSet(f, First(k)) = offs[k + 1]
    BY <2>2, <2>3, <2>6, <2>7
  <2>. QED
    BY <2>3, <2>5, <2>8
<1>6. \A k \in 0..n : k \in G
  <2>1. \A k \in 1..n : k - 1 \in G => k \in G
    BY <1>5
  <2>. HIDE DEF G
  <2>. QED
    BY <1>4, <2>1, UpTo
<1>7. ASSUME NEW k \in 1..n PROVE First(k - 1) = Before(ToSet(P), P[k])
  <2>1. ASSUME NEW i \in 1..n PROVE PathLess(P[i], P[k]) <=> i < k
    <3>1. CASE i < k
      BY <1>1, <3>1 DEF Rising
    <3>2. CASE i = k
      BY <1>1, <3>2, PathsOrdered
    <3>3. CASE k < i
      <4>1. PathLess(P[k], P[i])
        BY <1>1, <3>3 DEF Rising
      <4>. QED
        BY <1>1, <3>3, <4>1, PathsOrdered
    <3>. QED
      BY <3>1, <3>2, <3>3
  <2>2. Before(ToSet(P), P[k]) = {q \in {P[i] : i \in 1..n} : PathLess(q, P[k])}
    BY <1>1 DEF Before, ToSet
  <2>3. ASSUME NEW q \in First(k - 1) PROVE q \in Before(ToSet(P), P[k])
    <3>1. PICK i \in 1..(k - 1) : q = P[i]
      OBVIOUS
    <3>2. i \in 1..n /\ i < k
      OBVIOUS
    <3>. QED
      BY <2>1, <2>2, <3>1, <3>2
  <2>4. ASSUME NEW q \in Before(ToSet(P), P[k]) PROVE q \in First(k - 1)
    <3>1. PICK i \in 1..n : q = P[i] /\ PathLess(P[i], P[k])
      BY <2>2
    <3>2. i \in 1..(k - 1)
      BY <2>1, <3>1
    <3>. QED
      BY <3>1, <3>2
  <2>. QED
    BY <2>3, <2>4
<1>8. ASSUME NEW k \in 1..n PROVE offs[k] = SumFunctionOnSet(f, Before(ToSet(P), P[k]))
  <2>1. k - 1 \in 0..n /\ (k - 1) + 1 = k
    OBVIOUS
  <2>2. SumFunctionOnSet(f, First(k - 1)) = offs[(k - 1) + 1]
    BY <1>6, <2>1
  <2>. HIDE DEF First
  <2>. QED
    BY <1>7, <2>1, <2>2
<1>9. First(n) = ToSet(P)
  BY <1>1 DEF ToSet
<1>10. n \in G
  <2>. HIDE DEF G
  <2>1. n \in 0..n
    OBVIOUS
  <2>. QED
    BY <1>6, <2>1
<1>. QED
  BY <1>8, <1>9, <1>10 DEF Summed

(***************************************************************************)
(* Hash tables                                                             *)
(***************************************************************************)
\* What bucket c holds after k entries: the last of them in it.
HeadIs(v, k, c, b, offs) ==
  \/ v = NO_ENTRY /\ \A j \in 1..k : b[j] # c
  \/ \E j \in 1..k : b[j] = c /\ v = offs[j] /\ \A i \in (j + 1)..k : b[i] # c

Hashed(h, n, b, offs, count) ==
  /\ DOMAIN h.table = 0..(count - 1) /\ \A c \in 0..(count - 1) : HeadIs(h.table[c], n, c, b, offs)
  /\ \A k \in 1..n : HeadIs(h.siblings[k], k - 1, b[k], b, offs)

LEMMA HeadStays ==
  ASSUME NEW v, NEW k \in Nat \ {0}, NEW c, NEW b, NEW offs, HeadIs(v, k - 1, c, b, offs), b[k] # c
  PROVE  HeadIs(v, k, c, b, offs)
<1>1. \A j \in 1..k : j \in 1..(k - 1) \/ j = k
  OBVIOUS
<1>2. CASE v = NO_ENTRY /\ \A j \in 1..(k - 1) : b[j] # c
  BY <1>1, <1>2 DEF HeadIs
<1>3. CASE \E j \in 1..(k - 1) : b[j] = c /\ v = offs[j] /\ \A i \in (j + 1)..(k - 1) : b[i] # c
  <2>1. PICK j \in 1..(k - 1) : b[j] = c /\ v = offs[j] /\ \A i \in (j + 1)..(k - 1) : b[i] # c
    BY <1>3
  <2>2. j \in 1..k /\ \A i \in (j + 1)..k : i \in (j + 1)..(k - 1) \/ i = k
    OBVIOUS
  <2>3. \A i \in (j + 1)..k : b[i] # c
    BY <2>1, <2>2
  <2>. QED
    BY <2>1, <2>2, <2>3 DEF HeadIs
<1>. QED
  BY <1>2, <1>3 DEF HeadIs

LEMMA HeadTaken ==
  ASSUME NEW k \in Nat \ {0}, NEW b, NEW offs
  PROVE  HeadIs(offs[k], k, b[k], b, offs)
<1>1. k \in 1..k /\ \A i \in (k + 1)..k : FALSE
  OBVIOUS
<1>. QED
  BY <1>1 DEF HeadIs

LEMMA HashTableIs ==
  ASSUME NEW n \in Nat, NEW entries, NEW offs, NEW dirOffs, Len(entries) = n, DOMAIN entries = 1..n,
         NEW b, b = [k \in 1..n |-> BucketOf(entries[k], dirOffs, HashTableCount(n))],
         \A k \in 1..n : b[k] \in 0..(HashTableCount(n) - 1)
  PROVE  Hashed(HashTable(entries, offs, dirOffs), n, b, offs, HashTableCount(n))
<1>. DEFINE count == HashTableCount(n)
            C == 0..(count - 1)
            V == {NO_ENTRY} \union {offs[i] : i \in 1..n}
            W == [C -> V]
            Good(f, k) == \A c \in C : HeadIs(f[c], k, c, b, offs)
            S == [k \in 0..n |-> {f \in W : Good(f, k)}]
            base == [c \in C |-> NO_ENTRY]
            Put(w, k) == [w EXCEPT ![b[k]] = offs[k]]
            step == [x \in (1..n) \X W |-> [x[2] EXCEPT ![b[x[1]]] = offs[x[1]]]]
            Rec(f) == f = [k \in 0..n |-> IF k = 0 THEN base
                                         ELSE [f[k - 1] EXCEPT ![BucketOf(entries[k], dirOffs, count)] = offs[k]]]
            heads == CHOOSE f : Rec(f)
            h == HashTable(entries, offs, dirOffs)
<1>. HIDE DEF count
<1>1. base \in S[0]
  <2>1. base \in W /\ 0 \in 0..n
    OBVIOUS
  <2>2. Good(base, 0)
    <3>1. \A j \in 1..0 : FALSE
      OBVIOUS
    <3>. QED
      BY <3>1 DEF HeadIs
  <2>. HIDE DEF Good, W, base
  <2>. QED
    BY <2>1, <2>2
<1>2. ASSUME NEW k \in 1..n, NEW w \in S[k - 1]
      PROVE  w \in W /\ step[<<k, w>>] = Put(w, k) /\ Put(w, k) \in S[k]
  <2>. DEFINE f == [w EXCEPT ![b[k]] = offs[k]]
  <2>1. k - 1 \in 0..n /\ k \in 0..n /\ k \in Nat \ {0} /\ b[k] \in C
    BY DEF count
  <2>2. w \in W /\ Good(w, k - 1)
    <3>. HIDE DEF W, Good
    <3>. QED
      BY <1>2, <2>1
  <2>3. step[<<k, w>>] = f
    <3>. HIDE DEF W
    <3>. QED
      BY <2>2
  <2>4. f \in W /\ f[b[k]] = offs[k] /\ \A c \in C : c # b[k] => f[c] = w[c]
    BY <2>1, <2>2
  <2>. HIDE DEF f
  <2>5. ASSUME NEW c \in C PROVE HeadIs(f[c], k, c, b, offs)
    <3>1. CASE c = b[k]
      BY <2>1, <2>4, <3>1, HeadTaken
    <3>2. CASE c # b[k]
      <4>1. f[c] = w[c] /\ HeadIs(w[c], k - 1, c, b, offs)
        BY <2>2, <2>4, <3>2
      <4>2. HeadIs(w[c], k, c, b, offs)
        BY <2>1, <3>2, <4>1, HeadStays
      <4>. QED
        BY <4>1, <4>2
    <3>. QED
      BY <3>1, <3>2
  <2>6. f \in S[k]
    <3>1. Good(f, k)
      BY <2>5
    <3>. HIDE DEF W, Good
    <3>. QED
      BY <2>1, <2>4, <3>1
  <2>. QED
    BY <2>2, <2>3, <2>6 DEF f
<1>3. Solvable(n, S, base, step)
  <2>1. \A k \in 1..n : \A w \in S[k - 1] : step[<<k, w>>] \in S[k]
    BY <1>2, ZenonT(60)
  <2>. HIDE DEF S, step, base, heads, h
  <2>. QED
    BY <1>1, <2>1, RecursionSolvable
<1>. HIDE DEF step
<1>4. PICK g : /\ g = [k \in 0..n |-> IF k = 0 THEN base ELSE step[<<k, g[k - 1]>>]]
               /\ \A k \in 0..n : g[k] \in S[k]
  <2>. HIDE DEF S, base
  <2>. QED
    BY <1>3 DEF Solvable
<1>. HIDE DEF S, base
<1>k. \A k \in 1..n : b[k] = BucketOf(entries[k], dirOffs, count)
  BY DEF count
<1>5. Rec(g)
  <2>1. ASSUME NEW k \in 0..n
        PROVE (IF k = 0 THEN base ELSE step[<<k, g[k - 1]>>])
              = IF k = 0 THEN base ELSE [g[k - 1] EXCEPT ![BucketOf(entries[k], dirOffs, count)] = offs[k]]
    <3>1. CASE k = 0
      BY <3>1
    <3>2. CASE k # 0
      <4>1. k \in 1..n /\ k - 1 \in 0..n
        BY <3>2
      <4>2. g[k - 1] \in S[k - 1]
        BY <1>4, <4>1
      <4>. QED
        BY <1>2, <1>k, <3>2, <4>1, <4>2, ZenonT(60)
    <3>. QED
      BY <3>1, <3>2
  <2>. QED
    BY <1>4, <2>1
<1>6. Rec(heads)
  <2>. HIDE DEF Rec
  <2>. QED
    BY <1>5
<1>7. h = [table |-> heads[n], siblings |-> [k \in 1..n |-> heads[k - 1][BucketOf(entries[k], dirOffs, count)]]]
  BY DEF HashTable, base, count
<1>. HIDE DEF heads, h
<1>8. \A k \in 0..n : heads[k] \in S[k]
  <2>. DEFINE G == {k \in 0..n : heads[k] \in S[k]}
  <2>1. 0 \in G
    BY <1>1, <1>6
  <2>2. ASSUME NEW k \in 1..n, k - 1 \in G PROVE k \in G
    <3>1. k \in 0..n /\ k # 0 /\ heads[k - 1] \in S[k - 1]
      BY <2>2
    <3>2. heads[k] = Put(heads[k - 1], k)
      BY <1>k, <1>6, <3>1, ZenonT(60)
    <3>. HIDE DEF W, Good, Rec, Put
    <3>3. heads[k] \in S[k]
      BY <1>2, <3>1, <3>2
    <3>. QED
      BY <3>1, <3>3
  <2>3. \A k \in 1..n : k - 1 \in G => k \in G
    BY <2>2
  <2>4. \A k \in 0..n : k \in G
    <3>. HIDE DEF G
    <3>. QED
      BY <2>1, <2>3, UpTo
  <2>. QED
    BY <2>4
<1>9. \A k \in 0..n : heads[k] \in W /\ Good(heads[k], k)
  <2>. SUFFICES ASSUME NEW k \in 0..n PROVE heads[k] \in W /\ Good(heads[k], k)
    OBVIOUS
  <2>1. heads[k] \in S[k]
    BY <1>8
  <2>. HIDE DEF W, Good
  <2>. QED
    BY <2>1 DEF S
<1>10. h.table = heads[n] /\ \A k \in 1..n : h.siblings[k] = heads[k - 1][b[k]]
  BY <1>k, <1>7
<1>11. n \in 0..n
  OBVIOUS
<1>12. DOMAIN h.table = C /\ \A c \in C : HeadIs(h.table[c], n, c, b, offs)
  BY <1>9, <1>10, <1>11
<1>13. ASSUME NEW k \in 1..n PROVE HeadIs(h.siblings[k], k - 1, b[k], b, offs)
  <2>1. k - 1 \in 0..n /\ b[k] \in C
    BY DEF count
  <2>. QED
    BY <1>9, <1>10, <2>1, SMTT(60)
<1>. QED
  BY <1>12, <1>13 DEF Hashed, h, count

\* The number of buckets.
LEMMA CountIs ==
  ASSUME NEW n \in Nat
  PROVE  HashTableCount(n) \in Nat \ {0}
<1>1. CASE n < 3
  BY <1>1 DEF HashTableCount
<1>2. CASE ~(n < 3) /\ n < 19
  BY <1>2 DEF HashTableCount
<1>3. CASE ~(n < 19)
  <2>. DEFINE P == 2 * 3 * 5 * 7 * 11 * 13 * 17
              S == {m \in n..(n + P) : \A p \in {2, 3, 5, 7, 11, 13, 17} : m % p # 0}
              q == n \div P
              r == n % P
  <2>0. P \in Nat /\ P > 2
    BY SMT
  <2>p. /\ P = (3 * 5 * 7 * 11 * 13 * 17) * 2 /\ P = (2 * 5 * 7 * 11 * 13 * 17) * 3 /\ P = (2 * 3 * 7 * 11 * 13 * 17) * 5
        /\ P = (2 * 3 * 5 * 11 * 13 * 17) * 7 /\ P = (2 * 3 * 5 * 7 * 13 * 17) * 11 /\ P = (2 * 3 * 5 * 7 * 11 * 17) * 13
        /\ P = (2 * 3 * 5 * 7 * 11 * 13) * 17
    BY SMT
  <2>7. HashTableCount(n) = Min(S)
    BY <1>3, SMT DEF HashTableCount
  <2>. HIDE DEF P
  <2>1. q \in Nat /\ r \in 0..(P - 1) /\ n = P * q + r
    <3>1. P \in Nat \ {0}
      BY <2>0
    <3>. QED
      BY <3>1, DivMod
  <2>. HIDE DEF q, r
  <2>2. ASSUME NEW c \in Nat PROVE \A p \in {2, 3, 5, 7, 11, 13, 17} : (P * c + 1) % p # 0
    <3>1. ASSUME NEW p \in Nat \ {0}, NEW d \in Nat, p # 1, P = d * p PROVE (P * c + 1) % p # 0
      <4>1. P * c + 1 = (d * c) * p + 1
        BY <3>1
      <4>2. d * c \in Nat /\ 1 \in 0..(p - 1)
        BY <3>1
      <4>3. ((d * c) * p + 1) % p = 1
        BY <4>2, DivModUnique
      <4>. QED
        BY <4>1, <4>3
    <3>3. (P * c + 1) % 2 # 0
      <4>. DEFINE d == 3 * 5 * 7 * 11 * 13 * 17
      <4>1. d \in Nat
        BY SMT
      <4>2. P = d * 2
        BY <2>p
      <4>. HIDE DEF d
      <4>. QED
        BY <3>1, <4>1, <4>2
    <3>4. (P * c + 1) % 3 # 0
      <4>. DEFINE d == 2 * 5 * 7 * 11 * 13 * 17
      <4>1. d \in Nat
        BY SMT
      <4>2. P = d * 3
        BY <2>p
      <4>. HIDE DEF d
      <4>. QED
        BY <3>1, <4>1, <4>2
    <3>5. (P * c + 1) % 5 # 0
      <4>. DEFINE d == 2 * 3 * 7 * 11 * 13 * 17
      <4>1. d \in Nat
        BY SMT
      <4>2. P = d * 5
        BY <2>p
      <4>. HIDE DEF d
      <4>. QED
        BY <3>1, <4>1, <4>2
    <3>6. (P * c + 1) % 7 # 0
      <4>. DEFINE d == 2 * 3 * 5 * 11 * 13 * 17
      <4>1. d \in Nat
        BY SMT
      <4>2. P = d * 7
        BY <2>p
      <4>. HIDE DEF d
      <4>. QED
        BY <3>1, <4>1, <4>2
    <3>7. (P * c + 1) % 11 # 0
      <4>. DEFINE d == 2 * 3 * 5 * 7 * 13 * 17
      <4>1. d \in Nat
        BY SMT
      <4>2. P = d * 11
        BY <2>p
      <4>. HIDE DEF d
      <4>. QED
        BY <3>1, <4>1, <4>2
    <3>8. (P * c + 1) % 13 # 0
      <4>. DEFINE d == 2 * 3 * 5 * 7 * 11 * 17
      <4>1. d \in Nat
        BY SMT
      <4>2. P = d * 13
        BY <2>p
      <4>. HIDE DEF d
      <4>. QED
        BY <3>1, <4>1, <4>2
    <3>9. (P * c + 1) % 17 # 0
      <4>. DEFINE d == 2 * 3 * 5 * 7 * 11 * 13
      <4>1. d \in Nat
        BY SMT
      <4>2. P = d * 17
        BY <2>p
      <4>. HIDE DEF d
      <4>. QED
        BY <3>1, <4>1, <4>2
    <3>. QED
      BY <3>3, <3>4, <3>5, <3>6, <3>7, <3>8, <3>9
  <2>3. \E c \in Nat : P * c + 1 \in n..(n + P)
    <3>1. CASE r =< 1
      <4>1. P * q + 1 \in n..(n + P)
        BY <2>0, <2>1, <3>1
      <4>. QED
        BY <2>1, <4>1
    <3>2. CASE ~(r =< 1)
      <4>1. P * (q + 1) + 1 \in n..(n + P) /\ q + 1 \in Nat
        BY <2>0, <2>1, <3>2
      <4>. QED
        BY <4>1
    <3>. QED
      BY <3>1, <3>2
  <2>5. S # {}
    <3>1. PICK c \in Nat : P * c + 1 \in n..(n + P)
      BY <2>3
    <3>2. P * c + 1 \in S
      BY <2>2, <3>1
    <3>. QED
      BY <3>2
  <2>6. S \in SUBSET Nat
    BY <2>0
  <2>8. \A m \in S : m >= n
    BY <2>0
  <2>. HIDE DEF S
  <2>9. Min(S) \in S
    BY <2>5, <2>6, MinIs
  <2>10. HashTableCount(n) >= n /\ HashTableCount(n) \in Nat
    BY <2>6, <2>7, <2>8, <2>9
  <2>. QED
    BY <1>3, <2>10
<1>. QED
  BY <1>1, <1>2, <1>3

(***************************************************************************)
(* Tables by index                                                         *)
(***************************************************************************)
\* Offsets that rise with the index.
Climbs(offs, n) ==
  /\ n \in Nat /\ \A k \in 1..n : offs[k] \in Nat
  /\ \A j, k \in 1..n : j < k => offs[j] < offs[k]

Lowest(j, J) == j \in J /\ \A i \in J : j =< i
Highest(j, J) == j \in J /\ \A i \in J : i =< j

LEMMA ClimbsOnce ==
  ASSUME NEW offs, NEW n, Climbs(offs, n), NEW j \in 1..n, NEW k \in 1..n
  PROVE  /\ offs[j] = offs[k] => j = k
         /\ j =< k => offs[j] =< offs[k]
<1>1. offs[j] \in Nat /\ offs[k] \in Nat /\ (j < k => offs[j] < offs[k]) /\ (k < j => offs[k] < offs[j])
  BY DEF Climbs
<1>. QED
  BY <1>1

LEMMA LowestOffset ==
  ASSUME NEW offs, NEW n, Climbs(offs, n), NEW J \in SUBSET (1..n), NEW j, Lowest(j, J)
  PROVE  Min({offs[i] : i \in J}) = offs[j]
<1>. DEFINE S == {offs[i] : i \in J}
<1>1. S \in SUBSET Nat /\ offs[j] \in S
  BY DEF Climbs, Lowest
<1>2. \A y \in S : offs[j] =< y
  BY ClimbsOnce DEF Lowest
<1>. HIDE DEF S
<1>3. Min(S) \in S /\ Min(S) =< offs[j]
  BY <1>1, MinIs
<1>4. offs[j] =< Min(S) /\ Min(S) \in Nat /\ offs[j] \in Nat
  BY <1>1, <1>2, <1>3
<1>5. Min(S) = offs[j]
  BY <1>3, <1>4
<1>. QED
  BY <1>5 DEF S

LEMMA HighestOffset ==
  ASSUME NEW offs, NEW n, Climbs(offs, n), NEW J \in SUBSET (1..n), NEW j, Highest(j, J)
  PROVE  Max({offs[i] : i \in J}) = offs[j]
<1>. DEFINE S == {offs[i] : i \in J}
<1>1. S \in SUBSET Nat /\ offs[j] \in S
  BY DEF Climbs, Highest
<1>2. \A y \in S : y =< offs[j]
  BY ClimbsOnce DEF Highest
<1>. HIDE DEF S
<1>3. Max(S) \in S /\ \A y \in S : Max(S) >= y
  BY <1>1, <1>2 DEF Max
<1>4. Max(S) >= offs[j] /\ Max(S) =< offs[j] /\ Max(S) \in Nat /\ offs[j] \in Nat
  BY <1>1, <1>2, <1>3
<1>5. Max(S) = offs[j]
  BY <1>4
<1>. QED
  BY <1>5 DEF S

\* The first of the entries of a directory.
LEMMA FirstIs ==
  ASSUME NEW offs, NEW P, NEW p, NEW x, Lists(x, P, p), Ascends(x)
  PROVE  \/ Within(P, p) = {} /\ FirstOf(x, offs) = NO_ENTRY
         \/ \E j : Lowest(j, Within(P, p)) /\ FirstOf(x, offs) = offs[j]
<1>. DEFINE l == Len(x)
<1>1. x \in Seq(Nat) /\ ToSet(x) = Within(P, p) /\ l \in Nat /\ DOMAIN x = 1..l /\ \A i \in 1..l : x[i] \in Nat
  BY LenProperties, ElementOfSeq DEF Lists
<1>2. CASE x = <<>>
  <2>1. ToSet(x) = {}
    BY <1>2 DEF ToSet
  <2>. QED
    BY <1>1, <1>2, <2>1 DEF FirstOf
<1>3. CASE x # <<>>
  <2>1. l # 0
    BY <1>1, <1>3, EmptySeq
  <2>. HIDE DEF l
  <2>2. 1 \in 1..l /\ \A i \in 1..l : i = 1 \/ 1 < i
    BY <1>1, <2>1
  <2>3. \A i \in 1..l : x[1] =< x[i]
    BY <1>1, <2>2, SMTT(60) DEF Ascends
  <2>4. Lowest(x[1], Within(P, p))
    BY <1>1, <2>2, <2>3 DEF Lowest, ToSet
  <2>. QED
    BY <1>3, <2>4 DEF FirstOf
<1>. QED
  BY <1>2, <1>3

\* The entries of the directory after the k-th entry of the table.
Later(P, p, k) == {j \in Within(P, p) : k \in Within(P, p) /\ k < j}

LEMMA SiblingIs ==
  ASSUME NEW offs, NEW n, Climbs(offs, n), NEW P, DOMAIN P = 1..n, NEW p, NEW x, Lists(x, P, p), Ascends(x),
         NEW k \in 1..n
  PROVE  \/ Later(P, p, k) = {} /\ FindSibling(x, offs, offs[k]) = NO_ENTRY
         \/ \E j : Lowest(j, Later(P, p, k)) /\ FindSibling(x, offs, offs[k]) = offs[j]
<1>. DEFINE l == Len(x)
            I == {i \in 1..l : offs[x[i]] = offs[k]}
            s == IF I # {} THEN Min(I) ELSE 0
            v == FindSibling(x, offs, offs[k])
<1>1. x \in Seq(Nat) /\ ToSet(x) = Within(P, p) /\ l \in Nat /\ DOMAIN x = 1..l /\ (\A i \in 1..l : x[i] \in Nat) /\ n \in Nat
  BY LenProperties, ElementOfSeq DEF Lists, Climbs
<1>2. \A i \in 1..l : x[i] \in 1..n /\ x[i] \in Within(P, p)
  BY <1>1 DEF ToSet, Within
<1>3. v = IF s \in 1..(l - 1) THEN offs[x[s + 1]] ELSE NO_ENTRY
  BY DEF FindSibling, SelectInSeq
<1>. HIDE DEF l, v
<1>4. \A i \in 1..l : i \in I <=> x[i] = k
  BY <1>2, ClimbsOnce, SMTT(60)
<1>5. CASE I = {}
  <2>1. k \notin Within(P, p)
    BY <1>1, <1>4, <1>5 DEF ToSet
  <2>2. s \notin 1..(l - 1)
    BY <1>1, <1>5
  <2>. QED
    BY <1>3, <2>1, <2>2 DEF Later, v
<1>6. CASE I # {}
  <2>1. I \in SUBSET Nat
    OBVIOUS
  <2>2. s \in I
    <3>. HIDE DEF I
    <3>. QED
      BY <1>6, <2>1, MinIs
  <2>3. s \in 1..l /\ x[s] = k
    <3>1. s \in 1..l
      BY <2>2
    <3>. HIDE DEF I, s
    <3>. QED
      BY <1>4, <2>2, <3>1
  <2>. HIDE DEF I, s
  <2>4. k \in Within(P, p)
    BY <1>2, <2>3
  <2>5. \A i \in 1..l : (i > s => k < x[i]) /\ (i < s => x[i] < k)
    BY <1>1, <2>3 DEF Ascends
  <2>6. \A j \in Later(P, p, k) : \E i \in 1..l : x[i] = j /\ i > s
    <3>. SUFFICES ASSUME NEW j \in Later(P, p, k) PROVE \E i \in 1..l : x[i] = j /\ i > s
      OBVIOUS
    <3>1. PICK i \in 1..l : x[i] = j
      BY <1>1 DEF Later, ToSet
    <3>2. k < j
      BY DEF Later
    <3>3. i > s
      BY <1>1, <2>3, <2>5, <3>1, <3>2
    <3>. QED
      BY <3>1, <3>3
  <2>7. CASE s \in 1..(l - 1)
    <3>1. s + 1 \in 1..l /\ s + 1 > s
      BY <1>1, <2>7
    <3>2. x[s + 1] \in Later(P, p, k)
      BY <1>2, <2>4, <2>5, <3>1 DEF Later
    <3>3. \A i \in 1..l : i > s => x[s + 1] =< x[i]
      <4>. SUFFICES ASSUME NEW i \in 1..l, i > s PROVE x[s + 1] =< x[i]
        OBVIOUS
      <4>1. i = s + 1 \/ s + 1 < i
        BY <2>3, <3>1
      <4>. QED
        BY <1>1, <3>1, <4>1 DEF Ascends
    <3>4. Lowest(x[s + 1], Later(P, p, k))
      BY <2>6, <3>2, <3>3 DEF Lowest
    <3>. QED
      BY <1>3, <2>7, <3>4 DEF v
  <2>8. CASE s \notin 1..(l - 1)
    <3>1. \A i \in 1..l : ~(i > s)
      BY <1>1, <2>3, <2>8
    <3>2. Later(P, p, k) = {}
      BY <2>6, <3>1
    <3>. QED
      BY <1>3, <2>8, <3>2 DEF v
  <2>. QED
    BY <2>7, <2>8
<1>. QED
  BY <1>5, <1>6

\* Every entry is at its offset.
Tabled(t, n, entries, offs) ==
  /\ DOMAIN t.entries = {offs[i] : i \in 1..n}
  /\ \A k \in 1..n : t.entries[offs[k]] = entries[k]
  /\ t.size = Last(offs)

LEMMA TableIs ==
  ASSUME NEW offs, NEW n, Climbs(offs, n), NEW entries, DOMAIN entries = 1..n
  PROVE  Tabled(TableOf(entries, offs), n, entries, offs)
<1>. DEFINE t == [o \in {offs[i] : i \in 1..n} |-> entries[CHOOSE i \in 1..n : offs[i] = o]]
<1>1. TableOf(entries, offs) = [size |-> Last(offs), entries |-> t]
  BY DEF TableOf
<1>2. ASSUME NEW k \in 1..n PROVE t[offs[k]] = entries[k]
  <2>. DEFINE j == CHOOSE i \in 1..n : offs[i] = offs[k]
  <2>1. j \in 1..n /\ offs[j] = offs[k]
    OBVIOUS
  <2>2. j = k
    <3>. HIDE DEF j
    <3>. QED
      BY <2>1, ClimbsOnce
  <2>3. t[offs[k]] = entries[j]
    OBVIOUS
  <2>. QED
    BY <2>2, <2>3
<1>. QED
  BY <1>1, <1>2, SMTT(60) DEF Tabled

(***************************************************************************)
(* The tables of the image                                                 *)
(***************************************************************************)
\* path_hash returns an unsigned number.
PathHashIsNumber == \A parent \in Nat, name \in Text : PathHash(parent, name) \in Nat

DirSizes == [i \in DOMAIN dirs |-> DirEntrySize(dirs[i].name)]
FileSizes == [i \in DOMAIN files |-> FileEntrySize(files[i].name)]
DOffs == EntryOffsets(DirSizes)
FOffs == EntryOffsets(FileSizes)
DBuckets == [k \in DOMAIN dirs |-> BucketOf(dirs[k], DOffs, HashTableCount(Len(dirs)))]
FBuckets == [k \in DOMAIN files |-> BucketOf(files[k], DOffs, HashTableCount(Len(files)))]
DirHashed == HashTable(dirs, DOffs, DOffs)
FileHashed == HashTable(files, FOffs, DOffs)

Built(D, F) == Holding(dirs, files, tree, D, F) /\ Arranged(D, F)

LEMMA BuiltIs ==
  ASSUME NEW D, NEW F, Built(D, F)
  PROVE  /\ Filed(dirs, files, D, F) /\ Rising(D) /\ Rising(F) /\ Listed(dirs)
         /\ Len(D) \in Nat \ {0} /\ DOMAIN D = 1..Len(D) /\ DOMAIN dirs = 1..Len(D) /\ Len(dirs) = Len(D)
         /\ Len(F) \in Nat /\ DOMAIN F = 1..Len(F) /\ DOMAIN files = 1..Len(F) /\ Len(files) = Len(F)
         /\ D \in Seq(Path) /\ F \in Seq(Path) /\ Once(D) /\ Once(F)
         /\ TreeDirs = ToSet(D) /\ TreeFiles = ToSet(F)
         /\ \A i \in 1..Len(D) : D[i] \in TreeDirs
         /\ \A i \in 1..Len(F) : F[i] \in TreeFiles /\ DataOf(F[i]) = files[i].data
<1>1. Filed(dirs, files, D, F) /\ Rising(D) /\ Rising(F) /\ Listed(dirs)
      /\ tree = [dirs |-> ToSet(D), files |-> Stored(F, files)]
  BY DEF Built, Holding, Arranged
<1>2. /\ Len(D) \in Nat \ {0} /\ DOMAIN D = 1..Len(D) /\ DOMAIN dirs = 1..Len(D) /\ Len(dirs) = Len(D)
      /\ Len(F) \in Nat /\ DOMAIN F = 1..Len(F) /\ DOMAIN files = 1..Len(F) /\ Len(files) = Len(F)
  BY <1>1, FiledIs
<1>3. D \in Seq(Path) /\ F \in Seq(Path) /\ Once(D) /\ Once(F)
  BY <1>1 DEF Filed
<1>4. TreeDirs = ToSet(D) /\ tree.files = Stored(F, files)
  BY <1>1 DEF TreeDirs
<1>5. TreeFiles = ToSet(F)
  <2>1. TreeFiles = {f.at : f \in Stored(F, files)}
    BY <1>4 DEF TreeFiles
  <2>2. ASSUME NEW f \in Stored(F, files) PROVE f.at \in ToSet(F)
    BY DEF Stored, ToSet
  <2>3. ASSUME NEW i \in DOMAIN F PROVE \E f \in Stored(F, files) : f.at = F[i]
    <3>1. [at |-> F[i], data |-> files[i].data] \in Stored(F, files)
      BY DEF Stored
    <3>. QED
      BY <3>1
  <2>. QED
    BY <2>1, <2>2, <2>3 DEF ToSet
<1>6. ASSUME NEW i \in 1..Len(F) PROVE DataOf(F[i]) = files[i].data
  <2>1. [at |-> F[i], data |-> files[i].data] \in Stored(F, files)
    BY <1>2 DEF Stored
  <2>2. \A f \in Stored(F, files) : f.at = F[i] => f.data = files[i].data
    <3>. SUFFICES ASSUME NEW j \in 1..Len(F), F[j] = F[i] PROVE files[j].data = files[i].data
      BY <1>2 DEF Stored
    <3>1. j = i
      BY <1>2, <1>3 DEF Once
    <3>. QED
      BY <3>1
  <2>. DEFINE g == CHOOSE f \in tree.files : f.at = F[i]
  <2>3. g \in Stored(F, files) /\ g.at = F[i]
    BY <1>4, <2>1
  <2>4. DataOf(F[i]) = g.data
    BY DEF DataOf
  <2>. QED
    BY <2>2, <2>3, <2>4
<1>7. \A i \in 1..Len(D) : D[i] \in TreeDirs
  BY <1>2, <1>4 DEF ToSet
<1>8. \A i \in 1..Len(F) : F[i] \in TreeFiles
  BY <1>2, <1>5 DEF ToSet
<1>. QED
  BY <1>1, <1>2, <1>3, <1>4, <1>5, <1>6, <1>7, <1>8

LEMMA DirOffsets ==
  ASSUME NEW D, NEW F, Built(D, F)
  PROVE  /\ Piling(DOffs, DirSizes, Len(D)) /\ Climbs(DOffs, Len(D)) /\ Last(DOffs) = DOffs[Len(D) + 1]
         /\ \A k \in 1..Len(D) : DirOffset(D[k]) = DOffs[k] /\ DOffs[k + 1] = DOffs[k] + DirEntrySize(BaseName(D[k]))
         /\ Cardinality(TreeDirs) = Len(D)
<1>. DEFINE n == Len(D)
            f == [q \in TreeDirs |-> DirEntrySize(BaseName(q))]
<1>1. /\ n \in Nat /\ DOMAIN D = 1..n /\ DOMAIN dirs = 1..n /\ D \in Seq(Path) /\ Once(D) /\ Rising(D)
      /\ TreeDirs = ToSet(D) /\ Filed(dirs, files, D, F) /\ \A k \in 1..n : D[k] \in TreeDirs
  BY BuiltIs
<1>2. ASSUME NEW k \in 1..n
      PROVE  DirSizes[k] = DirEntrySize(BaseName(D[k])) /\ DirSizes[k] \in Nat /\ DirSizes[k] # 0
  <2>1. DirIs(dirs[k], D, F, D[k]) /\ D[k] \in Path
    BY <1>1, FiledIs
  <2>2. dirs[k].name = BaseName(D[k]) /\ BaseName(D[k]) \in Text
    BY <2>1, PathIs DEF DirIs
  <2>3. Align(Len(BaseName(D[k])), 4) \in Nat
    BY <2>2, TextIs, Align4
  <2>. QED
    BY <1>1, <2>2, <2>3 DEF DirSizes, DirEntrySize, DIR_ENTRY_SIZE
<1>3. DirSizes \in [1..n -> Nat]
  BY <1>1, <1>2 DEF DirSizes
<1>4. Piling(DOffs, DirSizes, n) /\ Last(DOffs) = DOffs[n + 1]
  BY <1>1, <1>3, OffsetsPile DEF DOffs
<1>5. \A j, k \in 1..n : j < k => DOffs[j] < DOffs[k]
  BY <1>1, <1>2, <1>3, <1>4, PilingRises
<1>6. Climbs(DOffs, n)
  <2>1. \A k \in 1..n : k \in 1..(n + 1)
    OBVIOUS
  <2>. QED
    BY <1>1, <1>4, <1>5, <2>1 DEF Climbs, Piling
<1>7. \A k \in 1..n : f[D[k]] = DirSizes[k]
  BY <1>1, <1>2
<1>8. Len(D) = n /\ \A k \in 1..n : DirSizes[k] \in Nat
  BY <1>2
<1>9. /\ \A k \in 1..n : DOffs[k] = SumFunctionOnSet(f, Before(ToSet(D), D[k]))
      /\ Cardinality(ToSet(D)) = n
  <2>. HIDE DEF n, f
  <2>1. Piled(n, D, DirSizes, DOffs, f)
    BY <1>1, <1>4, <1>7, <1>8 DEF Piled
  <2>2. Summed(n, D, DOffs, f)
    BY <1>1, <2>1, PilingSums
  <2>. QED
    BY <2>2 DEF Summed
<1>10. \A k \in 1..n : DirOffset(D[k]) = DOffs[k]
  BY <1>1, <1>9 DEF DirOffset
<1>11. \A k \in 1..n : DOffs[k + 1] = DOffs[k] + DirEntrySize(BaseName(D[k]))
  BY <1>2, <1>4 DEF Piling
<1>. QED
  BY <1>1, <1>4, <1>6, <1>9, <1>10, <1>11

LEMMA FileOffsets ==
  ASSUME NEW D, NEW F, Built(D, F)
  PROVE  /\ Piling(FOffs, FileSizes, Len(F)) /\ Climbs(FOffs, Len(F)) /\ Last(FOffs) = FOffs[Len(F) + 1]
         /\ \A k \in 1..Len(F) : FileOffset(F[k]) = FOffs[k] /\ FOffs[k + 1] = FOffs[k] + FileEntrySize(Last(F[k]))
         /\ Cardinality(TreeFiles) = Len(F)
<1>. DEFINE n == Len(F)
            f == [q \in TreeFiles |-> FileEntrySize(BaseName(q))]
<1>1. /\ n \in Nat /\ DOMAIN F = 1..n /\ DOMAIN files = 1..n /\ F \in Seq(Path) /\ Once(F) /\ Rising(F)
      /\ TreeFiles = ToSet(F) /\ Filed(dirs, files, D, F) /\ \A k \in 1..n : F[k] \in TreeFiles
  BY BuiltIs
<1>2. ASSUME NEW k \in 1..n
      PROVE  FileSizes[k] = FileEntrySize(BaseName(F[k])) /\ BaseName(F[k]) = Last(F[k]) /\ FileSizes[k] \in Nat /\ FileSizes[k] # 0
  <2>1. FileIs(files[k], D, F[k]) /\ F[k] \in Path
    BY <1>1, FiledIs
  <2>2. files[k].name = BaseName(F[k]) /\ BaseName(F[k]) = Last(F[k]) /\ BaseName(F[k]) \in Text
    BY <2>1, PathIs DEF FileIs, BaseName
  <2>3. Align(Len(BaseName(F[k])), 4) \in Nat
    BY <2>2, TextIs, Align4
  <2>. QED
    BY <1>1, <2>2, <2>3 DEF FileSizes, FileEntrySize, FILE_ENTRY_SIZE
<1>3. FileSizes \in [1..n -> Nat]
  BY <1>1, <1>2 DEF FileSizes
<1>4. Piling(FOffs, FileSizes, n) /\ Last(FOffs) = FOffs[n + 1]
  BY <1>1, <1>3, OffsetsPile DEF FOffs
<1>5. \A j, k \in 1..n : j < k => FOffs[j] < FOffs[k]
  BY <1>1, <1>2, <1>3, <1>4, PilingRises
<1>6. Climbs(FOffs, n)
  <2>1. \A k \in 1..n : k \in 1..(n + 1)
    OBVIOUS
  <2>. QED
    BY <1>1, <1>4, <1>5, <2>1 DEF Climbs, Piling
<1>7. \A k \in 1..n : f[F[k]] = FileSizes[k]
  BY <1>1, <1>2
<1>8. Len(F) = n /\ \A k \in 1..n : FileSizes[k] \in Nat
  BY <1>2
<1>9. /\ \A k \in 1..n : FOffs[k] = SumFunctionOnSet(f, Before(ToSet(F), F[k]))
      /\ Cardinality(ToSet(F)) = n
  <2>. HIDE DEF n, f
  <2>1. Piled(n, F, FileSizes, FOffs, f)
    BY <1>1, <1>4, <1>7, <1>8 DEF Piled
  <2>2. Summed(n, F, FOffs, f)
    BY <1>1, <2>1, PilingSums
  <2>. QED
    BY <2>2 DEF Summed
<1>10. \A k \in 1..n : FileOffset(F[k]) = FOffs[k]
  BY <1>1, <1>9 DEF FileOffset
<1>11. \A k \in 1..n : FOffs[k + 1] = FOffs[k] + FileEntrySize(Last(F[k]))
  BY <1>2, <1>4 DEF Piling
<1>. QED
  BY <1>1, <1>4, <1>6, <1>9, <1>10, <1>11

\* An entry is in the bucket its parent's offset and its name hash to.
LEMMA DirBuckets ==
  ASSUME PathHashIsNumber, NEW D, NEW F, Built(D, F)
  PROVE  /\ HashTableCount(Len(D)) \in Nat \ {0}
         /\ \A k \in 1..Len(D) : DBuckets[k] = Bucket(TreeDirs, D[k]) /\ DBuckets[k] \in 0..(HashTableCount(Len(D)) - 1)
         /\ Hashed(DirHashed, Len(D), DBuckets, DOffs, HashTableCount(Len(D)))
<1>. DEFINE n == Len(D)
            count == HashTableCount(n)
<1>1. /\ n \in Nat /\ DOMAIN D = 1..n /\ DOMAIN dirs = 1..n /\ Len(dirs) = n /\ Filed(dirs, files, D, F)
  BY BuiltIs
<1>2. count \in Nat \ {0}
  BY <1>1, CountIs
<1>3. Cardinality(TreeDirs) = n /\ \A k \in 1..n : DirOffset(D[k]) = DOffs[k] /\ DOffs[k] \in Nat
  BY DirOffsets DEF Climbs
<1>. HIDE DEF n
<1>4. ASSUME NEW k \in 1..n PROVE DBuckets[k] = Bucket(TreeDirs, D[k]) /\ DBuckets[k] \in 0..(count - 1)
  <2>1. DirIs(dirs[k], D, F, D[k]) /\ D[k] \in Path
    BY <1>1, FiledIs
  <2>. DEFINE d == dirs[k]
  <2>2. d.parent \in 1..n /\ D[d.parent] = Parent(D[k]) /\ d.name = BaseName(D[k]) /\ BaseName(D[k]) \in Text
    BY <1>1, <2>1, PathIs DEF DirIs
  <2>. DEFINE h == PathHash(DOffs[d.parent], d.name)
  <2>3. DBuckets[k] = h % count
    BY <1>1 DEF DBuckets, BucketOf
  <2>. HIDE DEF d
  <2>4. DOffs[d.parent] = DirOffset(Parent(D[k])) /\ DOffs[d.parent] \in Nat
    BY <1>3, <2>2
  <2>5. h \in Nat
    BY <2>2, <2>4 DEF PathHashIsNumber
  <2>6. Bucket(TreeDirs, D[k]) = h % count
    BY <1>3, <2>2, <2>4 DEF Bucket
  <2>. HIDE DEF h, count
  <2>7. h % count \in 0..(count - 1)
    BY <1>2, <2>5, DivMod
  <2>. QED
    BY <2>3, <2>6, <2>7
<1>5. Hashed(DirHashed, n, DBuckets, DOffs, count)
  <2>1. DBuckets = [k \in 1..n |-> BucketOf(dirs[k], DOffs, HashTableCount(n))]
    BY <1>1 DEF DBuckets
  <2>. QED
    BY <1>1, <1>4, <2>1, HashTableIs DEF DirHashed
<1>. QED
  BY <1>2, <1>4, <1>5 DEF n

LEMMA FileBuckets ==
  ASSUME PathHashIsNumber, NEW D, NEW F, Built(D, F)
  PROVE  /\ HashTableCount(Len(F)) \in Nat \ {0}
         /\ \A k \in 1..Len(F) : FBuckets[k] = Bucket(TreeFiles, F[k]) /\ FBuckets[k] \in 0..(HashTableCount(Len(F)) - 1)
         /\ Hashed(FileHashed, Len(F), FBuckets, FOffs, HashTableCount(Len(F)))
<1>. DEFINE n == Len(F)
            count == HashTableCount(n)
<1>1. /\ n \in Nat /\ DOMAIN F = 1..n /\ DOMAIN files = 1..n /\ Len(files) = n /\ Filed(dirs, files, D, F)
      /\ DOMAIN D = 1..Len(D)
  BY BuiltIs
<1>2. count \in Nat \ {0}
  BY <1>1, CountIs
<1>3. Cardinality(TreeFiles) = n /\ \A k \in 1..Len(D) : DirOffset(D[k]) = DOffs[k] /\ DOffs[k] \in Nat
  BY DirOffsets, FileOffsets DEF Climbs
<1>. HIDE DEF n
<1>4. ASSUME NEW k \in 1..n PROVE FBuckets[k] = Bucket(TreeFiles, F[k]) /\ FBuckets[k] \in 0..(count - 1)
  <2>1. FileIs(files[k], D, F[k]) /\ F[k] \in Path
    BY <1>1, FiledIs DEF n
  <2>. DEFINE d == files[k]
  <2>2. d.parent \in 1..Len(D) /\ D[d.parent] = Parent(F[k]) /\ d.name = BaseName(F[k]) /\ BaseName(F[k]) \in Text
    BY <1>1, <2>1, PathIs DEF FileIs, Parent, BaseName
  <2>. DEFINE h == PathHash(DOffs[d.parent], d.name)
  <2>3. FBuckets[k] = h % count
    BY <1>1 DEF FBuckets, BucketOf
  <2>. HIDE DEF d
  <2>4. DOffs[d.parent] = DirOffset(Parent(F[k])) /\ DOffs[d.parent] \in Nat
    BY <1>3, <2>2
  <2>5. h \in Nat
    BY <2>2, <2>4 DEF PathHashIsNumber
  <2>6. Bucket(TreeFiles, F[k]) = h % count
    BY <1>3, <2>2, <2>4 DEF Bucket
  <2>. HIDE DEF h, count
  <2>7. h % count \in 0..(count - 1)
    BY <1>2, <2>5, DivMod
  <2>. QED
    BY <2>3, <2>6, <2>7
<1>5. Hashed(FileHashed, n, FBuckets, FOffs, count)
  <2>1. FBuckets = [k \in 1..n |-> BucketOf(files[k], DOffs, HashTableCount(n))]
    BY <1>1 DEF FBuckets
  <2>. QED
    BY <1>1, <1>4, <2>1, HashTableIs DEF FileHashed
<1>. QED
  BY <1>2, <1>4, <1>5 DEF n

(***************************************************************************)
(* The data region                                                         *)
(***************************************************************************)
\* Where the data of each file ends.
Ends(fls, n, ends) ==
  /\ ends \in [0..n -> Nat] /\ ends[0] = 0
  /\ \A k \in 1..n : ends[k] = Align(ends[k - 1], 16) + Len(fls[k].data)

\* The files whose data is laid out.
Loaded(fls, n) ==
  /\ n \in Nat /\ DOMAIN fls = 1..n /\ Len(fls) = n
  /\ \A k \in 1..n : fls[k].data \in Bytes /\ Len(fls[k].data) \in Nat

DataStarts(fls, n, ends) ==
  /\ \A k \in 1..n : DataOffsets(fls).starts[k] = Align(ends[k - 1], 16)
  /\ DataOffsets(fls).end = ends[n]

LEMMA EndsAre ==
  ASSUME NEW fls, NEW n, Loaded(fls, n)
  PROVE  \E ends : Ends(fls, n, ends) /\ DataStarts(fls, n, ends)
<1>. DEFINE S == [k \in 0..n |-> Nat]
            step == [x \in (1..n) \X Nat |-> Align(x[2], 16) + Len(fls[x[1]].data)]
            Rec(f) == f = [k \in 0..n |-> IF k = 0 THEN 0 ELSE Align(f[k - 1], 16) + Len(fls[k].data)]
            ends == CHOOSE f : Rec(f)
<1>1. n \in Nat /\ DOMAIN fls = 1..n /\ Len(fls) = n /\ \A k \in 1..n : Len(fls[k].data) \in Nat
  BY DEF Loaded
<1>2. ASSUME NEW k \in 1..n, NEW w \in Nat
      PROVE  step[<<k, w>>] = Align(w, 16) + Len(fls[k].data) /\ step[<<k, w>>] \in Nat /\ S[k] = Nat /\ S[k - 1] = Nat
  <2>1. Align(w, 16) \in Nat
    BY Align16, ZenonT(60)
  <2>2. k \in 0..n /\ k - 1 \in 0..n
    BY <1>1
  <2>. QED
    BY <1>1, <2>1, <2>2, SMTT(60)
<1>3. Solvable(n, S, 0, step)
  <2>1. 0 \in S[0]
    BY <1>1
  <2>2. \A k \in 1..n : \A w \in S[k - 1] : step[<<k, w>>] \in S[k]
    <3>. SUFFICES ASSUME NEW k \in 1..n, NEW w \in S[k - 1] PROVE step[<<k, w>>] \in S[k]
      OBVIOUS
    <3>1. S[k - 1] = Nat
      BY <1>1
    <3>. HIDE DEF S, step
    <3>. QED
      BY <1>2, <3>1
  <2>. HIDE DEF S, step
  <2>. QED
    BY <1>1, <2>1, <2>2, RecursionSolvable
<1>4. PICK g : /\ g = [k \in 0..n |-> IF k = 0 THEN 0 ELSE step[<<k, g[k - 1]>>]]
               /\ \A k \in 0..n : g[k] \in S[k]
  <2>. HIDE DEF S, step
  <2>. QED
    BY <1>3 DEF Solvable
<1>5. \A k \in 0..n : g[k] \in Nat
  BY <1>4
<1>6. Rec(g)
  <2>1. ASSUME NEW k \in 0..n
        PROVE (IF k = 0 THEN 0 ELSE step[<<k, g[k - 1]>>]) = IF k = 0 THEN 0 ELSE Align(g[k - 1], 16) + Len(fls[k].data)
    <3>1. CASE k = 0
      BY <3>1
    <3>2. CASE k # 0
      <4>1. k \in 1..n /\ g[k - 1] \in Nat
        BY <1>1, <1>5, <3>2
      <4>. HIDE DEF step
      <4>. QED
        BY <1>2, <3>2, <4>1
    <3>. QED
      BY <3>1, <3>2
  <2>. HIDE DEF step
  <2>. QED
    BY <1>4, <2>1
<1>7. Rec(ends)
  <2>. HIDE DEF Rec
  <2>. QED
    BY <1>6
<1>8. DataOffsets(fls) = [starts |-> [k \in 1..n |-> Align(ends[k - 1], 16)], end |-> ends[n]]
  BY <1>1 DEF DataOffsets
<1>. HIDE DEF ends
<1>9. ends[0] = 0 /\ \A k \in 1..n : ends[k] = Align(ends[k - 1], 16) + Len(fls[k].data)
  <2>1. 0 \in 0..n /\ \A k \in 1..n : k \in 0..n /\ k # 0
    BY <1>1
  <2>. QED
    BY <1>7, <2>1
<1>10. \A k \in 0..n : ends[k] \in Nat
  <2>. DEFINE G == {k \in 0..n : ends[k] \in Nat}
  <2>1. 0 \in G
    BY <1>1, <1>9
  <2>2. ASSUME NEW k \in 1..n, k - 1 \in G PROVE k \in G
    <3>1. ends[k - 1] \in Nat /\ k \in 0..n
      BY <2>2
    <3>2. Align(ends[k - 1], 16) \in Nat
      BY <3>1 DEF Align
    <3>3. ends[k] \in Nat
      BY <1>1, <1>9, <3>2, SMTT(60)
    <3>. QED
      BY <3>1, <3>3
  <2>3. \A k \in 1..n : k - 1 \in G => k \in G
    BY <2>2
  <2>4. \A k \in 0..n : k \in G
    <3>. HIDE DEF G
    <3>. QED
      BY <1>1, <2>1, <2>3, UpTo
  <2>. QED
    BY <2>4
<1>11. ends \in [0..n -> Nat]
  <2>1. ends = [k \in 0..n |-> ends[k]]
    BY <1>7
  <2>. QED
    BY <1>10, <2>1
<1>12. Ends(fls, n, ends)
  BY <1>9, <1>11 DEF Ends
<1>13. DataStarts(fls, n, ends)
  BY <1>8 DEF DataStarts
<1>. QED
  BY <1>12, <1>13

LEMMA PadToIs ==
  ASSUME NEW s \in Bytes, NEW m \in Nat, Len(s) =< m
  PROVE  PadTo(s, m) \in Bytes /\ Len(PadTo(s, m)) = m /\ LiesAt(PadTo(s, m), 0, s)
<1>. DEFINE B == 0..255
            t == [i \in 1..m |-> IF i =< Len(s) THEN s[i] ELSE 0]
<1>1. Len(s) \in Nat /\ \A i \in 1..Len(s) : s[i] \in B
  BY LenProperties, ElementOfSeq, SMTT(60) DEF Bytes
<1>2. t \in [1..m -> B]
  <2>1. \A i \in 1..m : (IF i =< Len(s) THEN s[i] ELSE 0) \in B
    BY <1>1
  <2>. HIDE DEF B
  <2>. QED
    BY <2>1
<1>3. t \in Seq(B) /\ Len(t) = m
  BY <1>2, ListIsSeq
<1>4. LiesAt(t, 0, s)
  <2>1. \A i \in 1..Len(s) : i \in 1..m /\ 0 + i = i
    BY <1>1
  <2>2. \A i \in 1..Len(s) : t[0 + i] = s[i]
    BY <1>1, <2>1
  <2>. HIDE DEF t
  <2>. QED
    BY <1>1, <1>3, <2>2 DEF LiesAt
<1>. QED
  BY <1>3, <1>4 DEF PadTo, Bytes

\* The first k files are in the buffer.
Buffered(w, k, fls, ends) ==
  /\ w \in Bytes /\ Len(w) = ends[k]
  /\ \A j \in 1..k : LiesAt(w, Align(ends[j - 1], 16), fls[j].data)

LEMMA BufferGrows ==
  ASSUME NEW fls, NEW n, Loaded(fls, n), NEW ends, Ends(fls, n, ends),
         NEW k \in 1..n, NEW w, Buffered(w, k - 1, fls, ends)
  PROVE  Buffered(PadTo(w, Align(FILEPARTITION_OFS + Len(w), 16) - FILEPARTITION_OFS) \o fls[k].data, k, fls, ends)
<1>. DEFINE e == ends[k - 1]
            a == Align(e, 16)
            p == PadTo(w, a)
            d == fls[k].data
            s == p \o d
<1>1. w \in Bytes /\ Len(w) = e /\ (\A j \in 1..(k - 1) : LiesAt(w, Align(ends[j - 1], 16), fls[j].data)) /\ e \in Nat
  <2>1. k - 1 \in 0..n
    BY DEF Loaded
  <2>. QED
    BY <2>1 DEF Buffered, Ends
<1>2. d \in Bytes /\ ends[k] = a + Len(d) /\ \A j \in 1..(k - 1) : fls[j].data \in Bytes
  <2>1. \A j \in 1..(k - 1) : j \in 1..n
    BY DEF Loaded
  <2>. QED
    BY <2>1 DEF Loaded, Ends
<1>3. a \in Nat /\ e =< a /\ Align(FILEPARTITION_OFS + Len(w), 16) - FILEPARTITION_OFS = a
  <2>1. Align(e, 16) \in Nat /\ e =< Align(e, 16) /\ Align(512 + e, 16) = 512 + Align(e, 16)
    <3>1. e \in Nat
      BY <1>1
    <3>. HIDE DEF e
    <3>. QED
      BY <3>1 DEF Align
  <2>. QED
    BY <1>1, <2>1 DEF FILEPARTITION_OFS
<1>. HIDE DEF e, a
<1>4. p \in Bytes /\ Len(p) = a /\ LiesAt(p, 0, w)
  BY <1>1, <1>3, PadToIs
<1>. HIDE DEF p, d
<1>5. s \in Bytes /\ Len(s) = a + Len(d) /\ LiesAt(s, 0, p) /\ LiesAt(s, a, d)
  BY <1>2, <1>4, LiesAppended, ZenonT(60) DEF Bytes
<1>. HIDE DEF s
<1>6. LiesAt(s, 0, w)
  BY <1>1, <1>4, <1>5, LiesInPrefix DEF Bytes
<1>7. ASSUME NEW j \in 1..k PROVE LiesAt(s, Align(ends[j - 1], 16), fls[j].data)
  <2>1. CASE j = k
    BY <1>5, <2>1 DEF a, e, d
  <2>2. CASE j # k
    <3>1. j \in 1..(k - 1)
      BY <2>2 DEF Loaded
    <3>2. LiesAt(w, Align(ends[j - 1], 16), fls[j].data) /\ fls[j].data \in Bytes
      BY <1>1, <1>2, <3>1
    <3>. QED
      BY <1>1, <1>5, <1>6, <3>2, LiesInPrefix DEF Bytes
  <2>. QED
    BY <2>1, <2>2
<1>8. Buffered(s, k, fls, ends)
  BY <1>2, <1>5, <1>7 DEF Buffered
<1>. QED
  BY <1>3, <1>8 DEF s, p, d

LEMMA FileDataIs ==
  ASSUME NEW fls, NEW n, Loaded(fls, n), NEW ends, Ends(fls, n, ends)
  PROVE  Buffered(FileData(fls), n, fls, ends)
<1>. DEFINE S == [k \in 0..n |-> {w \in Bytes : Buffered(w, k, fls, ends)}]
            Next1(w, k) == PadTo(w, Align(FILEPARTITION_OFS + Len(w), 16) - FILEPARTITION_OFS) \o fls[k].data
            step == [x \in (1..n) \X Bytes |-> Next1(x[2], x[1])]
            Rec(f) == f = [k \in 0..n |-> IF k = 0 THEN <<>>
                             ELSE PadTo(f[k - 1], Align(FILEPARTITION_OFS + Len(f[k - 1]), 16) - FILEPARTITION_OFS) \o fls[k].data]
            buf == CHOOSE f : Rec(f)
<1>1. n \in Nat /\ DOMAIN fls = 1..n /\ Len(fls) = n
  BY DEF Loaded
<1>2. <<>> \in S[0]
  <2>1. <<>> \in Bytes /\ Len(<<>>) = 0 /\ 0 \in 0..n /\ \A j \in 1..0 : FALSE
    BY <1>1, EmptySeq DEF Bytes
  <2>2. Buffered(<<>>, 0, fls, ends)
    BY <2>1 DEF Buffered, Ends
  <2>. QED
    BY <2>1, <2>2
<1>3. ASSUME NEW k \in 1..n, NEW w \in S[k - 1]
      PROVE  w \in Bytes /\ step[<<k, w>>] = Next1(w, k) /\ Next1(w, k) \in S[k]
  <2>1. w \in Bytes /\ Buffered(w, k - 1, fls, ends)
    <3>1. k - 1 \in 0..n
      BY <1>1
    <3>. QED
      BY <1>3, <3>1
  <2>2. Buffered(Next1(w, k), k, fls, ends)
    BY <2>1, BufferGrows
  <2>. HIDE DEF Next1
  <2>3. Next1(w, k) \in S[k]
    <3>1. k \in 0..n
      BY <1>1
    <3>2. Next1(w, k) \in Bytes
      BY <2>2 DEF Buffered
    <3>. QED
      BY <2>2, <3>1, <3>2
  <2>. QED
    BY <2>1, <2>3
<1>. HIDE DEF S, Next1
<1>4. Solvable(n, S, <<>>, step)
  <2>1. \A k \in 1..n : \A w \in S[k - 1] : step[<<k, w>>] \in S[k]
    BY <1>3
  <2>. HIDE DEF step
  <2>. QED
    BY <1>1, <1>2, <2>1, RecursionSolvable
<1>. HIDE DEF step
<1>5. PICK g : /\ g = [k \in 0..n |-> IF k = 0 THEN <<>> ELSE step[<<k, g[k - 1]>>]]
               /\ \A k \in 0..n : g[k] \in S[k]
  BY <1>4 DEF Solvable
<1>6. Rec(g)
  <2>1. ASSUME NEW k \in 0..n
        PROVE (IF k = 0 THEN <<>> ELSE step[<<k, g[k - 1]>>]) = IF k = 0 THEN <<>> ELSE Next1(g[k - 1], k)
    <3>1. CASE k = 0
      BY <3>1
    <3>2. CASE k # 0
      <4>1. k \in 1..n /\ k - 1 \in 0..n
        BY <1>1, <3>2
      <4>2. g[k - 1] \in S[k - 1]
        BY <1>5, <4>1
      <4>. QED
        BY <1>3, <3>2, <4>1, <4>2
    <3>. QED
      BY <3>1, <3>2
  <2>2. g = [k \in 0..n |-> IF k = 0 THEN <<>> ELSE Next1(g[k - 1], k)]
    BY <1>5, <2>1
  <2>. QED
    BY <2>2 DEF Next1
<1>7. Rec(buf)
  <2>. HIDE DEF Rec
  <2>. QED
    BY <1>6
<1>8. FileData(fls) = buf[n]
  BY <1>1 DEF FileData
<1>. HIDE DEF buf
<1>9. \A k \in 0..n : buf[k] \in S[k]
  <2>. DEFINE G == {k \in 0..n : buf[k] \in S[k]}
  <2>1. 0 \in G
    BY <1>1, <1>2, <1>7
  <2>2. ASSUME NEW k \in 1..n, k - 1 \in G PROVE k \in G
    <3>1. k \in 0..n /\ k # 0 /\ buf[k - 1] \in S[k - 1]
      BY <2>2, SMTT(60)
    <3>2. buf[k] = Next1(buf[k - 1], k)
      BY <1>7, <3>1 DEF Next1
    <3>. HIDE DEF Rec
    <3>3. buf[k] \in S[k]
      BY <1>3, <3>1, <3>2
    <3>. QED
      BY <3>1, <3>3
  <2>3. \A k \in 1..n : k - 1 \in G => k \in G
    BY <2>2
  <2>4. \A k \in 0..n : k \in G
    <3>. HIDE DEF G
    <3>. QED
      BY <1>1, <2>1, <2>3, UpTo
  <2>. QED
    BY <2>4
<1>10. buf[n] \in S[n] /\ n \in 0..n
  BY <1>1, <1>9
<1>11. Buffered(buf[n], n, fls, ends)
  BY <1>10 DEF S
<1>. QED
  BY <1>8, <1>11

(***************************************************************************)
(* The entries                                                             *)
(***************************************************************************)
LEMMA RisingIs ==
  ASSUME NEW n \in Nat, NEW P \in Seq(Path), Len(P) = n, Rising(P), NEW i \in 1..n, NEW k \in 1..n
  PROVE  PathLess(P[i], P[k]) <=> i < k
<1>1. DOMAIN P = 1..n /\ P[i] \in Seq(Text) /\ P[k] \in Seq(Text)
  BY LenProperties, ElementOfSeq, PathIs
<1>2. CASE i < k
  BY <1>1, <1>2 DEF Rising
<1>3. CASE i = k
  BY <1>1, <1>3, PathsOrdered
<1>4. CASE k < i
  <2>1. PathLess(P[k], P[i])
    BY <1>1, <1>4 DEF Rising
  <2>. QED
    BY <1>1, <1>4, <2>1, PathsOrdered
<1>. QED
  BY <1>2, <1>3, <1>4

\* The link to the first, or last, of the entries J.
LeastOffset(J, offs) == IF J = {} THEN NO_ENTRY ELSE Min({offs[j] : j \in J})
GreatestOffset(J, offs) == IF J = {} THEN NO_ENTRY ELSE Max({offs[j] : j \in J})

\* S are the paths of P with indices J.
Picked(S, P, J, n) == J \in SUBSET (1..n) /\ S = {P[j] : j \in J}

LEMMA DirLinks ==
  ASSUME NEW D, NEW F, Built(D, F), NEW S, NEW J, Picked(S, D, J, Len(D))
  PROVE  Least(S, DirOffset) = LeastOffset(J, DOffs) /\ Greatest(S, DirOffset) = GreatestOffset(J, DOffs)
<1>1. \A k \in 1..Len(D) : DirOffset(D[k]) = DOffs[k]
  BY DirOffsets
<1>2. J \in SUBSET (1..Len(D)) /\ S = {D[j] : j \in J}
  BY DEF Picked
<1>3. S = {} <=> J = {}
  BY <1>2
<1>4. {DirOffset(q) : q \in S} = {DOffs[j] : j \in J}
  BY <1>1, <1>2
<1>. QED
  BY <1>3, <1>4, Zenon DEF Least, Greatest, LeastOffset, GreatestOffset

LEMMA FileLinks ==
  ASSUME NEW D, NEW F, Built(D, F), NEW S, NEW J, Picked(S, F, J, Len(F))
  PROVE  Least(S, FileOffset) = LeastOffset(J, FOffs) /\ Greatest(S, FileOffset) = GreatestOffset(J, FOffs)
<1>1. \A k \in 1..Len(F) : FileOffset(F[k]) = FOffs[k]
  BY FileOffsets
<1>2. J \in SUBSET (1..Len(F)) /\ S = {F[j] : j \in J}
  BY DEF Picked
<1>3. S = {} <=> J = {}
  BY <1>2
<1>4. {FileOffset(q) : q \in S} = {FOffs[j] : j \in J}
  BY <1>1, <1>2
<1>. QED
  BY <1>3, <1>4, Zenon DEF Least, Greatest, LeastOffset, GreatestOffset

\* v is the offset of the first of the entries J, if there is one.
LeastIs(v, J, offs) == (J = {} /\ v = NO_ENTRY) \/ \E j : Lowest(j, J) /\ v = offs[j]

LEMMA LeastFound ==
  ASSUME NEW offs, NEW n, Climbs(offs, n), NEW J \in SUBSET (1..n), NEW v, LeastIs(v, J, offs)
  PROVE  v = LeastOffset(J, offs)
<1>1. CASE J = {} /\ v = NO_ENTRY
  BY <1>1 DEF LeastOffset
<1>2. CASE \E j : Lowest(j, J) /\ v = offs[j]
  <2>1. PICK j : Lowest(j, J) /\ v = offs[j]
    BY <1>2
  <2>2. Min({offs[i] : i \in J}) = offs[j]
    BY <2>1, LowestOffset
  <2>3. J # {}
    BY <2>1 DEF Lowest
  <2>. QED
    BY <2>1, <2>2, <2>3, Zenon DEF LeastOffset
<1>. QED
  BY <1>1, <1>2 DEF LeastIs

LEMMA HeadFound ==
  ASSUME NEW offs, NEW n, Climbs(offs, n), NEW b, NEW c, NEW k \in 0..n, NEW v, HeadIs(v, k, c, b, offs)
  PROVE  v = GreatestOffset({j \in 1..k : b[j] = c}, offs)
<1>. DEFINE J == {j \in 1..k : b[j] = c}
<1>1. J \in SUBSET (1..n)
  BY DEF Climbs
<1>2. CASE v = NO_ENTRY /\ \A j \in 1..k : b[j] # c
  <2>1. J = {}
    BY <1>2
  <2>. HIDE DEF J
  <2>2. v = GreatestOffset(J, offs)
    BY <1>2, <2>1 DEF GreatestOffset
  <2>. QED
    BY <2>2 DEF J
<1>3. CASE \E j \in 1..k : b[j] = c /\ v = offs[j] /\ \A i \in (j + 1)..k : b[i] # c
  <2>1. PICK j \in 1..k : b[j] = c /\ v = offs[j] /\ \A i \in (j + 1)..k : b[i] # c
    BY <1>3
  <2>2. \A i \in J : i =< j
    BY <2>1
  <2>3. Highest(j, J)
    BY <2>1, <2>2 DEF Highest
  <2>. HIDE DEF J
  <2>4. Max({offs[i] : i \in J}) = offs[j]
    BY <1>1, <2>3, HighestOffset
  <2>5. J # {}
    BY <2>3 DEF Highest
  <2>6. v = GreatestOffset(J, offs)
    BY <2>1, <2>4, <2>5, Zenon DEF GreatestOffset
  <2>. QED
    BY <2>6 DEF J
<1>. QED
  BY <1>2, <1>3 DEF HeadIs

DirEntryOf(i) ==
  [parent       |-> DOffs[dirs[i].parent],
   sibling      |-> FindSibling(dirs[dirs[i].parent].children, DOffs, DOffs[i]),
   child        |-> FirstOf(dirs[i].children, DOffs),
   file         |-> FirstOf(dirs[i].files, FOffs),
   hash_sibling |-> DirHashed.siblings[i],
   name         |-> dirs[i].name]

\* The entries with paths in S are those right inside p.
LEMMA InIs ==
  ASSUME NEW n \in Nat, NEW P, DOMAIN P = 1..n, NEW p
  PROVE  Picked(In(ToSet(P), p), P, Within(P, p), n)
BY DEF Picked, In, Within, ToSet

LEMMA DirEntryIs ==
  ASSUME PathHashIsNumber, NEW D, NEW F, Built(D, F), NEW k \in 1..Len(D)
  PROVE  DirEntryOf(k) = ExpectedDir(D[k])
<1>. DEFINE n == Len(D)
            p == D[k]
            d == dirs[k]
            up == dirs[d.parent]
<1>1. /\ n \in Nat /\ DOMAIN D = 1..n /\ DOMAIN dirs = 1..n /\ D \in Seq(Path) /\ Rising(D) /\ Listed(dirs)
      /\ TreeDirs = ToSet(D) /\ TreeFiles = ToSet(F) /\ Filed(dirs, files, D, F)
      /\ Len(F) \in Nat /\ DOMAIN F = 1..Len(F)
  BY BuiltIs
<1>2. Climbs(DOffs, n) /\ \A j \in 1..n : DirOffset(D[j]) = DOffs[j]
  BY DirOffsets
<1>3. Climbs(FOffs, Len(F))
  BY FileOffsets
<1>4. DirIs(d, D, F, p) /\ p \in Path
  BY <1>1, FiledIs
<1>5. d.parent \in 1..n /\ D[d.parent] = Parent(p) /\ d.name = BaseName(p) /\ Lists(d.children, D, p) /\ Lists(d.files, F, p)
  BY <1>1, <1>4 DEF DirIs
<1>6. Lists(up.children, D, Parent(p)) /\ Ascends(up.children) /\ Ascends(d.children) /\ Ascends(d.files)
  <2>1. DirIs(up, D, F, D[d.parent])
    BY <1>1, <1>5, FiledIs
  <2>2. Lists(up.children, D, D[d.parent])
    BY <2>1 DEF DirIs
  <2>. QED
    BY <1>1, <1>5, <2>2 DEF Listed
<1>. HIDE DEF d, up
<1>7. DOffs[d.parent] = DirOffset(Parent(p))
  BY <1>2, <1>5
<1>8. FirstOf(d.children, DOffs) = Least(In(TreeDirs, p), DirOffset)
  <2>1. Picked(In(TreeDirs, p), D, Within(D, p), n)
    <3>1. Picked(In(ToSet(D), p), D, Within(D, p), n)
      BY <1>1, InIs
    <3>. QED
      BY <1>1, <3>1
  <2>2. LeastIs(FirstOf(d.children, DOffs), Within(D, p), DOffs)
    BY <1>5, <1>6, FirstIs DEF LeastIs
  <2>3. Within(D, p) \in SUBSET (1..n)
    BY <1>1 DEF Within
  <2>. QED
    BY <1>2, <2>1, <2>2, <2>3, LeastFound, DirLinks
<1>9. FirstOf(d.files, FOffs) = Least(In(TreeFiles, p), FileOffset)
  <2>1. Picked(In(TreeFiles, p), F, Within(F, p), Len(F))
    <3>1. Picked(In(ToSet(F), p), F, Within(F, p), Len(F))
      BY <1>1, InIs
    <3>. QED
      BY <1>1, <3>1
  <2>2. LeastIs(FirstOf(d.files, FOffs), Within(F, p), FOffs)
    BY <1>5, <1>6, FirstIs DEF LeastIs
  <2>3. Within(F, p) \in SUBSET (1..Len(F))
    BY <1>1 DEF Within
  <2>. QED
    BY <1>3, <2>1, <2>2, <2>3, LeastFound, FileLinks
<1>10. FindSibling(up.children, DOffs, DOffs[k])
       = Least({q \in In(TreeDirs, Parent(p)) : p # <<>> /\ PathLess(p, q)}, DirOffset)
  <2>. DEFINE J == Later(D, Parent(p), k)
              S == {q \in In(TreeDirs, Parent(p)) : p # <<>> /\ PathLess(p, q)}
  <2>1. LeastIs(FindSibling(up.children, DOffs, DOffs[k]), J, DOffs)
    BY <1>1, <1>2, <1>6, SiblingIs DEF LeastIs
  <2>2. J \in SUBSET (1..n)
    BY <1>1 DEF Later, Within
  <2>3. Picked(S, D, J, n)
    <3>1. k \in Within(D, Parent(p)) <=> p # <<>>
      BY <1>1 DEF Within, Parent
    <3>2. \A j \in 1..n : PathLess(D[k], D[j]) <=> k < j
      BY <1>1, RisingIs
    <3>3. In(TreeDirs, Parent(p)) = {D[j] : j \in Within(D, Parent(p))}
      <4>1. Picked(In(ToSet(D), Parent(p)), D, Within(D, Parent(p)), n)
        BY <1>1, InIs
      <4>. QED
        BY <1>1, <4>1 DEF Picked
    <3>4. Within(D, Parent(p)) \subseteq 1..n
      BY <1>1 DEF Within
    <3>5. ASSUME NEW q \in S PROVE \E j \in J : q = D[j]
      <4>1. q \in In(TreeDirs, Parent(p)) /\ p # <<>> /\ PathLess(p, q)
        OBVIOUS
      <4>2. PICK j \in Within(D, Parent(p)) : q = D[j]
        BY <3>3, <4>1
      <4>3. k < j
        BY <3>2, <3>4, <4>1, <4>2
      <4>. QED
        BY <3>1, <4>1, <4>2, <4>3 DEF Later
    <3>6. ASSUME NEW j \in J PROVE D[j] \in S
      <4>1. j \in Within(D, Parent(p)) /\ p # <<>> /\ k < j
        BY <3>1 DEF Later
      <4>2. D[j] \in In(TreeDirs, Parent(p)) /\ PathLess(D[k], D[j])
        BY <3>2, <3>3, <3>4, <4>1
      <4>. QED
        BY <4>1, <4>2
    <3>. HIDE DEF S, J
    <3>7. S = {D[j] : j \in J}
      BY <3>5, <3>6
    <3>. QED
      BY <2>2, <3>7 DEF Picked
  <2>. HIDE DEF S, J
  <2>4. Least(S, DirOffset) = LeastOffset(J, DOffs)
    BY <2>3, DirLinks
  <2>5. FindSibling(up.children, DOffs, DOffs[k]) = LeastOffset(J, DOffs)
    BY <1>2, <2>1, <2>2, LeastFound
  <2>6. FindSibling(up.children, DOffs, DOffs[k]) = Least(S, DirOffset)
    BY <2>4, <2>5
  <2>. QED
    BY <2>6 DEF S
<1>11. DirHashed.siblings[k]
       = Greatest({q \in Before(TreeDirs, p) : Bucket(TreeDirs, q) = Bucket(TreeDirs, p)}, DirOffset)
  <2>. DEFINE J == {j \in 1..(k - 1) : DBuckets[j] = DBuckets[k]}
              S == {q \in Before(TreeDirs, p) : Bucket(TreeDirs, q) = Bucket(TreeDirs, p)}
  <2>1. \A j \in 1..n : DBuckets[j] = Bucket(TreeDirs, D[j])
    BY DirBuckets
  <2>2. HeadIs(DirHashed.siblings[k], k - 1, DBuckets[k], DBuckets, DOffs)
    BY DirBuckets DEF Hashed
  <2>3. k - 1 \in 0..n /\ J \in SUBSET (1..n)
    BY <1>1
  <2>4. DirHashed.siblings[k] = GreatestOffset(J, DOffs)
    BY <1>2, <2>2, <2>3, HeadFound
  <2>5. Picked(S, D, J, n)
    <3>1. \A j \in 1..n : PathLess(D[j], D[k]) <=> j < k
      BY <1>1, RisingIs
    <3>2. ASSUME NEW q \in S PROVE \E j \in J : q = D[j]
      <4>1. q \in ToSet(D) /\ PathLess(q, D[k]) /\ Bucket(TreeDirs, q) = Bucket(TreeDirs, D[k])
        BY <1>1 DEF Before
      <4>2. PICK j \in 1..n : q = D[j]
        BY <1>1, <4>1 DEF ToSet
      <4>3. j < k
        BY <3>1, <4>1, <4>2
      <4>. QED
        BY <2>1, <4>1, <4>2, <4>3
    <3>3. ASSUME NEW j \in J PROVE D[j] \in S
      <4>1. j \in 1..n /\ j < k /\ DBuckets[j] = DBuckets[k]
        BY <1>1
      <4>2. D[j] \in TreeDirs /\ PathLess(D[j], D[k]) /\ Bucket(TreeDirs, D[j]) = Bucket(TreeDirs, D[k])
        BY <1>1, <2>1, <3>1, <4>1 DEF ToSet
      <4>. QED
        BY <4>2 DEF Before
    <3>. HIDE DEF S, J
    <3>4. S = {D[j] : j \in J}
      BY <3>2, <3>3
    <3>. QED
      BY <2>3, <3>4 DEF Picked
  <2>. HIDE DEF S, J
  <2>6. Greatest(S, DirOffset) = GreatestOffset(J, DOffs)
    BY <2>5, DirLinks
  <2>7. DirHashed.siblings[k] = Greatest(S, DirOffset)
    BY <2>4, <2>6
  <2>. QED
    BY <2>7 DEF S
<1>. QED
  BY <1>5, <1>7, <1>8, <1>9, <1>10, <1>11, Zenon DEF DirEntryOf, ExpectedDir, d, up

LEMMA FilesLoaded ==
  ASSUME NEW D, NEW F, Built(D, F)
  PROVE  Loaded(files, Len(F))
<1>1. /\ Filed(dirs, files, D, F) /\ Len(F) \in Nat /\ DOMAIN files = 1..Len(F) /\ Len(files) = Len(F)
  BY BuiltIs
<1>2. ASSUME NEW k \in 1..Len(F) PROVE files[k].data \in Bytes /\ Len(files[k].data) \in Nat
  <2>1. files[k] \in FileRec
    BY <1>1, FiledIs
  <2>2. files[k].data \in Bytes
    BY <2>1 DEF FileRec
  <2>. QED
    BY <2>2, LenProperties DEF Bytes
<1>. QED
  BY <1>1, <1>2 DEF Loaded

\* The tree's offsets of the data.
LEMMA DataSums ==
  ASSUME NEW D, NEW F, Built(D, F), NEW ends, Ends(files, Len(F), ends)
  PROVE  \A k \in 1..Len(F) : DataOffset(F[k]) = Align(ends[k - 1], 16)
<1>. DEFINE n == Len(F)
            f == [q \in TreeFiles |-> Align(Len(DataOf(q)), 16)]
            sizes == [k \in 1..n |-> Align(Len(files[k].data), 16)]
            offs == [k \in 1..(n + 1) |-> Align(ends[k - 1], 16)]
<1>1. /\ n \in Nat /\ DOMAIN F = 1..n /\ F \in Seq(Path) /\ Once(F) /\ Rising(F) /\ TreeFiles = ToSet(F)
      /\ \A k \in 1..n : F[k] \in TreeFiles /\ DataOf(F[k]) = files[k].data
  BY BuiltIs
<1>2. \A k \in 1..n : Len(files[k].data) \in Nat
  BY FilesLoaded DEF Loaded
<1>3. \A k \in 1..n : sizes[k] \in Nat /\ f[F[k]] = sizes[k]
  <2>. SUFFICES ASSUME NEW k \in 1..n PROVE sizes[k] \in Nat /\ f[F[k]] = sizes[k]
    OBVIOUS
  <2>1. f[F[k]] = Align(Len(files[k].data), 16)
    BY <1>1
  <2>2. Align(Len(files[k].data), 16) \in Nat
    BY <1>2, Align16, ZenonT(60)
  <2>. QED
    BY <2>1, <2>2
<1>4. ends[0] = 0 /\ (\A k \in 0..n : ends[k] \in Nat) /\ \A k \in 1..n : ends[k] = Align(ends[k - 1], 16) + Len(files[k].data)
  BY DEF Ends
<1>5. Piling(offs, sizes, n)
  <2>1. \A k \in 1..(n + 1) : k - 1 \in 0..n /\ Align(ends[k - 1], 16) \in Nat
    <3>. SUFFICES ASSUME NEW k \in 1..(n + 1) PROVE k - 1 \in 0..n /\ Align(ends[k - 1], 16) \in Nat
      OBVIOUS
    <3>1. k - 1 \in 0..n
      BY <1>1
    <3>2. ends[k - 1] \in Nat
      BY <1>4, <3>1
    <3>. QED
      BY <3>1, <3>2, Align16, ZenonT(60)
  <2>2. offs \in [1..(n + 1) -> Nat]
    BY <2>1
  <2>3. offs[1] = 0
    BY <1>1, <1>4 DEF Align
  <2>4. ASSUME NEW k \in 1..n PROVE offs[k + 1] = offs[k] + sizes[k]
    <3>1. k \in 1..(n + 1) /\ k + 1 \in 1..(n + 1) /\ (k + 1) - 1 = k
      BY <1>1
    <3>2. offs[k + 1] = Align(ends[k], 16) /\ offs[k] = Align(ends[k - 1], 16) /\ sizes[k] = Align(Len(files[k].data), 16)
      BY <3>1
    <3>. DEFINE e == ends[k - 1]
                l == Len(files[k].data)
    <3>3. e \in Nat /\ l \in Nat
      BY <1>2, <1>4
    <3>. HIDE DEF e, l
    <3>4. Align(Align(e, 16) + l, 16) = Align(e, 16) + Align(l, 16)
      BY <3>3 DEF Align
    <3>. QED
      BY <1>4, <3>2, <3>4 DEF e, l
  <2>. HIDE DEF offs, sizes
  <2>. QED
    BY <2>2, <2>3, <2>4 DEF Piling
<1>6. \A k \in 1..n : offs[k] = Align(ends[k - 1], 16) /\ offs[k] = SumFunctionOnSet(f, Before(TreeFiles, F[k]))
  <2>1. \A k \in 1..n : offs[k] = Align(ends[k - 1], 16)
    BY <1>1
  <2>2. Len(F) = n
    OBVIOUS
  <2>. HIDE DEF n, f, offs, sizes
  <2>3. Piled(n, F, sizes, offs, f)
    BY <1>1, <1>3, <1>5, <2>2 DEF Piled
  <2>4. Summed(n, F, offs, f)
    BY <1>1, <2>3, PilingSums
  <2>. QED
    BY <1>1, <2>1, <2>4 DEF Summed
<1>. QED
  BY <1>6 DEF DataOffset

FileEntryOf(i) ==
  [parent       |-> DOffs[files[i].parent],
   sibling      |-> FindSibling(dirs[files[i].parent].files, FOffs, FOffs[i]),
   data_offset  |-> DataOffsets(files).starts[i],
   data_size    |-> Len(files[i].data),
   hash_sibling |-> FileHashed.siblings[i],
   name         |-> files[i].name]

LEMMA FileEntryIs ==
  ASSUME PathHashIsNumber, NEW D, NEW F, Built(D, F), NEW k \in 1..Len(F)
  PROVE  FileEntryOf(k) = ExpectedFile(F[k])
<1>. DEFINE n == Len(F)
            p == F[k]
            d == files[k]
            up == dirs[d.parent]
<1>1. /\ n \in Nat /\ DOMAIN F = 1..n /\ DOMAIN files = 1..n /\ F \in Seq(Path) /\ Rising(F) /\ Listed(dirs)
      /\ TreeDirs = ToSet(D) /\ TreeFiles = ToSet(F) /\ Filed(dirs, files, D, F) /\ DataOf(p) = d.data
      /\ Len(D) \in Nat /\ DOMAIN D = 1..Len(D) /\ DOMAIN dirs = 1..Len(D)
  BY BuiltIs
<1>2. Climbs(FOffs, n) /\ \A j \in 1..n : FileOffset(F[j]) = FOffs[j]
  BY FileOffsets
<1>3. \A j \in 1..Len(D) : DirOffset(D[j]) = DOffs[j]
  BY DirOffsets
<1>4. FileIs(d, D, p) /\ p \in Path
  BY <1>1, FiledIs
<1>5. d.parent \in 1..Len(D) /\ p # <<>> /\ D[d.parent] = Parent(p) /\ d.name = Last(p)
  BY <1>1, <1>4 DEF FileIs, Parent
<1>6. Lists(up.files, F, Parent(p)) /\ Ascends(up.files)
  <2>1. DirIs(up, D, F, D[d.parent])
    BY <1>1, <1>5, FiledIs
  <2>2. Lists(up.files, F, D[d.parent])
    BY <2>1 DEF DirIs
  <2>. QED
    BY <1>1, <1>5, <2>2 DEF Listed
<1>. HIDE DEF d, up
<1>7. DOffs[d.parent] = DirOffset(Parent(p))
  BY <1>3, <1>5
<1>8. DataOffsets(files).starts[k] = DataOffset(p)
  <2>1. PICK ends : Ends(files, n, ends) /\ DataStarts(files, n, ends)
    BY FilesLoaded, EndsAre
  <2>. QED
    BY <2>1, DataSums DEF DataStarts
<1>10. FindSibling(up.files, FOffs, FOffs[k])
       = Least({q \in In(TreeFiles, Parent(p)) : PathLess(p, q)}, FileOffset)
  <2>. DEFINE J == Later(F, Parent(p), k)
              S == {q \in In(TreeFiles, Parent(p)) : PathLess(p, q)}
  <2>1. LeastIs(FindSibling(up.files, FOffs, FOffs[k]), J, FOffs)
    BY <1>1, <1>2, <1>6, SiblingIs DEF LeastIs
  <2>2. J \in SUBSET (1..n)
    BY <1>1 DEF Later, Within
  <2>3. Picked(S, F, J, n)
    <3>1. k \in Within(F, Parent(p))
      BY <1>1, <1>5 DEF Within, Parent
    <3>2. \A j \in 1..n : PathLess(F[k], F[j]) <=> k < j
      BY <1>1, RisingIs
    <3>3. In(TreeFiles, Parent(p)) = {F[j] : j \in Within(F, Parent(p))}
      <4>1. Picked(In(ToSet(F), Parent(p)), F, Within(F, Parent(p)), n)
        BY <1>1, InIs
      <4>. QED
        BY <1>1, <4>1 DEF Picked
    <3>4. Within(F, Parent(p)) \subseteq 1..n
      BY <1>1 DEF Within
    <3>5. ASSUME NEW q \in S PROVE \E j \in J : q = F[j]
      <4>1. q \in In(TreeFiles, Parent(p)) /\ PathLess(p, q)
        OBVIOUS
      <4>2. PICK j \in Within(F, Parent(p)) : q = F[j]
        BY <3>3, <4>1
      <4>3. k < j
        BY <3>2, <3>4, <4>1, <4>2
      <4>. QED
        BY <3>1, <4>1, <4>2, <4>3 DEF Later
    <3>6. ASSUME NEW j \in J PROVE F[j] \in S
      <4>1. j \in Within(F, Parent(p)) /\ k < j
        BY <3>1 DEF Later
      <4>2. F[j] \in In(TreeFiles, Parent(p)) /\ PathLess(F[k], F[j])
        BY <3>2, <3>3, <3>4, <4>1
      <4>. QED
        BY <4>1, <4>2
    <3>. HIDE DEF S, J
    <3>7. S = {F[j] : j \in J}
      BY <3>5, <3>6
    <3>. QED
      BY <2>2, <3>7 DEF Picked
  <2>. HIDE DEF S, J
  <2>4. Least(S, FileOffset) = LeastOffset(J, FOffs)
    BY <2>3, FileLinks
  <2>5. FindSibling(up.files, FOffs, FOffs[k]) = LeastOffset(J, FOffs)
    BY <1>2, <2>1, <2>2, LeastFound
  <2>6. FindSibling(up.files, FOffs, FOffs[k]) = Least(S, FileOffset)
    BY <2>4, <2>5
  <2>. QED
    BY <2>6 DEF S
<1>11. FileHashed.siblings[k]
       = Greatest({q \in Before(TreeFiles, p) : Bucket(TreeFiles, q) = Bucket(TreeFiles, p)}, FileOffset)
  <2>. DEFINE J == {j \in 1..(k - 1) : FBuckets[j] = FBuckets[k]}
              S == {q \in Before(TreeFiles, p) : Bucket(TreeFiles, q) = Bucket(TreeFiles, p)}
  <2>1. \A j \in 1..n : FBuckets[j] = Bucket(TreeFiles, F[j])
    BY FileBuckets
  <2>2. HeadIs(FileHashed.siblings[k], k - 1, FBuckets[k], FBuckets, FOffs)
    BY FileBuckets DEF Hashed
  <2>3. k - 1 \in 0..n /\ J \in SUBSET (1..n)
    BY <1>1
  <2>4. FileHashed.siblings[k] = GreatestOffset(J, FOffs)
    BY <1>2, <2>2, <2>3, HeadFound
  <2>5. Picked(S, F, J, n)
    <3>1. \A j \in 1..n : PathLess(F[j], F[k]) <=> j < k
      BY <1>1, RisingIs
    <3>2. ASSUME NEW q \in S PROVE \E j \in J : q = F[j]
      <4>1. q \in ToSet(F) /\ PathLess(q, F[k]) /\ Bucket(TreeFiles, q) = Bucket(TreeFiles, F[k])
        BY <1>1 DEF Before
      <4>2. PICK j \in 1..n : q = F[j]
        BY <1>1, <4>1 DEF ToSet
      <4>3. j < k
        BY <3>1, <4>1, <4>2
      <4>. QED
        BY <2>1, <4>1, <4>2, <4>3
    <3>3. ASSUME NEW j \in J PROVE F[j] \in S
      <4>1. j \in 1..n /\ j < k /\ FBuckets[j] = FBuckets[k]
        BY <1>1
      <4>2. F[j] \in TreeFiles /\ PathLess(F[j], F[k]) /\ Bucket(TreeFiles, F[j]) = Bucket(TreeFiles, F[k])
        BY <1>1, <2>1, <3>1, <4>1 DEF ToSet
      <4>. QED
        BY <4>2 DEF Before
    <3>. HIDE DEF S, J
    <3>4. S = {F[j] : j \in J}
      BY <3>2, <3>3
    <3>. QED
      BY <2>3, <3>4 DEF Picked
  <2>. HIDE DEF S, J
  <2>6. Greatest(S, FileOffset) = GreatestOffset(J, FOffs)
    BY <2>5, FileLinks
  <2>7. FileHashed.siblings[k] = Greatest(S, FileOffset)
    BY <2>4, <2>6
  <2>. QED
    BY <2>7 DEF S
<1>. QED
  BY <1>1, <1>5, <1>7, <1>8, <1>10, <1>11, Zenon DEF FileEntryOf, ExpectedFile, d, up

DirEntries == [i \in DOMAIN dirs |-> DirEntryOf(i)]
FileEntries == [i \in DOMAIN files |-> FileEntryOf(i)]

\* What build put together.
LEMMA ImageParts ==
  ASSUME NEW D, NEW F, Built(D, F)
  PROVE  /\ image.dir_meta = TableOf(DirEntries, DOffs) /\ image.file_meta = TableOf(FileEntries, FOffs)
         /\ image.dir_hash = DirHashed.table /\ image.file_hash = FileHashed.table
         /\ image.data = FileData(files)
         /\ image.tables = Align(FILEPARTITION_OFS + Len(image.data), 4)
         /\ image.len = image.tables + 4 * Cardinality(DOMAIN image.dir_hash) + image.dir_meta.size
                        + 4 * Cardinality(DOMAIN image.file_hash) + image.file_meta.size
         /\ image.header = WriteHeader([dir_hash  |-> 4 * Cardinality(DOMAIN image.dir_hash),
                                        dir_meta  |-> image.dir_meta.size,
                                        file_hash |-> 4 * Cardinality(DOMAIN image.file_hash),
                                        file_meta |-> image.file_meta.size], DataOffsets(files).end)
<1>. DEFINE b == [dirs |-> dirs, files |-> files]
<1>1. b.dirs = dirs /\ b.files = files
  OBVIOUS
<1>2. image = ImageOf(b)
  BY DEF Built, Arranged
<1>. HIDE DEF b
<1>3. DirTable(b, DOffs, FOffs, DirHashed) = TableOf(DirEntries, DOffs)
  BY <1>1 DEF DirTable, DirEntries, DirEntryOf
<1>4. FileTable(b, DOffs, FOffs, FileHashed) = TableOf(FileEntries, FOffs)
  BY <1>1 DEF FileTable, FileEntries, FileEntryOf
<1>. DEFINE dm == DirTable(b, DOffs, FOffs, DirHashed)
            fm == FileTable(b, DOffs, FOffs, FileHashed)
            sizes == [dir_hash  |-> 4 * Cardinality(DOMAIN DirHashed.table), dir_meta  |-> dm.size,
                      file_hash |-> 4 * Cardinality(DOMAIN FileHashed.table), file_meta |-> fm.size]
            bytes == FileData(files)
            start == Align(FILEPARTITION_OFS + Len(bytes), 4)
<1>5. image = [header    |-> WriteHeader(sizes, DataOffsets(files).end),
               data      |-> bytes,
               tables    |-> start,
               dir_hash  |-> DirHashed.table,
               dir_meta  |-> dm,
               file_hash |-> FileHashed.table,
               file_meta |-> fm,
               len       |-> start + sizes.dir_hash + sizes.dir_meta + sizes.file_hash + sizes.file_meta]
  <2>1. /\ [i \in DOMAIN b.dirs |-> DirEntrySize(b.dirs[i].name)] = DirSizes
        /\ [i \in DOMAIN b.files |-> FileEntrySize(b.files[i].name)] = FileSizes
    BY <1>1 DEF DirSizes, FileSizes
  <2>2. /\ EntryOffsets([i \in DOMAIN b.dirs |-> DirEntrySize(b.dirs[i].name)]) = DOffs
        /\ EntryOffsets([i \in DOMAIN b.files |-> FileEntrySize(b.files[i].name)]) = FOffs
    BY <2>1, Zenon DEF DOffs, FOffs
  <2>3. HashTable(b.dirs, DOffs, DOffs) = DirHashed /\ HashTable(b.files, FOffs, DOffs) = FileHashed
    BY <1>1, Zenon DEF DirHashed, FileHashed
  <2>. QED
    BY <1>1, <1>2, <2>2, <2>3, Zenon DEF ImageOf
<1>6. /\ sizes.dir_hash = 4 * Cardinality(DOMAIN DirHashed.table) /\ sizes.dir_meta = dm.size
      /\ sizes.file_hash = 4 * Cardinality(DOMAIN FileHashed.table) /\ sizes.file_meta = fm.size
  OBVIOUS
<1>. HIDE DEF bytes, start, dm, fm
<1>7. /\ image.header = WriteHeader(sizes, DataOffsets(files).end) /\ image.data = bytes /\ image.tables = start
      /\ image.dir_hash = DirHashed.table /\ image.dir_meta = dm /\ image.file_hash = FileHashed.table /\ image.file_meta = fm
      /\ image.len = start + sizes.dir_hash + sizes.dir_meta + sizes.file_hash + sizes.file_meta
  <2>. HIDE DEF sizes
  <2>. QED
    BY <1>5
<1>8. image.dir_meta = TableOf(DirEntries, DOffs) /\ image.file_meta = TableOf(FileEntries, FOffs)
  BY <1>3, <1>4, <1>7 DEF dm, fm
<1>9. image.tables = Align(FILEPARTITION_OFS + Len(image.data), 4)
  BY <1>7 DEF start
<1>10. image.len = image.tables + 4 * Cardinality(DOMAIN image.dir_hash) + image.dir_meta.size
                   + 4 * Cardinality(DOMAIN image.file_hash) + image.file_meta.size
  <2>. HIDE DEF sizes
  <2>. QED
    BY <1>6, <1>7
<1>11. sizes = [dir_hash  |-> 4 * Cardinality(DOMAIN image.dir_hash), dir_meta  |-> image.dir_meta.size,
                file_hash |-> 4 * Cardinality(DOMAIN image.file_hash), file_meta |-> image.file_meta.size]
  <2>1. DirHashed.table = image.dir_hash /\ dm = image.dir_meta /\ FileHashed.table = image.file_hash /\ fm = image.file_meta
    BY <1>7
  <2>. QED
    BY <2>1, Zenon
<1>12. image.header = WriteHeader([dir_hash  |-> 4 * Cardinality(DOMAIN image.dir_hash),
                                   dir_meta  |-> image.dir_meta.size,
                                   file_hash |-> 4 * Cardinality(DOMAIN image.file_hash),
                                   file_meta |-> image.file_meta.size], DataOffsets(files).end)
  <2>. HIDE DEF sizes
  <2>. QED
    BY <1>7, <1>11, Zenon
<1>13. image.data = FileData(files)
  BY <1>7 DEF bytes
<1>14. image.dir_hash = DirHashed.table /\ image.file_hash = FileHashed.table
  BY <1>7
<1>. QED
  BY <1>8, <1>9, <1>10, <1>12, <1>13, <1>14

LEMMA DirsInImage ==
  ASSUME PathHashIsNumber, NEW D, NEW F, Built(D, F)
  PROVE  /\ DOMAIN image.dir_meta.entries = {DirOffset(p) : p \in TreeDirs}
         /\ \A p \in TreeDirs : image.dir_meta.entries[DirOffset(p)] = ExpectedDir(p)
         /\ \A k \in 1..Len(D) : image.dir_meta.entries[DOffs[k]] = ExpectedDir(D[k])
         /\ image.dir_meta.size = DOffs[Len(D) + 1]
<1>. DEFINE n == Len(D)
<1>1. n \in Nat /\ DOMAIN D = 1..n /\ DOMAIN dirs = 1..n /\ TreeDirs = ToSet(D) /\ \A k \in 1..n : D[k] \in TreeDirs
  BY BuiltIs
<1>2. Climbs(DOffs, n) /\ Last(DOffs) = DOffs[n + 1] /\ \A k \in 1..n : DirOffset(D[k]) = DOffs[k]
  BY DirOffsets
<1>3. image.dir_meta = TableOf(DirEntries, DOffs)
  BY ImageParts
<1>4. DOMAIN DirEntries = 1..n /\ \A k \in 1..n : DirEntries[k] = ExpectedDir(D[k])
  BY <1>1, DirEntryIs DEF DirEntries
<1>5. /\ DOMAIN image.dir_meta.entries = {DOffs[i] : i \in 1..n}
      /\ \A k \in 1..n : image.dir_meta.entries[DOffs[k]] = DirEntries[k]
      /\ image.dir_meta.size = Last(DOffs)
  <2>. HIDE DEF n
  <2>1. Tabled(image.dir_meta, n, DirEntries, DOffs)
    BY <1>2, <1>3, <1>4, TableIs
  <2>. QED
    BY <2>1 DEF Tabled
<1>6. {DOffs[i] : i \in 1..n} = {DirOffset(p) : p \in TreeDirs}
  <2>1. TreeDirs = {D[i] : i \in 1..n}
    BY <1>1 DEF ToSet
  <2>. QED
    BY <1>2, <2>1
<1>7. ASSUME NEW p \in TreeDirs PROVE image.dir_meta.entries[DirOffset(p)] = ExpectedDir(p)
  <2>1. PICK k \in 1..n : p = D[k]
    BY <1>1, <1>7 DEF ToSet
  <2>. QED
    BY <1>2, <1>4, <1>5, <2>1
<1>8. DOMAIN image.dir_meta.entries = {DirOffset(p) : p \in TreeDirs}
  BY <1>5, <1>6, Zenon
<1>. QED
  BY <1>2, <1>4, <1>5, <1>7, <1>8

LEMMA FilesInImage ==
  ASSUME PathHashIsNumber, NEW D, NEW F, Built(D, F)
  PROVE  /\ DOMAIN image.file_meta.entries = {FileOffset(p) : p \in TreeFiles}
         /\ \A p \in TreeFiles : image.file_meta.entries[FileOffset(p)] = ExpectedFile(p)
         /\ \A k \in 1..Len(F) : image.file_meta.entries[FOffs[k]] = ExpectedFile(F[k])
         /\ image.file_meta.size = FOffs[Len(F) + 1]
<1>. DEFINE n == Len(F)
<1>1. n \in Nat /\ DOMAIN F = 1..n /\ DOMAIN files = 1..n /\ TreeFiles = ToSet(F) /\ \A k \in 1..n : F[k] \in TreeFiles
  BY BuiltIs
<1>2. Climbs(FOffs, n) /\ Last(FOffs) = FOffs[n + 1] /\ \A k \in 1..n : FileOffset(F[k]) = FOffs[k]
  BY FileOffsets
<1>3. image.file_meta = TableOf(FileEntries, FOffs)
  BY ImageParts
<1>4. DOMAIN FileEntries = 1..n /\ \A k \in 1..n : FileEntries[k] = ExpectedFile(F[k])
  BY <1>1, FileEntryIs DEF FileEntries
<1>5. /\ DOMAIN image.file_meta.entries = {FOffs[i] : i \in 1..n}
      /\ \A k \in 1..n : image.file_meta.entries[FOffs[k]] = FileEntries[k]
      /\ image.file_meta.size = Last(FOffs)
  <2>. HIDE DEF n
  <2>1. Tabled(image.file_meta, n, FileEntries, FOffs)
    BY <1>2, <1>3, <1>4, TableIs
  <2>. QED
    BY <2>1 DEF Tabled
<1>6. {FOffs[i] : i \in 1..n} = {FileOffset(p) : p \in TreeFiles}
  <2>1. TreeFiles = {F[i] : i \in 1..n}
    BY <1>1 DEF ToSet
  <2>. QED
    BY <1>2, <2>1
<1>7. ASSUME NEW p \in TreeFiles PROVE image.file_meta.entries[FileOffset(p)] = ExpectedFile(p)
  <2>1. PICK k \in 1..n : p = F[k]
    BY <1>1, <1>7 DEF ToSet
  <2>. QED
    BY <1>2, <1>4, <1>5, <2>1
<1>8. DOMAIN image.file_meta.entries = {FileOffset(p) : p \in TreeFiles}
  BY <1>5, <1>6, Zenon
<1>. QED
  BY <1>2, <1>4, <1>5, <1>7, <1>8

LEMMA DataInImage ==
  ASSUME NEW D, NEW F, Built(D, F)
  PROVE  /\ image.data \in Bytes /\ Len(image.data) = DataOffsets(files).end
         /\ \A k \in 1..Len(F) : /\ LiesAt(image.data, DataOffset(F[k]), DataOf(F[k]))
                                 /\ DataOf(F[k]) \in Bytes /\ DataOffset(F[k]) \in Nat
<1>. DEFINE n == Len(F)
<1>1. Loaded(files, n) /\ n \in Nat /\ \A k \in 1..n : DataOf(F[k]) = files[k].data
  BY FilesLoaded, BuiltIs
<1>2. PICK ends : Ends(files, n, ends) /\ DataStarts(files, n, ends)
  BY <1>1, EndsAre
<1>3. Buffered(image.data, n, files, ends)
  <2>1. image.data = FileData(files)
    BY ImageParts
  <2>. HIDE DEF n
  <2>. QED
    BY <1>1, <1>2, <2>1, FileDataIs
<1>4. \A k \in 1..n : DataOffset(F[k]) = Align(ends[k - 1], 16)
  BY <1>2, DataSums
<1>5. \A k \in 1..n : LiesAt(image.data, DataOffset(F[k]), DataOf(F[k])) /\ DataOf(F[k]) \in Bytes /\ DataOffset(F[k]) \in Nat
  <2>. SUFFICES ASSUME NEW k \in 1..n
                PROVE LiesAt(image.data, DataOffset(F[k]), DataOf(F[k])) /\ DataOf(F[k]) \in Bytes /\ DataOffset(F[k]) \in Nat
    OBVIOUS
  <2>1. LiesAt(image.data, Align(ends[k - 1], 16), files[k].data) /\ files[k].data \in Bytes
    BY <1>1, <1>3 DEF Buffered, Loaded
  <2>2. LiesAt(image.data, DataOffset(F[k]), DataOf(F[k]))
    BY <1>1, <1>4, <2>1, Zenon
  <2>3. DataOffset(F[k]) \in Nat
    BY <2>2 DEF LiesAt
  <2>. QED
    BY <1>1, <2>1, <2>2, <2>3
<1>6. image.data \in Bytes /\ Len(image.data) = DataOffsets(files).end
  BY <1>2, <1>3 DEF Buffered, DataStarts
<1>. QED
  BY <1>5, <1>6

\* The header locates the tables.
LEMMA HeaderOfImage ==
  ASSUME PathHashIsNumber, NEW D, NEW F, Built(D, F)
  PROVE  LET h == image.header IN
         /\ h.file_data_offset + Len(image.data) =< h.dir_hash.offset
         /\ h.dir_hash.offset = image.tables
         /\ h.dir_hash.size = 4 * Cardinality(DOMAIN image.dir_hash)
         /\ h.dir_meta.offset = h.dir_hash.offset + h.dir_hash.size
         /\ h.dir_meta.size = image.dir_meta.size
         /\ h.file_hash.offset = h.dir_meta.offset + h.dir_meta.size
         /\ h.file_meta.offset = h.file_hash.offset + h.file_hash.size
         /\ h.file_meta.size = image.file_meta.size
         /\ h.file_meta.offset + h.file_meta.size = image.len
<1>. DEFINE dh == 4 * Cardinality(DOMAIN image.dir_hash)
            fh == 4 * Cardinality(DOMAIN image.file_hash)
            dm == image.dir_meta.size
            fm == image.file_meta.size
            sizes == [dir_hash |-> dh, dir_meta |-> dm, file_hash |-> fh, file_meta |-> fm]
            t == image.tables
            l == Len(image.data)
<1>1. l \in Nat /\ l = DataOffsets(files).end
  BY DataInImage, LenProperties DEF Bytes
<1>2. /\ t = Align(FILEPARTITION_OFS + l, 4) /\ image.header = WriteHeader(sizes, l)
      /\ image.len = t + dh + dm + fh + fm
  BY <1>1, ImageParts, Zenon
<1>3. dh \in Nat /\ fh \in Nat
  <2>1. DOMAIN image.dir_hash = 0..(HashTableCount(Len(D)) - 1) /\ HashTableCount(Len(D)) \in Nat \ {0}
    BY ImageParts, DirBuckets DEF Hashed
  <2>2. DOMAIN image.file_hash = 0..(HashTableCount(Len(F)) - 1) /\ HashTableCount(Len(F)) \in Nat \ {0}
    BY ImageParts, FileBuckets DEF Hashed
  <2>3. IsFiniteSet(DOMAIN image.dir_hash) /\ IsFiniteSet(DOMAIN image.file_hash)
    <3>1. 0 \in Int /\ HashTableCount(Len(D)) - 1 \in Int /\ HashTableCount(Len(F)) - 1 \in Int
      BY <2>1, <2>2
    <3>. QED
      BY <2>1, <2>2, <3>1, FS_Interval
  <2>4. Cardinality(DOMAIN image.dir_hash) \in Nat /\ Cardinality(DOMAIN image.file_hash) \in Nat
    BY <2>3, FS_CardinalityType
  <2>. QED
    BY <2>4
<1>4. dm \in Nat /\ fm \in Nat
  <2>1. dm = DOffs[Len(D) + 1] /\ Piling(DOffs, DirSizes, Len(D)) /\ Len(D) \in Nat
    BY DirsInImage, DirOffsets, BuiltIs
  <2>2. fm = FOffs[Len(F) + 1] /\ Piling(FOffs, FileSizes, Len(F)) /\ Len(F) \in Nat
    BY FilesInImage, FileOffsets, BuiltIs
  <2>3. Len(D) + 1 \in 1..(Len(D) + 1) /\ Len(F) + 1 \in 1..(Len(F) + 1)
    BY <2>1, <2>2
  <2>. QED
    BY <2>1, <2>2, <2>3 DEF Piling
<1>5. t \in Nat /\ FILEPARTITION_OFS + l =< t
  <2>1. FILEPARTITION_OFS + l \in Nat
    BY <1>1 DEF FILEPARTITION_OFS
  <2>. QED
    BY <1>2, <2>1, Align4
<1>. DEFINE h == image.header
<1>6. /\ h.dir_hash = [offset |-> t, size |-> dh]
      /\ h.dir_meta = [offset |-> t + dh, size |-> dm]
      /\ h.file_hash = [offset |-> t + dh + dm, size |-> fh]
      /\ h.file_meta = [offset |-> t + dh + dm + fh, size |-> fm]
      /\ h.file_data_offset = FILEPARTITION_OFS
  <2>1. sizes.dir_hash = dh /\ sizes.dir_meta = dm /\ sizes.file_hash = fh /\ sizes.file_meta = fm
    OBVIOUS
  <2>. HIDE DEF sizes, dh, dm, fh, fm, t, l
  <2>. QED
    BY <1>2, <2>1 DEF WriteHeader, Extent
<1>. HIDE DEF h, dh, dm, fh, fm, t, l, sizes
<1>7. /\ h.file_data_offset + l =< h.dir_hash.offset
      /\ h.dir_hash.offset = t
      /\ h.dir_hash.size = dh
      /\ h.dir_meta.offset = h.dir_hash.offset + h.dir_hash.size
      /\ h.dir_meta.size = dm
      /\ h.file_hash.offset = h.dir_meta.offset + h.dir_meta.size
      /\ h.file_meta.offset = h.file_hash.offset + h.file_hash.size
      /\ h.file_meta.size = fm
      /\ h.file_meta.offset + h.file_meta.size = image.len
  BY <1>1, <1>2, <1>3, <1>4, <1>5, <1>6 DEF FILEPARTITION_OFS
<1>. QED
  BY <1>7 DEF h, dh, dm, fm, t, l

LEMMA BuiltIsTheTree ==
  ASSUME PathHashIsNumber, NEW D, NEW F, Built(D, F)
  PROVE  ImageIsTheTree
<1>1. ASSUME NEW p \in TreeFiles PROVE SubSeq(image.data, DataOffset(p) + 1, DataOffset(p) + Len(DataOf(p))) = DataOf(p)
  <2>1. PICK k \in 1..Len(F) : p = F[k]
    BY <1>1, BuiltIs DEF ToSet
  <2>2. LiesAt(image.data, DataOffset(p), DataOf(p)) /\ DataOf(p) \in Seq(0..255) /\ image.data \in Seq(0..255)
    BY <2>1, DataInImage DEF Bytes
  <2>. QED
    BY <2>2, SliceIs
<1>. QED
  BY <1>1, DirsInImage, FilesInImage, HeaderOfImage, Zenon DEF ImageIsTheTree

(***************************************************************************)
(* The hash chains                                                         *)
(***************************************************************************)
\* Each entry points to the entry of its bucket before it.
Threaded(table, n, b, offs) ==
  /\ Climbs(offs, n) /\ DOMAIN table.entries = {offs[i] : i \in 1..n}
  /\ \A k \in 1..n : HeadIs(table.entries[offs[k]].hash_sibling, k - 1, b[k], b, offs)

LEMMA OffsetCount ==
  ASSUME NEW offs, NEW n, Climbs(offs, n)
  PROVE  Cardinality({offs[i] : i \in 1..n}) = n
<1>. DEFINE First(k) == {offs[i] : i \in 1..k}
            G == {k \in 0..n : IsFiniteSet(First(k)) /\ Cardinality(First(k)) = k}
<1>1. n \in Nat
  BY DEF Climbs
<1>2. 0 \in G
  <2>1. IsFiniteSet({}) /\ Cardinality({}) = 0
    BY FS_EmptySet
  <2>2. First(0) = {} /\ 0 \in 0..n
    BY <1>1
  <2>3. IsFiniteSet(First(0)) /\ Cardinality(First(0)) = 0
    BY <2>1, <2>2, Zenon
  <2>. HIDE DEF First
  <2>. QED
    BY <2>2, <2>3
<1>3. ASSUME NEW k \in 1..n, k - 1 \in G PROVE k \in G
  <2>. DEFINE T == First(k - 1)
              x == offs[k]
  <2>1. IsFiniteSet(T) /\ Cardinality(T) = k - 1 /\ k \in 0..n
    BY <1>3
  <2>2. x \notin T
    <3>1. \A i \in 1..(k - 1) : i \in 1..n /\ i # k
      BY <1>1
    <3>2. \A i \in 1..(k - 1) : offs[i] # offs[k]
      BY <3>1, ClimbsOnce
    <3>. QED
      BY <3>2
  <2>3. First(k) = T \union {x}
    <3>1. 1..k = (1..(k - 1)) \union {k}
      BY <1>1
    <3>. QED
      BY <3>1
  <2>. HIDE DEF First, T, x
  <2>4. IsFiniteSet(T \union {x}) /\ Cardinality(T \union {x}) = Cardinality(T) + 1
    BY <2>1, <2>2, FS_AddElement
  <2>5. IsFiniteSet(First(k)) /\ Cardinality(First(k)) = Cardinality(T) + 1
    BY <2>3, <2>4, Zenon
  <2>6. Cardinality(First(k)) = k
    BY <1>1, <2>1, <2>5
  <2>. QED
    BY <2>1, <2>5, <2>6
<1>4. \A k \in 1..n : k - 1 \in G => k \in G
  BY <1>3
<1>5. n \in G
  <2>1. n \in 0..n
    BY <1>1
  <2>. HIDE DEF G
  <2>. QED
    BY <1>1, <1>2, <1>4, <2>1, UpTo
<1>. HIDE DEF First
<1>6. Cardinality(First(n)) = n
  BY <1>5
<1>. QED
  BY <1>6 DEF First

LEMMA ChainFinds ==
  ASSUME NEW table, NEW n, NEW b, NEW offs, Threaded(table, n, b, offs),
         NEW k \in 1..n, NEW start, HeadIs(start, n, b[k], b, offs)
  PROVE  offs[k] \in Chain(table, start)
<1>. DEFINE c == b[k]
            U == {NO_ENTRY} \union {offs[i] : i \in 1..n}
            Grow(seen) == seen \union {table.entries[o].hash_sibling : o \in seen \ {NO_ENTRY}}
            S == [i \in 0..n |-> SUBSET U]
            step == [x \in (1..n) \X (SUBSET U) |-> Grow(x[2])]
            Rec(f) == f = [i \in 0..n |-> IF i = 0 THEN {start} ELSE Grow(f[i - 1])]
            walk == CHOOSE f : Rec(f)
<1>1. n \in Nat /\ Climbs(offs, n) /\ (\A i \in 1..n : offs[i] \in Nat /\ offs[i] # NO_ENTRY)
  BY NoEntryAssumption DEF Threaded, Climbs
<1>2. \A i \in 1..n : HeadIs(table.entries[offs[i]].hash_sibling, i - 1, b[i], b, offs)
  BY DEF Threaded
<1>3. \A v, i, e : i \in 0..n /\ HeadIs(v, i, e, b, offs) => v \in U
  <2>. SUFFICES ASSUME NEW v, NEW i \in 0..n, NEW e, HeadIs(v, i, e, b, offs) PROVE v \in U
    OBVIOUS
  <2>1. 1..i \subseteq 1..n
    BY <1>1
  <2>. QED
    BY <2>1 DEF HeadIs
<1>4. \A i \in 1..n : table.entries[offs[i]].hash_sibling \in U
  <2>1. \A i \in 1..n : i - 1 \in 0..n
    BY <1>1
  <2>. HIDE DEF U
  <2>. QED
    BY <1>2, <1>3, <2>1
<1>5. \A w \in SUBSET U : Grow(w) \in SUBSET U
  BY <1>4
<1>6. start \in U
  <2>1. n \in 0..n
    BY <1>1
  <2>. HIDE DEF U
  <2>. QED
    BY <1>3, <2>1
<1>. HIDE DEF U, Grow
<1>7. ASSUME NEW i \in 1..n, NEW w \in S[i - 1] PROVE w \in SUBSET U /\ step[<<i, w>>] = Grow(w) /\ Grow(w) \in S[i]
  <2>1. i - 1 \in 0..n /\ i \in 0..n
    BY <1>1
  <2>. QED
    BY <1>5, <2>1
<1>8. Solvable(n, S, {start}, step)
  <2>1. {start} \in S[0]
    BY <1>1, <1>6
  <2>2. \A i \in 1..n : \A w \in S[i - 1] : step[<<i, w>>] \in S[i]
    BY <1>7
  <2>. HIDE DEF S, step
  <2>. QED
    BY <1>1, <2>1, <2>2, RecursionSolvable
<1>9. PICK g : /\ g = [i \in 0..n |-> IF i = 0 THEN {start} ELSE step[<<i, g[i - 1]>>]]
               /\ \A i \in 0..n : g[i] \in S[i]
  <2>. HIDE DEF S, step
  <2>. QED
    BY <1>8 DEF Solvable
<1>. HIDE DEF S, step
<1>10. Rec(g)
  <2>1. ASSUME NEW i \in 0..n
        PROVE (IF i = 0 THEN {start} ELSE step[<<i, g[i - 1]>>]) = IF i = 0 THEN {start} ELSE Grow(g[i - 1])
    <3>1. CASE i = 0
      BY <3>1
    <3>2. CASE i # 0
      <4>1. i \in 1..n /\ i - 1 \in 0..n
        BY <1>1, <3>2
      <4>2. g[i - 1] \in S[i - 1]
        BY <1>9, <4>1
      <4>. QED
        BY <1>7, <3>2, <4>1, <4>2
    <3>. QED
      BY <3>1, <3>2
  <2>. QED
    BY <1>9, <2>1
<1>11. Rec(walk)
  <2>. HIDE DEF Rec
  <2>. QED
    BY <1>10
<1>12. Chain(table, start) = walk[n]
  <2>1. Cardinality(DOMAIN table.entries) = n
    BY <1>1, OffsetCount DEF Threaded
  <2>. QED
    BY <2>1 DEF Chain, Grow
<1>. HIDE DEF walk
<1>13. start \in walk[0] /\ \A i \in 1..n : walk[i] = Grow(walk[i - 1])
  <2>1. 0 \in 0..n /\ \A i \in 1..n : i \in 0..n /\ i # 0
    BY <1>1
  <2>. QED
    BY <1>11, <2>1
<1>. HIDE DEF Rec
<1>. DEFINE Near(m) == \E v \in walk[m] : \E i \in k..(n - m) : HeadIs(v, i, c, b, offs)
            G == {m \in 0..n : offs[k] \in walk[m] \/ Near(m)}
<1>14. 0 \in G
  <2>1. n \in k..(n - 0)
    BY <1>1
  <2>2. Near(0)
    BY <1>13, <2>1
  <2>. HIDE DEF Near
  <2>. QED
    BY <1>1, <2>2
<1>15. ASSUME NEW m \in 1..n, m - 1 \in G PROVE m \in G
  <2>1. walk[m] = walk[m - 1] \union {table.entries[o].hash_sibling : o \in walk[m - 1] \ {NO_ENTRY}}
    BY <1>13 DEF Grow
  <2>2. m \in 0..n
    BY <1>1
  <2>3. CASE offs[k] \in walk[m - 1]
    <3>1. offs[k] \in walk[m]
      BY <2>1, <2>3
    <3>. QED
      BY <2>2, <3>1
  <2>4. CASE Near(m - 1)
    <3>1. PICK v \in walk[m - 1] : \E i \in k..(n - (m - 1)) : HeadIs(v, i, c, b, offs)
      BY <2>4
    <3>2. PICK i \in k..(n - (m - 1)) : HeadIs(v, i, c, b, offs)
      BY <3>1
    <3>3. k \in 1..i
      BY <1>1
    <3>4. PICK j \in 1..i : b[j] = c /\ v = offs[j] /\ \A l \in (j + 1)..i : b[l] # c
      BY <3>2, <3>3 DEF HeadIs
    <3>5. k =< j /\ j \in 1..n
      <4>1. k \in (j + 1)..i \/ k =< j
        BY <1>1, <3>3
      <4>. QED
        BY <1>1, <3>4, <4>1
    <3>6. CASE j = k
      <4>1. offs[k] \in walk[m]
        BY <2>1, <3>4, <3>6
      <4>. QED
        BY <2>2, <4>1
    <3>7. CASE j # k
      <4>. DEFINE u == table.entries[v].hash_sibling
      <4>1. HeadIs(u, j - 1, c, b, offs)
        BY <1>2, <3>4, <3>5
      <4>2. v # NO_ENTRY
        BY <1>1, <3>4, <3>5
      <4>3. u \in walk[m]
        BY <2>1, <4>2
      <4>4. j - 1 \in k..(n - m)
        BY <1>1, <3>5, <3>7
      <4>. HIDE DEF u
      <4>5. Near(m)
        BY <4>1, <4>3, <4>4
      <4>. HIDE DEF Near
      <4>. QED
        BY <2>2, <4>5
    <3>. QED
      BY <3>6, <3>7
  <2>. HIDE DEF Near
  <2>. QED
    BY <1>15, <2>3, <2>4
<1>16. \A m \in 1..n : m - 1 \in G => m \in G
  BY <1>15
<1>17. n \in G
  <2>1. n \in 0..n
    BY <1>1
  <2>. HIDE DEF G
  <2>. QED
    BY <1>1, <1>14, <1>16, <2>1, UpTo
<1>18. ~Near(n)
  BY <1>1
<1>19. offs[k] \in walk[n]
  <2>. HIDE DEF Near
  <2>. QED
    BY <1>17, <1>18
<1>. QED
  BY <1>12, <1>19

LEMMA BuiltIsFound ==
  ASSUME PathHashIsNumber, NEW D, NEW F, Built(D, F)
  PROVE  HashLookupFinds
<1>1. ASSUME NEW p \in TreeDirs PROVE DirOffset(p) \in Chain(image.dir_meta, image.dir_hash[Bucket(TreeDirs, p)])
  <2>. DEFINE n == Len(D)
  <2>1. PICK k \in 1..n : p = D[k]
    BY <1>1, BuiltIs DEF ToSet
  <2>2. Climbs(DOffs, n) /\ \A j \in 1..n : DirOffset(D[j]) = DOffs[j]
    BY DirOffsets
  <2>3. /\ \A j \in 1..n : DBuckets[j] = Bucket(TreeDirs, D[j]) /\ DBuckets[j] \in 0..(HashTableCount(n) - 1)
        /\ Hashed(DirHashed, n, DBuckets, DOffs, HashTableCount(n))
    BY DirBuckets
  <2>4. Threaded(image.dir_meta, n, DBuckets, DOffs)
    <3>1. DOMAIN image.dir_meta.entries = {DOffs[i] : i \in 1..n}
      <4>1. TreeDirs = {D[i] : i \in 1..n}
        BY BuiltIs DEF ToSet
      <4>2. {DirOffset(q) : q \in TreeDirs} = {DOffs[i] : i \in 1..n}
        BY <2>2, <4>1
      <4>. QED
        BY <4>2, DirsInImage, Zenon
    <3>2. ASSUME NEW j \in 1..n PROVE image.dir_meta.entries[DOffs[j]].hash_sibling = DirHashed.siblings[j]
      <4>1. image.dir_meta.entries[DOffs[j]] = DirEntryOf(j)
        BY DirsInImage, DirEntryIs
      <4>. QED
        BY <4>1 DEF DirEntryOf
    <3>. QED
      BY <2>2, <2>3, <3>1, <3>2 DEF Threaded, Hashed
  <2>5. HeadIs(image.dir_hash[DBuckets[k]], n, DBuckets[k], DBuckets, DOffs)
    BY <2>3, ImageParts DEF Hashed
  <2>6. DOffs[k] \in Chain(image.dir_meta, image.dir_hash[DBuckets[k]])
    <3>. HIDE DEF n
    <3>. QED
      BY <2>4, <2>5, ChainFinds
  <2>. QED
    BY <2>1, <2>2, <2>3, <2>6
<1>2. ASSUME NEW p \in TreeFiles PROVE FileOffset(p) \in Chain(image.file_meta, image.file_hash[Bucket(TreeFiles, p)])
  <2>. DEFINE n == Len(F)
  <2>1. PICK k \in 1..n : p = F[k]
    BY <1>2, BuiltIs DEF ToSet
  <2>2. Climbs(FOffs, n) /\ \A j \in 1..n : FileOffset(F[j]) = FOffs[j]
    BY FileOffsets
  <2>3. /\ \A j \in 1..n : FBuckets[j] = Bucket(TreeFiles, F[j]) /\ FBuckets[j] \in 0..(HashTableCount(n) - 1)
        /\ Hashed(FileHashed, n, FBuckets, FOffs, HashTableCount(n))
    BY FileBuckets
  <2>4. Threaded(image.file_meta, n, FBuckets, FOffs)
    <3>1. DOMAIN image.file_meta.entries = {FOffs[i] : i \in 1..n}
      <4>1. TreeFiles = {F[i] : i \in 1..n}
        BY BuiltIs DEF ToSet
      <4>2. {FileOffset(q) : q \in TreeFiles} = {FOffs[i] : i \in 1..n}
        BY <2>2, <4>1
      <4>. QED
        BY <4>2, FilesInImage, Zenon
    <3>2. ASSUME NEW j \in 1..n PROVE image.file_meta.entries[FOffs[j]].hash_sibling = FileHashed.siblings[j]
      <4>1. image.file_meta.entries[FOffs[j]] = FileEntryOf(j)
        BY FilesInImage, FileEntryIs
      <4>. QED
        BY <4>1 DEF FileEntryOf
    <3>. QED
      BY <2>2, <2>3, <3>1, <3>2 DEF Threaded, Hashed
  <2>5. HeadIs(image.file_hash[FBuckets[k]], n, FBuckets[k], FBuckets, FOffs)
    BY <2>3, ImageParts DEF Hashed
  <2>6. FOffs[k] \in Chain(image.file_meta, image.file_hash[FBuckets[k]])
    <3>. HIDE DEF n
    <3>. QED
      BY <2>4, <2>5, ChainFinds
  <2>. QED
    BY <2>1, <2>2, <2>3, <2>6
<1>. QED
  BY <1>1, <1>2 DEF HashLookupFinds

LEMMA TreeStays ==
  ASSUME PathHashIsNumber, StoredInv
  PROVE  ImageIsTheTree /\ HashLookupFinds
<1>1. CASE phase = "built"
  <2>1. PICK D, F : Built(D, F)
    BY <1>1 DEF StoredInv, Built
  <2>. QED
    BY <2>1, BuiltIsTheTree, BuiltIsFound
<1>2. CASE phase # "built"
  BY <1>2 DEF ImageIsTheTree, HashLookupFinds
<1>. QED
  BY <1>1, <1>2

\* RomFsBuilder::build: for any paths, contents and directory listings, in any order of calls, the image is the one
\* the stored tree alone defines.
THEOREM RomFsImageIsTheTree == PathHashIsNumber => (Spec => []ImageIsTheTree)
<1>. SUFFICES ASSUME PathHashIsNumber PROVE Spec => []ImageIsTheTree
  OBVIOUS
<1>1. StoredInv => ImageIsTheTree
  BY TreeStays
<1>. QED
  BY <1>1, RomFsInvariant, PTL

\* RomFsBuilder::generate_dir_hash_table and generate_file_hash_table: in a built image every directory and every
\* file is reached along the chain of the bucket its hash names, whatever the hash function and however many collide.
THEOREM RomFsHashLookupFinds == PathHashIsNumber => (Spec => []HashLookupFinds)
<1>. SUFFICES ASSUME PathHashIsNumber PROVE Spec => []HashLookupFinds
  OBVIOUS
<1>1. StoredInv => HashLookupFinds
  BY TreeStays
<1>. QED
  BY <1>1, RomFsInvariant, PTL

(***************************************************************************)
(* The image as the reader finds it                                        *)
(***************************************************************************)
\* An entry of table t starts at o and ends inside the table.
At(i, t, o) ==
  /\ o \in Nat /\ o < i.header[t].size /\ o + Prefix[t] =< i.header[t].size
  /\ o + Prefix[t] + Len(i[t].entries[o].name) =< i.header[t].size

\* The link to the i-th entry of a list, or the end of the chain.
Nth(x, offs, i) == IF i =< Len(x) THEN offs[x[i]] ELSE NO_ENTRY

LEMMA FirstNth ==
  ASSUME NEW offs, NEW x \in Seq(Nat)
  PROVE  FirstOf(x, offs) = Nth(x, offs, 1)
<1>1. Len(x) \in Nat /\ (x = <<>> <=> Len(x) = 0)
  BY EmptySeq
<1>. QED
  BY <1>1 DEF FirstOf, Nth

LEMMA SiblingNth ==
  ASSUME NEW offs, NEW n, Climbs(offs, n), NEW x \in Seq(Nat), Once(x), \A i \in 1..Len(x) : x[i] \in 1..n,
         NEW k \in 1..Len(x)
  PROVE  FindSibling(x, offs, offs[x[k]]) = Nth(x, offs, k + 1)
<1>. DEFINE l == Len(x)
            I == {i \in 1..l : offs[x[i]] = offs[x[k]]}
            s == IF I # {} THEN Min(I) ELSE 0
            v == FindSibling(x, offs, offs[x[k]])
<1>1. l \in Nat /\ DOMAIN x = 1..l
  BY LenProperties
<1>2. v = IF s \in 1..(l - 1) THEN offs[x[s + 1]] ELSE NO_ENTRY
  BY DEF FindSibling, SelectInSeq
<1>. HIDE DEF v
<1>3. ASSUME NEW i \in 1..l PROVE i \in I <=> i = k
  <2>1. offs[x[i]] = offs[x[k]] => x[i] = x[k]
    BY ClimbsOnce
  <2>2. x[i] = x[k] => i = k
    BY <1>1 DEF Once
  <2>. QED
    BY <2>1, <2>2
<1>4. I \in SUBSET Nat /\ I # {}
  BY <1>1
<1>5. s \in I
  <2>. HIDE DEF I
  <2>. QED
    BY <1>4, MinIs
<1>6. s = k
  <2>1. s \in 1..l
    BY <1>5
  <2>. HIDE DEF I, s
  <2>. QED
    BY <1>3, <1>5, <2>1
<1>7. v = IF k \in 1..(l - 1) THEN offs[x[k + 1]] ELSE NO_ENTRY
  BY <1>2, <1>6, Zenon
<1>8. k \in 1..(l - 1) <=> k + 1 =< l
  BY <1>1
<1>. QED
  BY <1>7, <1>8 DEF v, Nth

\* Nothing piled up goes down.
LEMMA PilingTop ==
  ASSUME NEW n \in Nat, NEW offs, NEW sizes, Piling(offs, sizes, n), (\A k \in 1..n : sizes[k] \in Nat), NEW j \in 1..(n + 1)
  PROVE  offs[j] =< offs[n + 1]
<1>. DEFINE G == {k \in 0..n : j =< k + 1 => offs[j] =< offs[k + 1]}
<1>1. \A k \in 1..(n + 1) : offs[k] \in Nat
  BY DEF Piling
<1>2. 0 \in G
  <2>1. j =< 0 + 1 => j = 1
    OBVIOUS
  <2>2. 0 \in 0..n /\ 1 \in 1..(n + 1)
    OBVIOUS
  <2>. QED
    BY <1>1, <2>1, <2>2
<1>3. ASSUME NEW k \in 1..n, k - 1 \in G PROVE k \in G
  <2>1. k \in 1..(n + 1) /\ k + 1 \in 1..(n + 1) /\ (k - 1) + 1 = k /\ k \in 0..n
    OBVIOUS
  <2>2. offs[k] \in Nat /\ offs[k + 1] = offs[k] + sizes[k] /\ sizes[k] \in Nat /\ offs[j] \in Nat
    BY <1>1, <2>1 DEF Piling
  <2>3. j =< k => offs[j] =< offs[k]
    BY <1>3, <2>1
  <2>4. j =< k + 1 => j =< k \/ j = k + 1
    BY <2>1
  <2>5. j =< k + 1 => offs[j] =< offs[k + 1]
    BY <2>2, <2>3, <2>4
  <2>. QED
    BY <2>1, <2>5
<1>4. \A k \in 1..n : k - 1 \in G => k \in G
  BY <1>3
<1>5. n \in G
  <2>1. n \in 0..n
    OBVIOUS
  <2>. HIDE DEF G
  <2>. QED
    BY <1>2, <1>4, <2>1, UpTo
<1>6. j =< n + 1
  OBVIOUS
<1>. QED
  BY <1>5, <1>6

\* A name read back.
LEMMA NameReads ==
  ASSUME NEW e, e.name \in Text
  PROVE  NameOf(e) = e.name
  BY TextIs DEF NameOf

LEMMA Align4Len ==
  ASSUME NEW t \in Text
  PROVE  Len(t) \in Nat /\ Align(Len(t), 4) \in Nat /\ Len(t) =< Align(Len(t), 4)
  BY TextIs, Align4

\* The entry of the k-th directory.
DirRow(k, D) ==
  LET e == image.dir_meta.entries[DOffs[k]] IN
  /\ e.child = Nth(dirs[k].children, DOffs, 1) /\ e.file = Nth(dirs[k].files, FOffs, 1)
  /\ NameOf(e) = BaseName(D[k]) /\ At(image, "dir_meta", DOffs[k])

FileRow(k, F) ==
  LET e == image.file_meta.entries[FOffs[k]] IN
  /\ e.data_offset = DataOffset(F[k]) /\ e.data_size = Len(DataOf(F[k]))
  /\ NameOf(e) = Last(F[k]) /\ At(image, "file_meta", FOffs[k])

LEMMA DirRows ==
  ASSUME PathHashIsNumber, NEW D, NEW F, Built(D, F), NEW k \in 1..Len(D)
  PROVE  DirRow(k, D)
<1>. DEFINE n == Len(D)
            e == image.dir_meta.entries[DOffs[k]]
<1>1. n \in Nat /\ Filed(dirs, files, D, F) /\ DOMAIN D = 1..n
  BY BuiltIs
<1>2. DirIs(dirs[k], D, F, D[k]) /\ D[k] \in Path
  BY <1>1, FiledIs
<1>3. dirs[k].children \in Seq(Nat) /\ dirs[k].files \in Seq(Nat) /\ dirs[k].name = BaseName(D[k]) /\ BaseName(D[k]) \in Text
  BY <1>2, PathIs DEF DirIs, Lists
<1>4. e = DirEntryOf(k)
  BY DirsInImage, DirEntryIs
<1>5. e.child = Nth(dirs[k].children, DOffs, 1) /\ e.file = Nth(dirs[k].files, FOffs, 1) /\ e.name = BaseName(D[k])
  BY <1>3, <1>4, FirstNth DEF DirEntryOf
<1>6. At(image, "dir_meta", DOffs[k])
  <2>. DEFINE t == BaseName(D[k])
              top == DOffs[n + 1]
  <2>1. image.header["dir_meta"].size = top
    BY DirsInImage, HeaderOfImage
  <2>2. DOffs[k + 1] = DOffs[k] + DirEntrySize(t) /\ Piling(DOffs, DirSizes, n)
    BY DirOffsets
  <2>3. \A i \in 1..n : DirSizes[i] \in Nat
    <3>. SUFFICES ASSUME NEW i \in 1..n PROVE DirSizes[i] \in Nat
      OBVIOUS
    <3>1. dirs[i].name \in Text /\ DOMAIN dirs = 1..n
      <4>1. DirIs(dirs[i], D, F, D[i]) /\ D[i] \in Path
        BY <1>1, FiledIs
      <4>. QED
        BY <4>1, PathIs, BuiltIs DEF DirIs
    <3>. QED
      BY <3>1, Align4Len DEF DirSizes, DirEntrySize, DIR_ENTRY_SIZE
  <2>4. k + 1 \in 1..(n + 1) /\ k \in 1..(n + 1)
    BY <1>1
  <2>5. DOffs[k + 1] =< top
    <3>. HIDE DEF n
    <3>. QED
      BY <1>1, <2>2, <2>3, <2>4, PilingTop DEF top
  <2>6. DOffs[k] \in Nat /\ DOffs[k + 1] \in Nat /\ top \in Nat
    <3>1. n + 1 \in 1..(n + 1)
      BY <1>1
    <3>. QED
      BY <2>2, <2>4, <3>1 DEF Piling
  <2>7. DirEntrySize(t) = 24 + Align(Len(t), 4)
    BY DEF DirEntrySize, DIR_ENTRY_SIZE
  <2>8. Len(t) \in Nat /\ Align(Len(t), 4) \in Nat /\ Len(t) =< Align(Len(t), 4)
    BY <1>3, Align4Len
  <2>9. Prefix["dir_meta"] = 24 /\ Len(image["dir_meta"].entries[DOffs[k]].name) = Len(t)
    BY <1>5 DEF Prefix, DIR_ENTRY_SIZE
  <2>. HIDE DEF t, top, e
  <2>. QED
    BY <2>1, <2>2, <2>5, <2>6, <2>7, <2>8, <2>9, SMTT(60) DEF At
<1>7. NameOf(e) = BaseName(D[k])
  <2>. HIDE DEF e
  <2>. QED
    BY <1>3, <1>5, NameReads
<1>. QED
  BY <1>5, <1>6, <1>7 DEF DirRow

LEMMA FileRows ==
  ASSUME PathHashIsNumber, NEW D, NEW F, Built(D, F), NEW k \in 1..Len(F)
  PROVE  FileRow(k, F)
<1>. DEFINE n == Len(F)
            e == image.file_meta.entries[FOffs[k]]
<1>1. n \in Nat /\ Filed(dirs, files, D, F) /\ DOMAIN F = 1..n
  BY BuiltIs
<1>2. FileIs(files[k], D, F[k]) /\ F[k] \in Path
  BY <1>1, FiledIs
<1>3. BaseName(F[k]) = Last(F[k]) /\ BaseName(F[k]) \in Text
  BY <1>2, PathIs DEF FileIs, BaseName
<1>4. e = ExpectedFile(F[k])
  BY FilesInImage
<1>5. e.data_offset = DataOffset(F[k]) /\ e.data_size = Len(DataOf(F[k])) /\ e.name = Last(F[k])
  BY <1>4 DEF ExpectedFile
<1>6. At(image, "file_meta", FOffs[k])
  <2>. DEFINE t == Last(F[k])
              top == FOffs[n + 1]
  <2>1. image.header["file_meta"].size = top
    BY FilesInImage, HeaderOfImage
  <2>2. FOffs[k + 1] = FOffs[k] + FileEntrySize(t) /\ Piling(FOffs, FileSizes, n)
    BY FileOffsets
  <2>3. \A i \in 1..n : FileSizes[i] \in Nat
    <3>. SUFFICES ASSUME NEW i \in 1..n PROVE FileSizes[i] \in Nat
      OBVIOUS
    <3>1. files[i].name \in Text /\ DOMAIN files = 1..n
      <4>1. FileIs(files[i], D, F[i]) /\ F[i] \in Path
        BY <1>1, FiledIs
      <4>. QED
        BY <4>1, PathIs, BuiltIs DEF FileIs, BaseName
    <3>. QED
      BY <3>1, Align4Len DEF FileSizes, FileEntrySize, FILE_ENTRY_SIZE
  <2>4. k + 1 \in 1..(n + 1) /\ k \in 1..(n + 1)
    BY <1>1
  <2>5. FOffs[k + 1] =< top
    <3>. HIDE DEF n
    <3>. QED
      BY <1>1, <2>2, <2>3, <2>4, PilingTop DEF top
  <2>6. FOffs[k] \in Nat /\ FOffs[k + 1] \in Nat /\ top \in Nat
    <3>1. n + 1 \in 1..(n + 1)
      BY <1>1
    <3>. QED
      BY <2>2, <2>4, <3>1 DEF Piling
  <2>7. FileEntrySize(t) = 32 + Align(Len(t), 4)
    BY DEF FileEntrySize, FILE_ENTRY_SIZE
  <2>8. Len(t) \in Nat /\ Align(Len(t), 4) \in Nat /\ Len(t) =< Align(Len(t), 4)
    BY <1>3, Align4Len
  <2>9. Prefix["file_meta"] = 32 /\ Len(image["file_meta"].entries[FOffs[k]].name) = Len(t)
    BY <1>5 DEF Prefix, FILE_ENTRY_SIZE
  <2>. HIDE DEF t, top, e
  <2>. QED
    BY <2>1, <2>2, <2>5, <2>6, <2>7, <2>8, <2>9, SMTT(60) DEF At
<1>7. NameOf(e) = Last(F[k])
  <2>. HIDE DEF e
  <2>. QED
    BY <1>3, <1>5, NameReads
<1>. QED
  BY <1>5, <1>6, <1>7 DEF FileRow

\* x lists the entries of the directory p, each linked to the next.
Linked(x, P, p, offs, table) ==
  /\ x \in Seq(Nat) /\ Len(x) \in Nat /\ Once(x) /\ Ascends(x) /\ ToSet(x) = Within(P, p)
  /\ \A i \in 1..Len(x) : /\ x[i] \in 1..Len(P) /\ P[x[i]] # <<>> /\ Front(P[x[i]]) = p
                          /\ table.entries[offs[x[i]]].sibling = Nth(x, offs, i + 1)

LEMMA DirsLinked ==
  ASSUME PathHashIsNumber, NEW D, NEW F, Built(D, F), NEW k \in 1..Len(D)
  PROVE  Linked(dirs[k].children, D, D[k], DOffs, image.dir_meta)
<1>. DEFINE x == dirs[k].children
            n == Len(D)
<1>1. n \in Nat /\ Filed(dirs, files, D, F) /\ DOMAIN D = 1..n /\ DOMAIN dirs = 1..n /\ Listed(dirs) /\ Once(D)
  BY BuiltIs
<1>2. DirIs(dirs[k], D, F, D[k])
  BY <1>1, FiledIs
<1>3. x \in Seq(Nat) /\ Once(x) /\ ToSet(x) = Within(D, D[k]) /\ Ascends(x)
  BY <1>1, <1>2 DEF DirIs, Lists, Listed
<1>4. Len(x) \in Nat /\ DOMAIN x = 1..Len(x)
  BY <1>3, LenProperties
<1>5. \A i \in 1..Len(x) : x[i] \in 1..n /\ D[x[i]] # <<>> /\ Front(D[x[i]]) = D[k]
  BY <1>1, <1>3, <1>4 DEF ToSet, Within
<1>6. ASSUME NEW i \in 1..Len(x) PROVE image.dir_meta.entries[DOffs[x[i]]].sibling = Nth(x, DOffs, i + 1)
  <2>. DEFINE j == x[i]
  <2>1. j \in 1..n /\ D[j] # <<>> /\ Front(D[j]) = D[k]
    BY <1>5
  <2>. HIDE DEF j
  <2>2. image.dir_meta.entries[DOffs[j]] = DirEntryOf(j)
    BY <2>1, DirsInImage, DirEntryIs
  <2>3. dirs[j].parent = k
    <3>1. DirIs(dirs[j], D, F, D[j])
      BY <1>1, <2>1, FiledIs
    <3>2. dirs[j].parent \in 1..n /\ D[dirs[j].parent] = D[k]
      BY <1>1, <2>1, <3>1 DEF DirIs, Parent
    <3>. QED
      BY <1>1, <3>2 DEF Once
  <2>4. image.dir_meta.entries[DOffs[j]].sibling = FindSibling(x, DOffs, DOffs[j])
    BY <2>2, <2>3 DEF DirEntryOf
  <2>5. FindSibling(x, DOffs, DOffs[x[i]]) = Nth(x, DOffs, i + 1)
    <3>1. Climbs(DOffs, n)
      BY DirOffsets
    <3>. HIDE DEF x, n
    <3>. QED
      BY <1>3, <1>5, <3>1, SiblingNth
  <2>. QED
    BY <2>4, <2>5 DEF j
<1>. HIDE DEF x
<1>7. Linked(x, D, D[k], DOffs, image.dir_meta)
  BY <1>3, <1>4, <1>5, <1>6 DEF Linked
<1>. QED
  BY <1>7 DEF x

LEMMA FilesLinked ==
  ASSUME PathHashIsNumber, NEW D, NEW F, Built(D, F), NEW k \in 1..Len(D)
  PROVE  Linked(dirs[k].files, F, D[k], FOffs, image.file_meta)
<1>. DEFINE x == dirs[k].files
            n == Len(F)
<1>1. /\ n \in Nat /\ Filed(dirs, files, D, F) /\ DOMAIN F = 1..n /\ DOMAIN files = 1..n /\ Listed(dirs) /\ Once(D)
      /\ DOMAIN D = 1..Len(D) /\ DOMAIN dirs = 1..Len(D)
  BY BuiltIs
<1>2. DirIs(dirs[k], D, F, D[k])
  BY <1>1, FiledIs
<1>3. x \in Seq(Nat) /\ Once(x) /\ ToSet(x) = Within(F, D[k]) /\ Ascends(x)
  BY <1>1, <1>2 DEF DirIs, Lists, Listed
<1>4. Len(x) \in Nat /\ DOMAIN x = 1..Len(x)
  BY <1>3, LenProperties
<1>5. \A i \in 1..Len(x) : x[i] \in 1..n /\ F[x[i]] # <<>> /\ Front(F[x[i]]) = D[k]
  BY <1>1, <1>3, <1>4 DEF ToSet, Within
<1>6. ASSUME NEW i \in 1..Len(x) PROVE image.file_meta.entries[FOffs[x[i]]].sibling = Nth(x, FOffs, i + 1)
  <2>. DEFINE j == x[i]
  <2>1. j \in 1..n /\ F[j] # <<>> /\ Front(F[j]) = D[k]
    BY <1>5
  <2>. HIDE DEF j
  <2>2. image.file_meta.entries[FOffs[j]] = FileEntryOf(j)
    BY <2>1, FilesInImage, FileEntryIs
  <2>3. files[j].parent = k
    <3>1. FileIs(files[j], D, F[j])
      BY <1>1, <2>1, FiledIs
    <3>2. files[j].parent \in 1..Len(D) /\ D[files[j].parent] = D[k]
      BY <1>1, <2>1, <3>1 DEF FileIs
    <3>. QED
      BY <1>1, <3>2 DEF Once
  <2>4. image.file_meta.entries[FOffs[j]].sibling = FindSibling(x, FOffs, FOffs[j])
    BY <2>2, <2>3 DEF FileEntryOf
  <2>5. FindSibling(x, FOffs, FOffs[x[i]]) = Nth(x, FOffs, i + 1)
    <3>1. Climbs(FOffs, n)
      BY FileOffsets
    <3>. HIDE DEF x, n
    <3>. QED
      BY <1>3, <1>5, <3>1, SiblingNth
  <2>. QED
    BY <2>4, <2>5 DEF j
<1>. HIDE DEF x
<1>7. Linked(x, F, D[k], FOffs, image.file_meta)
  BY <1>3, <1>4, <1>5, <1>6 DEF Linked
<1>. QED
  BY <1>7 DEF x

(***************************************************************************)
(* Walking to a path                                                       *)
(***************************************************************************)
\* One part of a path is stepped over.
LEMMA StepDown ==
  ASSUME NEW S, NEW p \in Seq(S), NEW r \in Seq(S), r # <<>>
  PROVE  /\ Head(r) \in S /\ Tail(r) \in Seq(S) /\ Len(Tail(r)) = Len(r) - 1
         /\ p \o r = Append(p, Head(r)) \o Tail(r)
<1>1. Len(r) \in Nat \ {0}
  BY EmptySeq, LenProperties
<1>2. Head(r) = r[1]
  OBVIOUS
<1>3. Head(r) \in S /\ Tail(r) \in Seq(S) /\ Len(Tail(r)) = Len(r) - 1
      /\ \A i \in 1..(Len(r) - 1) : Tail(r)[i] = r[i + 1]
  BY <1>1, HeadTailProperties
<1>. DEFINE h == Head(r)
            t == Tail(r)
            c == <<h>>
            s == c \o t
<1>. HIDE DEF h, t
<1>4. c \in Seq(S) /\ Len(c) = 1 /\ c[1] = h
  BY <1>3 DEF h
<1>. HIDE DEF c
<1>5. /\ s \in Seq(S) /\ Len(s) = 1 + Len(t)
      /\ \A i \in 1..(Len(c) + Len(t)) : s[i] = IF i =< Len(c) THEN c[i] ELSE t[i - Len(c)]
  <2>1. t \in Seq(S)
    BY <1>3 DEF t
  <2>. QED
    BY <1>4, <2>1, ConcatProperties, ZenonT(60)
<1>. HIDE DEF s
<1>6. Len(s) = Len(r)
  BY <1>1, <1>3, <1>5 DEF t
<1>7. ASSUME NEW i \in 1..Len(r) PROVE s[i] = r[i]
  <2>1. i \in 1..(Len(c) + Len(t))
    BY <1>1, <1>3, <1>4 DEF t
  <2>2. CASE i = 1
    BY <1>2, <1>4, <1>5, <2>1, <2>2 DEF h
  <2>3. CASE i # 1
    <3>1. i - 1 \in 1..(Len(r) - 1) /\ ~(i =< 1) /\ (i - 1) + 1 = i
      BY <1>1, <2>3
    <3>2. s[i] = t[i - 1]
      BY <1>4, <1>5, <2>1, <3>1
    <3>3. t[i - 1] = r[i]
      BY <1>3, <3>1 DEF t
    <3>. QED
      BY <3>2, <3>3
  <2>. QED
    BY <2>2, <2>3
<1>8. s = r
  BY <1>5, <1>6, <1>7, SeqEqual
<1>9. p \o (c \o t) = (p \o c) \o t
  <2>1. t \in Seq(S)
    BY <1>3 DEF t
  <2>. QED
    BY <1>4, <2>1, ConcatAssociative, SMTT(60)
<1>10. p \o c = Append(p, h)
  <2>1. h \in S
    BY <1>3 DEF h
  <2>. QED
    BY <2>1, AppendIsConcat DEF c
<1>11. p \o r = Append(p, h) \o t
  BY <1>8, <1>9, <1>10, Zenon DEF s
<1>. QED
  BY <1>3, <1>11 DEF h, t

LEMMA OneStep ==
  ASSUME NEW S, NEW p \in Seq(S), NEW r \in Seq(S), Len(r) = 1
  PROVE  p \o r = Append(p, Head(r))
<1>1. r # <<>>
  BY EmptySeq
<1>2. Tail(r) \in Seq(S) /\ Len(Tail(r)) = 0 /\ p \o r = Append(p, Head(r)) \o Tail(r) /\ Append(p, Head(r)) \in Seq(S)
  BY <1>1, StepDown, AppendProperties
<1>3. Tail(r) = <<>>
  BY <1>2, EmptySeq
<1>. QED
  BY <1>2, <1>3, ConcatEmptySeq

LEMMA ConcatFront ==
  ASSUME NEW S, NEW p \in Seq(S), NEW r \in Seq(S), r # <<>>
  PROVE  Front(r) \in Seq(S) /\ p \o r # <<>> /\ p \o Front(r) \in Seq(S) /\ Front(p \o r) = p \o Front(r)
<1>1. Front(r) \in Seq(S) /\ Last(r) \in S /\ r = Append(Front(r), Last(r))
  BY FrontLast
<1>. DEFINE f == Front(r)
            x == Last(r)
<1>2. p \o f \in Seq(S) /\ p \o Append(f, x) = Append(p \o f, x)
  <2>. HIDE DEF f, x
  <2>1. p \o f \in Seq(S) /\ <<x>> \in Seq(S)
    BY <1>1, ConcatProperties DEF f, x
  <2>2. Append(f, x) = f \o <<x>> /\ Append(p \o f, x) = (p \o f) \o <<x>>
    BY <1>1, <2>1, AppendIsConcat DEF f, x
  <2>3. p \o (f \o <<x>>) = (p \o f) \o <<x>>
    BY <1>1, <2>1, ConcatAssociative, SMTT(60) DEF f, x
  <2>. QED
    BY <2>1, <2>2, <2>3
<1>3. p \o r = Append(p \o f, x)
  BY <1>1, <1>2, Zenon
<1>. HIDE DEF f, x
<1>4. Append(p \o f, x) # <<>> /\ Front(Append(p \o f, x)) = p \o f
  BY <1>1, <1>2, AppendIs, ZenonT(60) DEF f, x
<1>. QED
  BY <1>1, <1>2, <1>3, <1>4, Zenon DEF f

\* Every part of a stored path is a stored directory.
LEMMA AncestorsStored ==
  ASSUME NEW D, NEW F, Built(D, F), NEW p \in Seq(Text), NEW r \in Seq(Text), p \o r \in ToSet(D)
  PROVE  p \in ToSet(D)
<1>. DEFINE G == {n \in Nat : \A q \in Seq(Text) : Len(q) = n /\ p \o q \in ToSet(D) => p \in ToSet(D)}
<1>1. 0 \in G
  <2>. SUFFICES ASSUME NEW q \in Seq(Text), Len(q) = 0, p \o q \in ToSet(D) PROVE p \in ToSet(D)
    OBVIOUS
  <2>1. q = <<>>
    BY EmptySeq
  <2>. QED
    BY <2>1, ConcatEmptySeq
<1>2. ASSUME NEW n \in Nat, n \in G PROVE n + 1 \in G
  <2>. SUFFICES ASSUME NEW q \in Seq(Text), Len(q) = n + 1, p \o q \in ToSet(D) PROVE p \in ToSet(D)
    OBVIOUS
  <2>1. q # <<>>
    BY EmptySeq
  <2>2. Front(q) \in Seq(Text) /\ Len(Front(q)) = n /\ p \o q # <<>> /\ Front(p \o q) = p \o Front(q)
    <3>1. Front(q) \in Seq(Text) /\ Len(Front(q)) = Len(q) - 1
      BY <2>1, FrontLast
    <3>2. p \o q # <<>> /\ Front(p \o q) = p \o Front(q)
      <4>. HIDE DEF G
      <4>. QED
        BY <2>1, ConcatFront
    <3>. QED
      BY <3>1, <3>2
  <2>3. Front(p \o q) \in ToSet(D)
    <3>. DEFINE z == p \o q
    <3>. HIDE DEF z
    <3>1. PICK c \in 1..Len(D) : z = D[c]
      BY BuiltIs DEF ToSet, z
    <3>2. Front(D[c]) \in ToSet(D)
      BY <2>2, <3>1, BuiltIs, FiledIs DEF z
    <3>. QED
      BY <3>1, <3>2 DEF z
  <2>. QED
    BY <1>2, <2>2, <2>3
<1>4. Len(r) \in Nat
  BY LenProperties
<1>5. Len(r) \in G
  <2>1. Len(r) \in 0..Len(r) /\ \A k \in 1..Len(r) : k - 1 \in Nat /\ (k - 1) + 1 = k
    BY <1>4
  <2>2. ASSUME NEW k \in 1..Len(r), k - 1 \in G PROVE k \in G
    <3>1. k - 1 \in Nat /\ (k - 1) + 1 = k
      BY <2>1
    <3>2. (k - 1) + 1 \in G
      BY <1>2, <2>2, <3>1
    <3>. HIDE DEF G
    <3>. QED
      BY <3>1, <3>2
  <2>. HIDE DEF G
  <2>. QED
    BY <1>1, <1>4, <2>1, <2>2, UpTo
<1>. QED
  BY <1>5

(***************************************************************************)
(* The reader on any image                                                 *)
(***************************************************************************)
\* The reader alone: any image and any calls on it.
ReaderSpec == RInit /\ [][ForeignImage \/ RCall \/ RStep]_rVars

TablesInside(i) == \A t \in ToSet(Tables) : i.header[t].offset + i.header[t].size =< i.len

Accepted(i) == Unsigned(i) /\ Decodable(i, "dir_meta") /\ Decodable(i, "file_meta") /\ TablesInside(i)

HomeOf(y) == IF y.kind = "dir" THEN "dir_meta" ELSE "file_meta"

\* ReaderStaysInside is not inductive: an entry is inside the buffer because it was
\* checked against a table the header check placed there, a link is followed only
\* after the entry that holds it was checked, and what was yielded stays checked
\* while the image is the same.
ReaderInv ==
  /\ result.status # "panic"
  /\ rpc \notin {"none", "done"} => Accepted(img)
  /\ rpc \in {"find_dir", "find_file", "iter", "listed"} => At(img, "dir_meta", dir)
  /\ rpc \in {"find_dir", "find_file", "iter"} => cursor \in Link
  /\ rpc = "iter" => fcursor \in Link
  /\ rpc = "data" => At(img, "file_meta", cursor)
  /\ rpc \notin {"iter", "listed"} => yielded = <<>>
  /\ \E S : yielded \in Seq(S)
  /\ \A k \in DOMAIN yielded : At(img, HomeOf(yielded[k]), yielded[k].at)

LEMMA TablesAre == ToSet(Tables) = {"dir_meta", "dir_hash", "file_meta", "file_hash"} /\ Len(Tables) = 4
  BY DEF Tables, ToSet

\* try_from_bytes accepts an image only if its tables lie in the buffer.
LEMMA HeaderChecked ==
  ASSUME NEW i, Unsigned(i), HeaderError(i) = "none"
  PROVE  TablesInside(i) /\ \A t \in ToSet(Tables) : i.header[t].offset + i.header[t].size =< USIZE_MAX
<1>. DEFINE Bad(t) == Overflows(i.header[t]) \/ PastEnd(i.header[t], i.len)
            I == {k \in 1..Len(Tables) : Bad(Tables[k])}
            failing == SelectInSeq(Tables, Bad)
<1>1. failing = IF I # {} THEN Min(I) ELSE 0
  BY DEF SelectInSeq
<1>2. failing = 0
  BY DEF HeaderError
<1>3. I \in SUBSET Nat /\ \A k \in I : k # 0
  BY TablesAre
<1>4. I = {}
  <2>. SUFFICES ASSUME I # {} PROVE FALSE
    OBVIOUS
  <2>1. Min(I) \in I
    BY <1>3, MinIs
  <2>. HIDE DEF I
  <2>. QED
    BY <1>1, <1>2, <1>3, <2>1
<1>5. \A k \in 1..4 : ~Bad(Tables[k])
  BY <1>4, TablesAre
<1>6. ~Bad("dir_meta") /\ ~Bad("dir_hash") /\ ~Bad("file_meta") /\ ~Bad("file_hash")
  BY <1>5 DEF Tables
<1>. HIDE DEF failing, I
<1>7. \A t \in ToSet(Tables) : ~Overflows(i.header[t]) /\ ~PastEnd(i.header[t], i.len)
  BY <1>6, TablesAre
<1>8. ASSUME NEW t \in ToSet(Tables)
      PROVE  i.header[t].offset + i.header[t].size =< i.len /\ i.header[t].offset + i.header[t].size =< USIZE_MAX
  <2>. DEFINE x == i.header[t]
  <2>1. x.offset \in Nat /\ x.size \in Nat /\ i.len \in Nat /\ ~Overflows(x) /\ ~PastEnd(x, i.len)
    BY <1>7 DEF Unsigned
  <2>. HIDE DEF x
  <2>2. x.offset + x.size =< i.len /\ x.offset + x.size =< USIZE_MAX
    BY <2>1, UsizeAssumption DEF Overflows, PastEnd
  <2>. QED
    BY <2>2 DEF x
<1>. QED
  BY <1>8 DEF TablesInside

\* from_offset accepts an entry exactly when it lies in its table.
LEMMA AtIsReadable ==
  ASSUME NEW t, NEW o \in Nat
  PROVE  At(img, t, o) <=> Readable(t, o)
  BY DEF At, Readable, EntryEnd

\* An entry that was checked lies in the buffer.
LEMMA FitsBuffer ==
  ASSUME NEW t \in {"dir_meta", "file_meta"}, NEW o, Unsigned(img), TablesInside(img), At(img, t, o),
         Len(img[t].entries[o].name) \in Nat
  PROVE  InBuffer(t, o)
<1>1. /\ img.len \in Nat /\ img.header[t].offset \in Nat /\ img.header[t].size \in Nat
      /\ img.header[t].offset + img.header[t].size =< img.len
  BY TablesAre DEF Unsigned, TablesInside
<1>2. o \in Nat /\ EntryEnd(t, o) =< img.header[t].size /\ Prefix[t] \in Nat
  BY DEF At, EntryEnd, Prefix, DIR_ENTRY_SIZE, FILE_ENTRY_SIZE
<1>3. EntryEnd(t, o) \in Nat
  <2>. DEFINE n == Len(img[t].entries[o].name)
              p == Prefix[t]
  <2>1. n \in Nat /\ p \in Nat /\ o \in Nat
    BY <1>2
  <2>2. EntryEnd(t, o) = o + p + n
    BY DEF EntryEnd
  <2>. HIDE DEF n, p
  <2>. QED
    BY ONLY <2>1, <2>2
<1>. QED
  BY <1>1, <1>2, <1>3, SMTT(60) DEF InBuffer

LEMMA AtInBuffer ==
  ASSUME NEW t \in {"dir_meta", "file_meta"}, NEW o, Accepted(img), At(img, t, o)
  PROVE  InBuffer(t, o)
<1>1. Unsigned(img) /\ TablesInside(img) /\ img.header[t].size \in Nat
  BY TablesAre DEF Accepted, Unsigned
<1>2. o \in 0..(img.header[t].size - Prefix[t])
  BY <1>1 DEF At, Prefix, DIR_ENTRY_SIZE, FILE_ENTRY_SIZE
<1>3. Len(img[t].entries[o].name) \in Nat
  BY <1>2 DEF Accepted, Decodable
<1>. QED
  BY <1>1, <1>3, FitsBuffer

\* The links of a checked entry are offsets, or the end of a chain.
LEMMA Links ==
  ASSUME NEW i, Accepted(i)
  PROVE  /\ \A o : At(i, "dir_meta", o) =>
               /\ i.dir_meta.entries[o].sibling \in Link /\ i.dir_meta.entries[o].child \in Link
               /\ i.dir_meta.entries[o].file \in Link
         /\ \A o : At(i, "file_meta", o) =>
               /\ i.file_meta.entries[o].sibling \in Link
               /\ i.file_meta.entries[o].data_offset \in Nat /\ i.file_meta.entries[o].data_size \in Nat
<1>1. ASSUME NEW t \in {"dir_meta", "file_meta"}, NEW o, At(i, t, o)
      PROVE  o \in 0..(i.header[t].size - Prefix[t])
  <2>1. i.header[t].size \in Nat /\ Prefix[t] \in Nat
    BY TablesAre DEF Accepted, Unsigned, Prefix, DIR_ENTRY_SIZE, FILE_ENTRY_SIZE
  <2>. QED
    BY <1>1, <2>1 DEF At
<1>. QED
  BY <1>1 DEF Accepted, Decodable

LEMMA ReaderInvImplies == ReaderInv => ReaderStaysInside
<1>. SUFFICES ASSUME ReaderInv PROVE ReaderStaysInside
  OBVIOUS
<1>1. \A k \in DOMAIN yielded :
        InBuffer(IF yielded[k].kind = "dir" THEN "dir_meta" ELSE "file_meta", yielded[k].at)
  <2>. SUFFICES ASSUME NEW k \in DOMAIN yielded
                PROVE  InBuffer(HomeOf(yielded[k]), yielded[k].at)
    BY DEF HomeOf
  <2>1. yielded # <<>>
    OBVIOUS
  <2>2. Accepted(img) /\ At(img, HomeOf(yielded[k]), yielded[k].at)
    BY <2>1 DEF ReaderInv
  <2>. QED
    BY <2>2, AtInBuffer DEF HomeOf
<1>2. rpc \in {"find_dir", "find_file", "iter", "listed"} => InBuffer("dir_meta", dir)
  BY AtInBuffer DEF ReaderInv
<1>3. rpc = "data" => InBuffer("file_meta", cursor)
  BY AtInBuffer DEF ReaderInv
<1>. QED
  BY <1>1, <1>2, <1>3 DEF ReaderInv, ReaderStaysInside, Accepted, TablesInside

LEMMA ReaderInitInv == RInit => ReaderInv
  BY DEF RInit, ReaderInv, NoResult

LEMMA NoEntryLink == \A o \in Link : o # NO_ENTRY => o \in Nat
  BY DEF Link

LEMMA ForeignImageInv == ReaderInv /\ ForeignImage => ReaderInv'
<1>. SUFFICES ASSUME ReaderInv, NEW i \in Images, TryFromBytes(i) PROVE ReaderInv'
  BY DEF ForeignImage
<1>1. /\ rpc = "none" /\ img' = i /\ yielded' = yielded
      /\ HeaderError(i) = "none" => rpc' = "ready" /\ result' = result
      /\ HeaderError(i) # "none" => rpc' = "done" /\ result' = Err(HeaderError(i))
  BY DEF TryFromBytes
<1>2. HeaderError(i) = "none" => Accepted(i)
  BY ImagesSupplied, HeaderChecked DEF Accepted
<1>3. yielded' = <<>> /\ result'.status # "panic" /\ rpc' \in {"ready", "done"}
  BY <1>1 DEF ReaderInv, Err
<1>4. \E S : yielded' \in Seq(S)
  BY <1>1 DEF ReaderInv
<1>. QED
  BY <1>1, <1>2, <1>3, <1>4 DEF ReaderInv

\* A call that returns leaves nothing to check but its result.
LEMMA ReturnInv ==
  ASSUME ReaderInv, NEW v, RReturn(v), v.status # "panic", rpc \notin {"iter", "listed"}
  PROVE  ReaderInv'
  BY DEF RReturn, ReaderInv

LEMMA ErrIsNoPanic == \A e : Err(e).status # "panic"
  BY DEF Err

LEMMA OpenInv ==
  ASSUME ReaderInv, NEW path, Open(path)
  PROVE  ReaderInv'
<1>1. /\ rpc = "ready" /\ Accepted(img) /\ img' = img /\ yielded' = yielded
  BY DEF Open, ReaderInv
<1>2. CASE rpc' = "done" /\ \E e : result' = Err(e)
  BY <1>1, <1>2, ErrIsNoPanic DEF ReaderInv
<1>3. CASE ReadableDir(0) /\ Resolve(Trimmed(path), 0) /\ result' = result
  <2>1. At(img, "dir_meta", 0)
    BY <1>3, AtIsReadable DEF ReadableDir
  <2>2. dir' = 0 /\ rpc' \in {"find_dir", "find_file"} /\ cursor' \in Link
    BY <1>1, <1>3, <2>1, Links DEF Resolve, DirAt
  <2>. QED
    BY <1>1, <1>3, <2>1, <2>2 DEF ReaderInv
<1>. QED
  BY <1>2, <1>3 DEF Open

LEMMA BeginInv ==
  ASSUME ReaderInv, Accepted(img), NEW o, At(img, "dir_meta", o), BeginEntries(o)
  PROVE  ReaderInv'
<1>1. /\ rpc' = "iter" /\ dir' = o /\ cursor' \in Link /\ fcursor' \in Link /\ yielded' = <<>>
      /\ img' = img /\ result' = result
  BY Links DEF BeginEntries, DirAt
<1>2. yielded' \in Seq({}) /\ DOMAIN yielded' = {}
  BY <1>1
<1>. QED
  BY <1>1, <1>2 DEF ReaderInv

LEMMA RootEntriesInv == ReaderInv /\ RootEntries => ReaderInv'
<1>. SUFFICES ASSUME ReaderInv, RootEntries PROVE ReaderInv'
  OBVIOUS
<1>1. rpc = "ready" /\ Accepted(img)
  BY DEF RootEntries, ReaderInv
<1>2. CASE ReadableDir(0) /\ BeginEntries(0)
  <2>1. At(img, "dir_meta", 0)
    BY <1>2, AtIsReadable DEF ReadableDir
  <2>. QED
    BY <1>1, <1>2, <2>1, BeginInv
<1>3. CASE RReturn(Err("RootDirError"))
  BY <1>1, <1>3, ErrIsNoPanic, ReturnInv
<1>. QED
  BY <1>2, <1>3 DEF RootEntries

LEMMA DescendInv == ReaderInv /\ Descend => ReaderInv'
<1>. SUFFICES ASSUME ReaderInv, rpc = "listed", NEW o \in Dirs(yielded), BeginEntries(o) PROVE ReaderInv'
  BY DEF Descend
<1>1. PICK k \in DOMAIN yielded : yielded[k].kind = "dir" /\ o = yielded[k].at
  BY DEF Dirs
<1>2. Accepted(img) /\ At(img, "dir_meta", o)
  BY <1>1 DEF ReaderInv, HomeOf
<1>. QED
  BY <1>2, BeginInv

LEMMA FindDirInv == ReaderInv /\ FindDir => ReaderInv'
<1>. SUFFICES ASSUME ReaderInv, FindDir PROVE ReaderInv'
  OBVIOUS
<1>1. rpc = "find_dir" /\ Accepted(img) /\ At(img, "dir_meta", dir) /\ cursor \in Link /\ yielded = <<>>
  BY DEF FindDir, ReaderInv
<1>2. CASE \E e : RReturn(Err(e))
  BY <1>1, <1>2, ErrIsNoPanic, ReturnInv
<1>3. CASE /\ cursor # NO_ENTRY /\ ReadableDir(cursor)
           /\ Resolve(Tail(rest), cursor) \/ (cursor' = DirAt(cursor).sibling /\ UNCHANGED <<rpc, rest, dir>>)
           /\ UNCHANGED <<img, asked, fcursor, yielded, result>>
  <2>1. At(img, "dir_meta", cursor)
    BY <1>1, <1>3, NoEntryLink, AtIsReadable DEF ReadableDir
  <2>2. rpc' \in {"find_dir", "find_file"} /\ cursor' \in Link /\ At(img, "dir_meta", dir')
    BY <1>1, <1>3, <2>1, Links DEF Resolve, DirAt
  <2>3. img' = img /\ yielded' = yielded /\ result' = result
    BY <1>3
  <2>. QED
    BY <1>1, <2>2, <2>3 DEF ReaderInv
<1>. QED
  BY <1>2, <1>3 DEF FindDir

LEMMA FindFileInv == ReaderInv /\ FindFile => ReaderInv'
<1>. SUFFICES ASSUME ReaderInv, FindFile PROVE ReaderInv'
  OBVIOUS
<1>1. rpc = "find_file" /\ Accepted(img) /\ At(img, "dir_meta", dir) /\ cursor \in Link /\ yielded = <<>>
  BY DEF FindFile, ReaderInv
<1>2. CASE \E e : RReturn(Err(e))
  BY <1>1, <1>2, ErrIsNoPanic, ReturnInv
<1>3. CASE /\ cursor # NO_ENTRY /\ ReadableFile(cursor)
           /\ (rpc' = "data" /\ cursor' = cursor) \/ (cursor' = FileAt(cursor).sibling /\ rpc' = rpc)
           /\ UNCHANGED <<img, asked, rest, dir, fcursor, yielded, result>>
  <2>1. At(img, "file_meta", cursor)
    BY <1>1, <1>3, NoEntryLink, AtIsReadable DEF ReadableFile
  <2>2. FileAt(cursor).sibling \in Link
    BY <1>1, <2>1, Links DEF FileAt
  <2>3. img' = img /\ yielded' = yielded /\ result' = result /\ dir' = dir
    BY <1>3
  <2>. QED
    BY <1>1, <1>3, <2>1, <2>2, <2>3 DEF ReaderInv
<1>. QED
  BY <1>2, <1>3 DEF FindFile

\* The slice is taken where the check was made.
LEMMA DataInv == ReaderInv /\ Data => ReaderInv'
<1>. SUFFICES ASSUME ReaderInv, Data PROVE ReaderInv'
  OBVIOUS
<1>1. rpc = "data" /\ Accepted(img) /\ At(img, "file_meta", cursor)
  BY DEF Data, ReaderInv
<1>. DEFINE s == Slice(FileAt(cursor).data_offset, FileAt(cursor).data_size)
<1>2. CASE \E e : RReturn(Err(e))
  BY <1>1, <1>2, ErrIsNoPanic, ReturnInv
<1>3. CASE ~(abs_end > img.len) /\ RReturn(s)
  <2>1. /\ FileAt(cursor).data_offset \in Nat /\ FileAt(cursor).data_size \in Nat
        /\ img.len \in Nat /\ img.header.file_data_offset \in Nat
    BY <1>1, Links DEF FileAt, Accepted, Unsigned
  <2>2. img.header.file_data_offset + FileAt(cursor).data_offset + FileAt(cursor).data_size =< img.len
    BY <1>3, <2>1 DEF abs_end, abs_start
  <2>3. s.status # "panic"
    BY <2>2 DEF Slice, Ok
  <2>. HIDE DEF s
  <2>. QED
    BY <1>1, <1>3, <2>3, ReturnInv, SMTT(60)
<1>. QED
  BY <1>2, <1>3 DEF Data

\* What the iterator hands out was checked, and so was what it handed out before.
LEMMA YieldInv ==
  ASSUME ReaderInv, rpc = "iter", rpc' = "iter", img' = img, dir' = dir, result' = result,
         cursor' \in Link, fcursor' \in Link,
         NEW y, yielded' = Append(yielded, y), At(img, HomeOf(y), y.at)
  PROVE  ReaderInv'
<1>1. PICK S : yielded \in Seq(S)
  BY DEF ReaderInv
<1>2. yielded \in Seq(S \union {y})
  BY <1>1
<1>3. yielded' \in Seq(S \union {y}) /\ DOMAIN yielded' = 1..(Len(yielded) + 1)
  BY <1>2
<1>4. \A k \in DOMAIN yielded' : At(img', HomeOf(yielded'[k]), yielded'[k].at)
  <2>. SUFFICES ASSUME NEW k \in 1..(Len(yielded) + 1) PROVE At(img, HomeOf(yielded'[k]), yielded'[k].at)
    BY <1>3
  <2>1. Len(yielded) \in Nat /\ DOMAIN yielded = 1..Len(yielded)
    BY <1>1
  <2>2. CASE k = Len(yielded) + 1
    <3>1. yielded'[k] = y
      BY <1>1, <2>2
    <3>. QED
      BY <3>1
  <2>3. CASE k \in 1..Len(yielded)
    <3>1. yielded'[k] = yielded[k]
      BY <1>2, <2>3
    <3>. QED
      BY <2>1, <2>3, <3>1 DEF ReaderInv
  <2>. QED
    BY <2>1, <2>2, <2>3
<1>. QED
  BY <1>3, <1>4 DEF ReaderInv

LEMMA NextDirInv == ReaderInv /\ NextDir => ReaderInv'
<1>. SUFFICES ASSUME ReaderInv, NextDir PROVE ReaderInv'
  OBVIOUS
<1>. DEFINE y == [kind |-> "dir", at |-> cursor, name |-> NameOf(DirAt(cursor))]
<1>1. rpc = "iter" /\ Accepted(img) /\ cursor \in Link /\ fcursor \in Link
  BY DEF NextDir, ReaderInv
<1>2. At(img, "dir_meta", cursor)
  BY <1>1, NoEntryLink, AtIsReadable DEF NextDir, DirReady, ReadableDir
<1>3. /\ rpc' = "iter" /\ img' = img /\ dir' = dir /\ result' = result /\ fcursor' \in Link
      /\ yielded' = Append(yielded, y)
  BY <1>1, SMTT(60) DEF NextDir
<1>4. cursor' \in Link
  BY <1>1, <1>2, Links DEF NextDir, DirAt
<1>5. At(img, HomeOf(y), y.at)
  BY <1>2 DEF HomeOf
<1>. HIDE DEF y
<1>. QED
  BY <1>1, <1>3, <1>4, <1>5, YieldInv

LEMMA NextFileInv == ReaderInv /\ NextFile => ReaderInv'
<1>. SUFFICES ASSUME ReaderInv, NextFile PROVE ReaderInv'
  OBVIOUS
<1>. DEFINE y == [kind |-> "file", at |-> fcursor, name |-> NameOf(FileAt(fcursor))]
<1>1. rpc = "iter" /\ Accepted(img) /\ cursor \in Link /\ fcursor \in Link
  BY DEF NextFile, ReaderInv
<1>2. At(img, "file_meta", fcursor)
  BY <1>1, NoEntryLink, AtIsReadable DEF NextFile, FileReady, ReadableFile
<1>3. /\ rpc' = "iter" /\ img' = img /\ dir' = dir /\ result' = result /\ cursor' \in Link
      /\ yielded' = Append(yielded, y)
  BY <1>1 DEF NextFile
<1>4. fcursor' \in Link
  BY <1>1, <1>2, Links DEF NextFile, FileAt
<1>5. At(img, HomeOf(y), y.at)
  BY <1>2 DEF HomeOf
<1>. HIDE DEF y
<1>. QED
  BY <1>1, <1>3, <1>4, <1>5, YieldInv

LEMMA EntriesEndInv == ReaderInv /\ EntriesEnd => ReaderInv'
  BY DEF EntriesEnd, ReaderInv

LEMMA ReaderUnchanged == ReaderInv /\ UNCHANGED rVars => ReaderInv'
  BY DEF rVars, ReaderInv

LEMMA ReadStepInv == ReaderInv /\ (RCall \/ RStep) => ReaderInv'
  BY OpenInv, RootEntriesInv, DescendInv, FindDirInv, FindFileInv, DataInv, NextDirInv, NextFileInv,
     EntriesEndInv DEF RCall, RStep

\* RomFs: whatever the bytes, no walk over them reads outside the buffer.
THEOREM ReaderInside == ReaderSpec => []ReaderStaysInside
<1>1. ReaderInv /\ [ForeignImage \/ RCall \/ RStep]_rVars => ReaderInv'
  BY ForeignImageInv, ReadStepInv, ReaderUnchanged
<1>. QED
  BY <1>1, ReaderInitInv, ReaderInvImplies, PTL DEF ReaderSpec

(***************************************************************************)
(* The reader on the image that was built                                  *)
(***************************************************************************)
\* The entries and links the reader finds under the offset of a directory or a file.
LEMMA DirFound ==
  ASSUME PathHashIsNumber, NEW D, NEW F, Built(D, F), img = image, NEW k \in 1..Len(D)
  PROVE  /\ DOffs[k] \in Nat /\ DOffs[k] # NO_ENTRY /\ ReadableDir(DOffs[k])
         /\ NameOf(DirAt(DOffs[k])) = BaseName(D[k])
         /\ DirAt(DOffs[k]).child = Nth(dirs[k].children, DOffs, 1)
         /\ DirAt(DOffs[k]).file = Nth(dirs[k].files, FOffs, 1)
<1>1. DirRow(k, D)
  BY DirRows
<1>. DEFINE o == DOffs[k]
<1>2. /\ NameOf(DirAt(o)) = BaseName(D[k]) /\ DirAt(o).child = Nth(dirs[k].children, DOffs, 1)
      /\ DirAt(o).file = Nth(dirs[k].files, FOffs, 1) /\ At(img, "dir_meta", o)
  BY <1>1 DEF DirRow, DirAt
<1>3. o \in Nat
  BY <1>2 DEF At
<1>. HIDE DEF o
<1>4. Readable("dir_meta", o)
  BY <1>2, <1>3, AtIsReadable
<1>. QED
  BY <1>2, <1>3, <1>4, NoEntryAssumption DEF o, ReadableDir

LEMMA FileFound ==
  ASSUME PathHashIsNumber, NEW D, NEW F, Built(D, F), img = image, NEW k \in 1..Len(F)
  PROVE  /\ FOffs[k] \in Nat /\ FOffs[k] # NO_ENTRY /\ ReadableFile(FOffs[k])
         /\ NameOf(FileAt(FOffs[k])) = Last(F[k])
         /\ FileAt(FOffs[k]).data_offset = DataOffset(F[k])
         /\ FileAt(FOffs[k]).data_size = Len(DataOf(F[k]))
<1>1. FileRow(k, F)
  BY FileRows
<1>. DEFINE o == FOffs[k]
<1>2. /\ NameOf(FileAt(o)) = Last(F[k]) /\ FileAt(o).data_offset = DataOffset(F[k])
      /\ FileAt(o).data_size = Len(DataOf(F[k])) /\ At(img, "file_meta", o)
  BY <1>1 DEF FileRow, FileAt
<1>3. o \in Nat
  BY <1>2 DEF At
<1>. HIDE DEF o
<1>4. Readable("file_meta", o)
  BY <1>2, <1>3, AtIsReadable
<1>. QED
  BY <1>2, <1>3, <1>4, NoEntryAssumption DEF o, ReadableFile

\* The root is the first directory.
LEMMA RootFound ==
  ASSUME NEW D, NEW F, Built(D, F)
  PROVE  1 \in 1..Len(D) /\ D[1] = <<>> /\ DOffs[1] = 0
<1>1. Filed(dirs, files, D, F) /\ Len(D) \in Nat \ {0}
  BY BuiltIs
<1>2. D[1] = <<>>
  BY <1>1 DEF Filed
<1>3. DOffs[1] = 0
  BY DirOffsets DEF Piling
<1>. QED
  BY <1>1, <1>2, <1>3

\* Where the tables of a built image lie.
LEMMA TablesOfImage ==
  ASSUME PathHashIsNumber, NEW D, NEW F, Built(D, F)
  PROVE  /\ Unsigned(image) /\ TablesInside(image)
         /\ image.header.header_size = HEADER_SIZE /\ image.len >= HEADER_SIZE
         /\ image.header.file_data_offset + Len(image.data) =< image.header.dir_hash.offset
         /\ Len(image.data) \in Nat
<1>. DEFINE dh == 4 * Cardinality(DOMAIN image.dir_hash)
            fh == 4 * Cardinality(DOMAIN image.file_hash)
            dm == image.dir_meta.size
            fm == image.file_meta.size
            sizes == [dir_hash |-> dh, dir_meta |-> dm, file_hash |-> fh, file_meta |-> fm]
            t == image.tables
            l == Len(image.data)
            h == image.header
            len == image.len
<1>1. l \in Nat /\ l = DataOffsets(files).end
  BY DataInImage, LenProperties DEF Bytes
<1>2. /\ t = Align(FILEPARTITION_OFS + l, 4) /\ h = WriteHeader(sizes, l)
      /\ len = t + dh + dm + fh + fm
  BY <1>1, ImageParts, ZenonT(60)
<1>3. dh \in Nat /\ fh \in Nat
  <2>1. DOMAIN image.dir_hash = 0..(HashTableCount(Len(D)) - 1) /\ HashTableCount(Len(D)) \in Nat \ {0}
    BY ImageParts, DirBuckets DEF Hashed
  <2>2. DOMAIN image.file_hash = 0..(HashTableCount(Len(F)) - 1) /\ HashTableCount(Len(F)) \in Nat \ {0}
    BY ImageParts, FileBuckets DEF Hashed
  <2>3. IsFiniteSet(DOMAIN image.dir_hash) /\ IsFiniteSet(DOMAIN image.file_hash)
    <3>1. 0 \in Int /\ HashTableCount(Len(D)) - 1 \in Int /\ HashTableCount(Len(F)) - 1 \in Int
      BY <2>1, <2>2
    <3>. QED
      BY <2>1, <2>2, <3>1, FS_Interval
  <2>4. Cardinality(DOMAIN image.dir_hash) \in Nat /\ Cardinality(DOMAIN image.file_hash) \in Nat
    BY <2>3, FS_CardinalityType
  <2>. QED
    BY <2>4
<1>4. dm \in Nat /\ fm \in Nat
  <2>1. dm = DOffs[Len(D) + 1] /\ Piling(DOffs, DirSizes, Len(D)) /\ Len(D) \in Nat
    BY DirsInImage, DirOffsets, BuiltIs
  <2>2. fm = FOffs[Len(F) + 1] /\ Piling(FOffs, FileSizes, Len(F)) /\ Len(F) \in Nat
    BY FilesInImage, FileOffsets, BuiltIs
  <2>3. Len(D) + 1 \in 1..(Len(D) + 1) /\ Len(F) + 1 \in 1..(Len(F) + 1)
    BY <2>1, <2>2
  <2>. QED
    BY <2>1, <2>2, <2>3 DEF Piling
<1>5. t \in Nat /\ FILEPARTITION_OFS + l =< t
  <2>1. FILEPARTITION_OFS + l \in Nat
    BY <1>1 DEF FILEPARTITION_OFS
  <2>. QED
    BY <1>2, <2>1, Align4
<1>6. /\ h.dir_hash = [offset |-> t, size |-> dh]
      /\ h.dir_meta = [offset |-> t + dh, size |-> dm]
      /\ h.file_hash = [offset |-> t + dh + dm, size |-> fh]
      /\ h.file_meta = [offset |-> t + dh + dm + fh, size |-> fm]
      /\ h.file_data_offset = FILEPARTITION_OFS
      /\ h.header_size = HEADER_SIZE
  <2>1. sizes.dir_hash = dh /\ sizes.dir_meta = dm /\ sizes.file_hash = fh /\ sizes.file_meta = fm
    OBVIOUS
  <2>. HIDE DEF sizes, dh, dm, fh, fm, t, l, h
  <2>. QED
    BY <1>2, <2>1 DEF WriteHeader, Extent
<1>. HIDE DEF h, dh, dm, fh, fm, t, l, sizes, len
<1>7. /\ h.dir_hash.offset \in Nat /\ h.dir_hash.size \in Nat /\ h.dir_hash.offset + h.dir_hash.size =< len
      /\ h.dir_meta.offset \in Nat /\ h.dir_meta.size \in Nat /\ h.dir_meta.offset + h.dir_meta.size =< len
      /\ h.file_hash.offset \in Nat /\ h.file_hash.size \in Nat /\ h.file_hash.offset + h.file_hash.size =< len
      /\ h.file_meta.offset \in Nat /\ h.file_meta.size \in Nat /\ h.file_meta.offset + h.file_meta.size =< len
      /\ len \in Nat /\ h.file_data_offset + l =< h.dir_hash.offset /\ h.dir_hash.offset =< len
  BY <1>1, <1>2, <1>3, <1>4, <1>5, <1>6 DEF FILEPARTITION_OFS
<1>8. len >= HEADER_SIZE /\ h.file_data_offset \in Nat
  BY <1>1, <1>5, <1>6, <1>7 DEF FILEPARTITION_OFS, HEADER_SIZE
<1>. QED
  <2>1. \A x \in ToSet(Tables) : h[x].offset \in Nat /\ h[x].size \in Nat /\ h[x].offset + h[x].size =< len
    BY <1>7, TablesAre
  <2>2. Unsigned(image)
    BY <1>7, <1>8, <2>1 DEF Unsigned, h, len
  <2>3. TablesInside(image)
    BY <2>1 DEF TablesInside, h, len
  <2>. QED
    BY <1>1, <1>6, <1>7, <1>8, <2>2, <2>3 DEF h, len, l

\* try_from_bytes accepts what build returned, where its length is a usize.
LEMMA HeaderAccepted ==
  ASSUME PathHashIsNumber, NEW D, NEW F, Built(D, F), image.len =< USIZE_MAX
  PROVE  HeaderError(image) = "none"
<1>. DEFINE Bad(t) == Overflows(image.header[t]) \/ PastEnd(image.header[t], image.len)
            I == {k \in 1..Len(Tables) : Bad(Tables[k])}
            failing == SelectInSeq(Tables, Bad)
<1>0. Unsigned(image) /\ TablesInside(image) /\ image.header.header_size = HEADER_SIZE /\ image.len >= HEADER_SIZE
      /\ image.header.file_data_offset + Len(image.data) =< image.header.dir_hash.offset /\ Len(image.data) \in Nat
  BY TablesOfImage
<1>1. failing = IF I # {} THEN Min(I) ELSE 0
  BY DEF SelectInSeq
<1>2. ASSUME NEW t \in ToSet(Tables) PROVE ~Bad(t)
  <2>. DEFINE x == image.header[t]
  <2>1. /\ x.offset \in Nat /\ x.size \in Nat /\ x.offset + x.size =< image.len /\ image.len \in Nat
    BY <1>0 DEF Unsigned, TablesInside
  <2>. HIDE DEF x
  <2>2. ~Overflows(x) /\ ~PastEnd(x, image.len)
    BY <2>1, UsizeAssumption DEF Overflows, PastEnd
  <2>. QED
    BY <2>2 DEF x
<1>3. I = {}
  <2>1. ASSUME NEW k \in 1..Len(Tables) PROVE Tables[k] \in ToSet(Tables)
    BY TablesAre DEF Tables
  <2>. QED
    BY <1>2, <2>1
<1>4. failing = 0
  BY <1>1, <1>3
<1>5. image.header.file_data_offset =< image.len
  <2>1. /\ image.header.dir_hash.offset \in Nat /\ image.header.dir_hash.size \in Nat
        /\ image.header.dir_hash.offset + image.header.dir_hash.size =< image.len
    BY <1>0, TablesAre DEF Unsigned, TablesInside
  <2>. QED
    BY <1>0, <2>1, SMTT(60) DEF Unsigned
<1>. HIDE DEF failing, I
<1>6. ~(image.len < HEADER_SIZE) /\ image.len \in Nat /\ ~(image.header.file_data_offset > image.len)
  BY <1>0, <1>5 DEF Unsigned, HEADER_SIZE
<1>7. SelectInSeq(Tables, LAMBDA t : Overflows(image.header[t]) \/ PastEnd(image.header[t], image.len)) = 0
  BY <1>4 DEF failing
<1>. QED
  BY <1>0, <1>6, <1>7 DEF HeaderError

(***************************************************************************)
(* Searching a directory                                                   *)
(***************************************************************************)
\* A walk stands in the k-th directory, with r of the path still to go.
Stands(k, D, offs, d, r, path) ==
  k \in 1..Len(D) /\ d = offs[k] /\ r \in Seq(Text) /\ r # <<>> /\ D[k] \o r = path

\* A search stands behind the first i entries of a list; none of them has the name.
Passed(x, offs, P, i, c, name) ==
  /\ i \in 0..Len(x) /\ c = Nth(x, offs, i + 1)
  /\ \A m \in 1..i : Last(P[x[m]]) # name

LEMMA SearchEnds ==
  ASSUME NEW x, NEW offs, NEW P, NEW i, NEW name, Passed(x, offs, P, i, NO_ENTRY, name), Len(x) \in Nat,
         \A m \in 1..Len(x) : offs[x[m]] # NO_ENTRY
  PROVE  \A m \in 1..Len(x) : Last(P[x[m]]) # name
<1>1. i \in 0..Len(x) /\ NO_ENTRY = Nth(x, offs, i + 1)
  BY DEF Passed
<1>2. ASSUME i + 1 =< Len(x) PROVE FALSE
  <2>1. i + 1 \in 1..Len(x) /\ NO_ENTRY = offs[x[i + 1]]
    BY <1>1, <1>2 DEF Nth
  <2>. QED
    BY <2>1
<1>3. i = Len(x)
  BY <1>1, <1>2
<1>. QED
  BY <1>3 DEF Passed

LEMMA SearchStands ==
  ASSUME NEW x, NEW offs, NEW P, NEW i, NEW c, NEW name, Passed(x, offs, P, i, c, name), Len(x) \in Nat, c # NO_ENTRY
  PROVE  i + 1 \in 1..Len(x) /\ c = offs[x[i + 1]]
<1>1. i \in 0..Len(x) /\ c = Nth(x, offs, i + 1)
  BY DEF Passed
<1>. QED
  BY <1>1 DEF Nth

LEMMA SearchPasses ==
  ASSUME NEW x, NEW offs, NEW P, NEW i, NEW c, NEW name, Passed(x, offs, P, i, c, name), Len(x) \in Nat,
         i + 1 \in 1..Len(x), Last(P[x[i + 1]]) # name
  PROVE  Passed(x, offs, P, i + 1, Nth(x, offs, (i + 1) + 1), name)
<1>1. i \in 0..Len(x) /\ i + 1 \in 0..Len(x) /\ \A m \in 1..(i + 1) : m \in 1..i \/ m = i + 1
  BY DEF Passed
<1>. QED
  BY <1>1 DEF Passed

\* No entry has the name of one that is not listed.
LEMMA NoneListed ==
  ASSUME NEW P \in Seq(Path), NEW p \in Path, NEW name \in Text, NEW x, NEW offs, NEW table,
         Linked(x, P, p, offs, table), \A m \in 1..Len(x) : Last(P[x[m]]) # name
  PROVE  \A j \in 1..Len(P) : P[j] # Append(p, name)
<1>. SUFFICES ASSUME NEW j \in 1..Len(P), P[j] = Append(p, name) PROVE FALSE
  OBVIOUS
<1>1. p \in Seq(Text) /\ DOMAIN P = 1..Len(P)
  BY PathIs, LenProperties
<1>2. Append(p, name) # <<>> /\ Front(Append(p, name)) = p /\ Last(Append(p, name)) = name
  BY <1>1, AppendIs
<1>3. P[j] # <<>> /\ Front(P[j]) = p /\ Last(P[j]) = name
  BY <1>2
<1>4. j \in ToSet(x)
  BY <1>1, <1>3 DEF Linked, Within
<1>5. PICK m \in 1..Len(x) : x[m] = j
  BY <1>4, LenProperties DEF ToSet, Linked
<1>. QED
  BY <1>3, <1>5

\* The entry of the list that has the name.
LEMMA EntryListed ==
  ASSUME NEW P \in Seq(Path), NEW p, NEW x, NEW offs, NEW table, Linked(x, P, p, offs, table), NEW m \in 1..Len(x)
  PROVE  x[m] \in 1..Len(P) /\ P[x[m]] # <<>> /\ P[x[m]] = Append(p, Last(P[x[m]])) /\ BaseName(P[x[m]]) = Last(P[x[m]])
<1>1. x[m] \in 1..Len(P) /\ P[x[m]] # <<>> /\ Front(P[x[m]]) = p
  BY DEF Linked
<1>2. P[x[m]] \in Path
  BY <1>1, ElementOfSeq
<1>. QED
  BY <1>1, <1>2, PathIs DEF BaseName

\* Nothing is stored below a directory that is not there.
LEMMA NothingBelow ==
  ASSUME NEW D, NEW F, Built(D, F), NEW p \in Seq(Text), NEW r \in Seq(Text), Len(r) > 1,
         \A j \in 1..Len(D) : D[j] # Append(p, Head(r))
  PROVE  \A j \in 1..Len(F) : F[j] # p \o r
<1>. SUFFICES ASSUME NEW j \in 1..Len(F), F[j] = p \o r PROVE FALSE
  OBVIOUS
<1>0. r # <<>>
  BY EmptySeq
<1>1. Head(r) \in Text /\ Tail(r) \in Seq(Text) /\ Len(Tail(r)) = Len(r) - 1 /\ p \o r = Append(p, Head(r)) \o Tail(r)
  BY <1>0, StepDown
<1>. DEFINE a == Append(p, Head(r))
            t == Tail(r)
<1>2. a \in Seq(Text) /\ t \in Seq(Text) /\ t # <<>>
  BY <1>1, AppendProperties, EmptySeq, LenProperties, SMTT(60)
<1>3. F[j] = a \o t
  BY <1>1
<1>. HIDE DEF a, t
<1>4. Front(t) \in Seq(Text) /\ Front(a \o t) = a \o Front(t)
  BY <1>2, ConcatFront, SMTT(60)
<1>5. Front(F[j]) \in ToSet(D)
  BY BuiltIs, FiledIs
<1>6. a \o Front(t) \in ToSet(D)
  BY <1>3, <1>4, <1>5, SMTT(60)
<1>7. a \in ToSet(D)
  BY <1>2, <1>4, <1>6, AncestorsStored
<1>. QED
  BY <1>7, BuiltIs DEF ToSet, a

\* trim_start_matches leaves text.
LEMMA TrimmedIs ==
  ASSUME NEW path \in Seq(Text)
  PROVE  Trimmed(path) \in Seq(Text)
<1>. DEFINE Test(part) == part # <<>>
            I == {i \in 1..Len(path) : Test(path[i])}
            first == SelectInSeq(path, Test)
<1>1. first = IF I # {} THEN Min(I) ELSE 0
  BY DEF SelectInSeq
<1>2. first = 0 \/ first \in 1..Len(path)
  <2>1. I \in SUBSET Nat
    OBVIOUS
  <2>2. I # {} => Min(I) \in I
    <3>. HIDE DEF I
    <3>. QED
      BY <2>1, MinIs
  <2>. QED
    BY <1>1, <2>2
<1>3. Trimmed(path) = IF first = 0 THEN <<>> ELSE SubSeq(path, first, Len(path))
  BY DEF Trimmed
<1>. HIDE DEF first
<1>4. CASE first = 0
  BY <1>3, <1>4, EmptySeq
<1>5. CASE first \in 1..Len(path)
  <2>1. \A i \in first..Len(path) : path[i] \in Text
    BY <1>5, ElementOfSeq, LenProperties
  <2>2. SubSeq(path, first, Len(path)) \in Seq(Text)
    BY <1>5, <2>1, SubSeqProperties, LenProperties
  <2>3. first # 0
    BY <1>5
  <2>. QED
    BY <1>3, <2>2, <2>3
<1>. QED
  BY <1>2, <1>4, <1>5

(***************************************************************************)
(* open on the image that was built                                        *)
(***************************************************************************)
Asks == asked \in OpenPaths /\ Trimmed(asked) # <<>>

\* find_dir: the next part is sought among the children of a directory.
SeeksDir(D) ==
  /\ Asks /\ Len(rest) > 1
  /\ \E k : /\ Stands(k, D, DOffs, dir, rest, Trimmed(asked))
            /\ \E i : Passed(dirs[k].children, DOffs, D, i, cursor, Head(rest))

\* find_file: the last part is sought among the files of a directory.
SeeksFile(D, F) ==
  /\ Asks /\ Len(rest) = 1
  /\ \E k : /\ Stands(k, D, DOffs, dir, rest, Trimmed(asked))
            /\ \E i : Passed(dirs[k].files, FOffs, F, i, cursor, Head(rest))

\* The file asked for is found.
Finds(F) == Asks /\ \E j \in 1..Len(F) : cursor = FOffs[j] /\ F[j] = Trimmed(asked)

\* The reader answers with what is stored under the path asked for.
Answers(F) ==
  \/ HeaderError(image) # "none" /\ result = Err(HeaderError(image))
  \/ result = Err("PathNotFound")
  \/ Asks /\ \E j \in 1..Len(F) : F[j] = Trimmed(asked) /\ result = Ok(files[j].data)
  \/ /\ Asks /\ \A j \in 1..Len(F) : F[j] # Trimmed(asked)
     /\ result \in {Err("FileNotFound"), Err("DirNotFound")}

LEMMA OneOrMore ==
  /\ \A l \in Nat \ {0} : l > 1 \/ l = 1
  /\ \A l \in Nat : l > 1 => l - 1 # 0
  OBVIOUS

LEMMA Stay ==
  ASSUME UNCHANGED bVars
  PROVE  /\ phase' = phase /\ dirs' = dirs /\ files' = files /\ tree' = tree /\ image' = image
         /\ DOffs' = DOffs /\ FOffs' = FOffs
  BY DEF bVars, DOffs, FOffs, DirSizes, FileSizes

LEMMA ResolveSeeks ==
  ASSUME PathHashIsNumber, NEW D, NEW F, Built(D, F), img = image, UNCHANGED bVars, NEW k \in 1..Len(D),
         NEW parts \in Seq(Text), parts # <<>>, Asks', D[k] \o parts = Trimmed(asked'), Resolve(parts, DOffs[k])
  PROVE  \/ rpc' = "find_dir" /\ SeeksDir(D)'
         \/ rpc' = "find_file" /\ SeeksFile(D, F)'
<1>1. rest' = parts /\ dir' = DOffs[k] /\ dirs' = dirs /\ DOffs' = DOffs /\ FOffs' = FOffs
  BY Stay DEF Resolve
<1>2. /\ DirAt(DOffs[k]).child = Nth(dirs[k].children, DOffs, 0 + 1)
      /\ DirAt(DOffs[k]).file = Nth(dirs[k].files, FOffs, 0 + 1)
  BY DirFound
<1>3. Len(parts) \in Nat \ {0}
  BY EmptySeq, LenProperties
<1>4. Stands(k, D, DOffs', dir', rest', Trimmed(asked'))
  BY <1>1, SMTT(60) DEF Stands
<1>5. Len(dirs[k].children) \in Nat /\ Len(dirs[k].files) \in Nat
  BY DirsLinked, FilesLinked DEF Linked
<1>6. CASE Len(parts) > 1
  <2>1. rpc' = "find_dir" /\ cursor' = Nth(dirs[k].children, DOffs, 0 + 1)
    BY <1>2, <1>6 DEF Resolve
  <2>2. Passed(dirs'[k].children, DOffs', D, 0, cursor', Head(rest'))
    BY <1>1, <1>5, <2>1 DEF Passed
  <2>3. Len(rest') > 1
    BY <1>1, <1>6
  <2>. QED
    BY <1>4, <2>1, <2>2, <2>3 DEF SeeksDir
<1>7. CASE Len(parts) = 1
  <2>1. rpc' = "find_file" /\ cursor' = Nth(dirs[k].files, FOffs, 0 + 1)
    BY <1>2, <1>7 DEF Resolve
  <2>2. Passed(dirs'[k].files, FOffs', F, 0, cursor', Head(rest'))
    BY <1>1, <1>5, <2>1 DEF Passed
  <2>3. Len(rest') = 1
    BY <1>1, <1>7
  <2>. QED
    BY <1>4, <2>1, <2>2, <2>3 DEF SeeksFile
<1>8. Len(parts) > 1 \/ Len(parts) = 1
  BY <1>3, OneOrMore, Zenon
<1>. QED
  BY <1>6, <1>7, <1>8, Zenon

\* The k-th directory's subdirectories or files, as a search finds them.
LEMMA OpenStarts ==
  ASSUME PathHashIsNumber, NEW D, NEW F, Built(D, F), img = image, UNCHANGED bVars,
         NEW path \in OpenPaths, Open(path)
  PROVE  \/ rpc' = "done" /\ Answers(F)'
         \/ rpc' = "find_dir" /\ SeeksDir(D)'
         \/ rpc' = "find_file" /\ SeeksFile(D, F)'
<1>. DEFINE parts == Trimmed(path)
<1>1. parts \in Seq(Text) /\ asked' = path
  BY TrimmedIs, OpenPathsSupplied DEF Open
<1>2. CASE parts = <<>>
  BY <1>2 DEF Open, Answers
<1>3. CASE parts # <<>>
  <2>1. 1 \in 1..Len(D) /\ D[1] = <<>> /\ DOffs[1] = 0
    BY RootFound
  <2>2. ReadableDir(DOffs[1])
    BY <2>1, DirFound
  <2>3. Resolve(parts, DOffs[1])
    BY <1>3, <2>1, <2>2 DEF Open
  <2>4. D[1] \o parts = Trimmed(asked')
    BY <1>1, <2>1, ConcatEmptySeq
  <2>5. Asks'
    BY <1>1, <1>3 DEF Asks
  <2>. HIDE DEF parts
  <2>. QED
    BY <1>1, <1>3, <2>1, <2>3, <2>4, <2>5, ResolveSeeks
<1>. QED
  BY <1>2, <1>3

LEMMA FindDirSeeks ==
  ASSUME PathHashIsNumber, NEW D, NEW F, Built(D, F), img = image, UNCHANGED bVars, SeeksDir(D), FindDir
  PROVE  \/ rpc' = "done" /\ Answers(F)'
         \/ rpc' = "find_dir" /\ SeeksDir(D)'
         \/ rpc' = "find_file" /\ SeeksFile(D, F)'
<1>1. PICK k : /\ Stands(k, D, DOffs, dir, rest, Trimmed(asked))
               /\ \E i : Passed(dirs[k].children, DOffs, D, i, cursor, Head(rest))
  BY DEF SeeksDir
<1>2. k \in 1..Len(D) /\ rest \in Seq(Text) /\ rest # <<>> /\ D[k] \o rest = Trimmed(asked) /\ dir = DOffs[k]
  BY <1>1 DEF Stands
<1>. DEFINE x == dirs[k].children
            name == Head(rest)
<1>3. PICK i : Passed(x, DOffs, D, i, cursor, name)
  BY <1>1
<1>4. Linked(x, D, D[k], DOffs, image.dir_meta)
  BY <1>2, DirsLinked
<1>5. D \in Seq(Path) /\ D[k] \in Path /\ D[k] \in Seq(Text)
  BY <1>2, BuiltIs, ElementOfSeq, PathIs
<1>6. name \in Text /\ Tail(rest) \in Seq(Text) /\ Len(Tail(rest)) = Len(rest) - 1 /\ Len(rest) > 1
      /\ D[k] \o rest = Append(D[k], name) \o Tail(rest)
  BY <1>2, <1>5, StepDown DEF SeeksDir
<1>. HIDE DEF x, name
<1>7. Len(x) \in Nat /\ \A m \in 1..Len(x) : x[m] \in 1..Len(D)
  BY <1>4 DEF Linked
<1>8. CASE cursor = NO_ENTRY
  <2>1. \A m \in 1..Len(x) : DOffs[x[m]] # NO_ENTRY
    BY <1>7, DirFound
  <2>2. \A m \in 1..Len(x) : Last(D[x[m]]) # name
    <3>1. Passed(x, DOffs, D, i, NO_ENTRY, name)
      BY <1>3, <1>8
    <3>. QED
      BY <1>7, <2>1, <3>1, SearchEnds
  <2>3. \A j \in 1..Len(D) : D[j] # Append(D[k], name)
    BY <1>4, <1>5, <1>6, <2>2, NoneListed
  <2>4. \A j \in 1..Len(F) : F[j] # D[k] \o rest
    BY <1>2, <1>5, <1>6, <2>3, NothingBelow DEF name
  <2>5. rpc' = "done" /\ result' = Err("DirNotFound") /\ asked' = asked
    BY <1>8 DEF FindDir, RReturn
  <2>6. Asks'
    BY <2>5 DEF SeeksDir, Asks
  <2>. QED
    BY <1>2, <2>4, <2>5, <2>6 DEF Answers
<1>9. CASE cursor # NO_ENTRY
  <2>1. i + 1 \in 1..Len(x) /\ cursor = DOffs[x[i + 1]]
    BY <1>3, <1>7, <1>9, SearchStands
  <2>. DEFINE c == x[i + 1]
  <2>2. c \in 1..Len(D) /\ D[c] = Append(D[k], Last(D[c])) /\ BaseName(D[c]) = Last(D[c])
    BY <1>4, <1>5, <2>1, EntryListed, SMTT(60)
  <2>. HIDE DEF c
  <2>3. cursor = DOffs[c]
    BY <2>1 DEF c
  <2>4. ReadableDir(cursor) /\ NameOf(DirAt(cursor)) = Last(D[c])
    BY <2>2, <2>3, DirFound
  <2>5. CASE Last(D[c]) = name
    <3>1. Resolve(Tail(rest), DOffs[c]) /\ asked' = asked
      BY <1>9, <2>3, <2>4, <2>5 DEF FindDir, name
    <3>2. D[c] \o Tail(rest) = Trimmed(asked')
      BY <1>2, <1>6, <2>2, <2>5, <3>1
    <3>3. Asks'
      BY <3>1 DEF SeeksDir, Asks
    <3>4. Tail(rest) # <<>>
      <4>1. Len(rest) \in Nat
        BY <1>2, LenProperties
      <4>2. Len(Tail(rest)) = Len(rest) - 1 /\ Len(rest) > 1 /\ Len(rest) \in Nat
        BY <1>6, <4>1, Zenon
      <4>3. Len(rest) - 1 # 0
        BY <4>2, OneOrMore, Zenon
      <4>4. Len(Tail(rest)) # 0
        BY <4>2, <4>3, Zenon
      <4>5. Tail(rest) \in Seq(Text)
        BY <1>6, Zenon
      <4>. QED
        BY <4>4, <4>5, EmptySeq, Zenon
    <3>. QED
      BY <1>6, <2>2, <3>1, <3>2, <3>3, <3>4, ResolveSeeks
  <2>6. CASE Last(D[c]) # name
    <3>1. /\ rpc' = "find_dir" /\ rest' = rest /\ dir' = dir /\ asked' = asked
          /\ cursor' = DirAt(cursor).sibling
      BY <1>9, <2>4, <2>6 DEF FindDir, name
    <3>2. cursor' = Nth(x, DOffs, (i + 1) + 1)
      BY <1>4, <2>1, <3>1 DEF Linked, DirAt
    <3>3. Passed(x, DOffs, D, i + 1, cursor', name)
      BY <1>3, <1>7, <2>1, <2>6, <3>2, SearchPasses DEF c
    <3>4. dirs' = dirs /\ DOffs' = DOffs
      BY Stay
    <3>5. Passed(dirs'[k].children, DOffs', D, i + 1, cursor', Head(rest'))
      BY <3>1, <3>3, <3>4 DEF x, name
    <3>6. Stands(k, D, DOffs', dir', rest', Trimmed(asked'))
      BY <1>1, <3>1, <3>4
    <3>7. Asks' /\ Len(rest') > 1
      BY <1>6, <3>1 DEF SeeksDir, Asks
    <3>. QED
      BY <3>1, <3>5, <3>6, <3>7 DEF SeeksDir
  <2>. QED
    BY <2>5, <2>6
<1>. QED
  BY <1>8, <1>9

LEMMA FindFileSeeks ==
  ASSUME PathHashIsNumber, NEW D, NEW F, Built(D, F), img = image, UNCHANGED bVars, SeeksFile(D, F), FindFile
  PROVE  \/ rpc' = "done" /\ Answers(F)'
         \/ rpc' = "data" /\ Finds(F)'
         \/ rpc' = "find_file" /\ SeeksFile(D, F)'
<1>1. PICK k : /\ Stands(k, D, DOffs, dir, rest, Trimmed(asked))
               /\ \E i : Passed(dirs[k].files, FOffs, F, i, cursor, Head(rest))
  BY DEF SeeksFile
<1>2. k \in 1..Len(D) /\ rest \in Seq(Text) /\ rest # <<>> /\ D[k] \o rest = Trimmed(asked) /\ dir = DOffs[k]
  BY <1>1 DEF Stands
<1>. DEFINE x == dirs[k].files
            name == Head(rest)
<1>3. PICK i : Passed(x, FOffs, F, i, cursor, name)
  BY <1>1
<1>4. Linked(x, F, D[k], FOffs, image.file_meta)
  BY <1>2, FilesLinked
<1>5. F \in Seq(Path) /\ D[k] \in Path /\ D[k] \in Seq(Text)
  BY <1>2, BuiltIs, ElementOfSeq, PathIs
<1>6. name \in Text /\ Len(rest) = 1 /\ D[k] \o rest = Append(D[k], name)
  BY <1>2, <1>5, StepDown, OneStep DEF SeeksFile
<1>. HIDE DEF x, name
<1>7. Len(x) \in Nat /\ \A m \in 1..Len(x) : x[m] \in 1..Len(F)
  BY <1>4 DEF Linked
<1>8. CASE cursor = NO_ENTRY
  <2>1. \A m \in 1..Len(x) : FOffs[x[m]] # NO_ENTRY
    BY <1>7, FileFound
  <2>2. \A m \in 1..Len(x) : Last(F[x[m]]) # name
    <3>1. Passed(x, FOffs, F, i, NO_ENTRY, name)
      BY <1>3, <1>8
    <3>. QED
      BY <1>7, <2>1, <3>1, SearchEnds
  <2>3. \A j \in 1..Len(F) : F[j] # Append(D[k], name)
    BY <1>4, <1>5, <1>6, <2>2, NoneListed
  <2>5. rpc' = "done" /\ result' = Err("FileNotFound") /\ asked' = asked
    BY <1>8 DEF FindFile, RReturn
  <2>6. Asks'
    BY <2>5 DEF SeeksFile, Asks
  <2>. QED
    BY <1>2, <1>6, <2>3, <2>5, <2>6 DEF Answers
<1>9. CASE cursor # NO_ENTRY
  <2>1. i + 1 \in 1..Len(x) /\ cursor = FOffs[x[i + 1]]
    BY <1>3, <1>7, <1>9, SearchStands
  <2>. DEFINE c == x[i + 1]
  <2>2. c \in 1..Len(F) /\ F[c] = Append(D[k], Last(F[c])) /\ BaseName(F[c]) = Last(F[c])
    BY <1>4, <1>5, <2>1, EntryListed, SMTT(60)
  <2>. HIDE DEF c
  <2>3. cursor = FOffs[c]
    BY <2>1 DEF c
  <2>4. ReadableFile(cursor) /\ NameOf(FileAt(cursor)) = Last(F[c])
    BY <2>2, <2>3, FileFound
  <2>5. CASE Last(F[c]) = name
    <3>1. rpc' = "data" /\ cursor' = cursor /\ asked' = asked
      BY <1>9, <2>4, <2>5 DEF FindFile, name
    <3>2. F[c] = Trimmed(asked') /\ cursor' = FOffs'[c]
      BY <1>2, <1>6, <2>2, <2>3, <2>5, <3>1, Stay
    <3>3. Asks'
      BY <3>1 DEF SeeksFile, Asks
    <3>. QED
      BY <2>2, <3>1, <3>2, <3>3 DEF Finds
  <2>6. CASE Last(F[c]) # name
    <3>1. /\ rpc' = "find_file" /\ rest' = rest /\ dir' = dir /\ asked' = asked
          /\ cursor' = FileAt(cursor).sibling
      BY <1>9, <2>4, <2>6 DEF FindFile, name
    <3>2. cursor' = Nth(x, FOffs, (i + 1) + 1)
      BY <1>4, <2>1, <3>1 DEF Linked, FileAt
    <3>3. Passed(x, FOffs, F, i + 1, cursor', name)
      BY <1>3, <1>7, <2>1, <2>6, <3>2, SearchPasses DEF c
    <3>4. dirs' = dirs /\ DOffs' = DOffs /\ FOffs' = FOffs
      BY Stay
    <3>5. Passed(dirs'[k].files, FOffs', F, i + 1, cursor', Head(rest'))
      BY <3>1, <3>3, <3>4 DEF x, name
    <3>6. Stands(k, D, DOffs', dir', rest', Trimmed(asked'))
      BY <1>1, <3>1, <3>4
    <3>7. Asks' /\ Len(rest') = 1
      BY <1>6, <3>1 DEF SeeksFile, Asks
    <3>. QED
      BY <3>1, <3>5, <3>6, <3>7 DEF SeeksFile
  <2>. QED
    BY <2>5, <2>6
<1>. QED
  BY <1>8, <1>9

LEMMA DataAnswers ==
  ASSUME PathHashIsNumber, NEW D, NEW F, Built(D, F), img = image, UNCHANGED bVars, Finds(F), Data,
         HeaderError(image) = "none"
  PROVE  rpc' = "done" /\ Answers(F)'
<1>1. PICK j \in 1..Len(F) : cursor = FOffs[j] /\ F[j] = Trimmed(asked)
  BY DEF Finds
<1>. DEFINE e == FileAt(cursor)
            d == DataOf(F[j])
            h == image.header
            o == DataOffset(F[j])
<1>2. e.data_offset = o /\ e.data_size = Len(d)
  BY <1>1, FileFound
<1>3. LiesAt(image.data, o, d) /\ d \in Bytes /\ o \in Nat /\ image.data \in Bytes
  BY <1>1, DataInImage
<1>4. /\ Unsigned(image) /\ h.file_data_offset + Len(image.data) =< h.dir_hash.offset /\ Len(image.data) \in Nat
      /\ h.dir_hash.offset + h.dir_hash.size =< image.len /\ h.dir_hash.offset + h.dir_hash.size =< USIZE_MAX
      /\ h.dir_hash.offset \in Nat /\ h.dir_hash.size \in Nat /\ h.file_data_offset \in Nat /\ image.len \in Nat
  <2>1. Unsigned(image) /\ h.file_data_offset + Len(image.data) =< h.dir_hash.offset /\ Len(image.data) \in Nat
    BY TablesOfImage
  <2>2. "dir_hash" \in ToSet(Tables)
    BY TablesAre
  <2>. QED
    BY <2>1, <2>2, HeaderChecked DEF TablesInside, Unsigned
<1>. DEFINE off == h.file_data_offset
            size == Len(d)
<1>5. /\ size \in Nat /\ off + o + size =< image.len /\ off + o + size =< USIZE_MAX
      /\ off \in Nat /\ o \in Nat /\ SubSeq(image.data, o + 1, o + size) = d
  <2>1. SubSeq(image.data, o + 1, o + size) = d
    <3>. HIDE DEF d, o
    <3>. QED
      BY <1>3, SliceIs, ZenonT(60) DEF Bytes, size
  <2>2. size \in Nat /\ o + size =< Len(image.data)
    BY <1>3, LenProperties DEF LiesAt, Bytes
  <2>3. o \in Nat
    BY <1>3
  <2>. DEFINE l == Len(image.data)
              a == h.dir_hash.offset
              b == h.dir_hash.size
              len == image.len
  <2>4. /\ off \in Nat /\ a \in Nat /\ b \in Nat /\ l \in Nat /\ len \in Nat /\ off + l =< a
        /\ a + b =< len /\ a + b =< USIZE_MAX
    BY <1>4
  <2>5. o + size =< l
    BY <2>2
  <2>. HIDE DEF d, o, size, off, h, l, a, b, len
  <2>6. off + o + size =< len /\ off + o + size =< USIZE_MAX
    BY <2>2, <2>3, <2>4, <2>5, UsizeAssumption
  <2>. QED
    BY <2>1, <2>2, <2>3, <2>4, <2>6 DEF len
<1>6. abs_start = off + o /\ abs_end = (off + o) + size
  BY <1>2 DEF abs_start, abs_end
<1>. HIDE DEF d, o, size, off, h
<1>7. ~(abs_end > USIZE_MAX) /\ ~(abs_end > img.len)
  BY <1>5, <1>6, UsizeAssumption, <1>4, SMTT(60) DEF off
<1>8. Slice(o, size) = Ok(d)
  BY <1>5 DEF Slice, off, h
<1>9. RReturn(Slice(o, size))
  BY <1>2, <1>7 DEF Data, size
<1>10. d = files[j].data
  BY BuiltIs DEF d
<1>11. rpc' = "done" /\ result' = Ok(files[j].data) /\ asked' = asked
  BY <1>8, <1>9, <1>10 DEF RReturn
<1>12. Asks'
  BY <1>11 DEF Finds, Asks
<1>13. F[j] = Trimmed(asked') /\ files' = files
  BY <1>1, <1>11, Stay
<1>. QED
  BY <1>11, <1>12, <1>13 DEF Answers

(***************************************************************************)
(* entries on the image that was built                                     *)
(***************************************************************************)
\* What the iterator returns for a subdirectory and for a file.
DirItem(offs, D, c) == [kind |-> "dir", at |-> offs[c], name |-> Last(D[c])]
FileItem(offs, F, c) == [kind |-> "file", at |-> offs[c], name |-> Last(F[c])]

\* The first i subdirectories and the first j files.
Items(dirOffs, fileOffs, D, F, x, y, i, j) ==
  [m \in 1..(i + j) |-> IF m =< i THEN DirItem(dirOffs, D, x[m]) ELSE FileItem(fileOffs, F, y[m - i])]

\* An iteration of the k-th directory has returned i subdirectories, and j files after the last of them.
Iterates(D, F, k, i, j) ==
  /\ k \in 1..Len(D) /\ dir = DOffs[k]
  /\ i \in 0..Len(dirs[k].children) /\ j \in 0..Len(dirs[k].files)
  /\ j = 0 \/ i = Len(dirs[k].children)
  /\ cursor = Nth(dirs[k].children, DOffs, i + 1)
  /\ fcursor = Nth(dirs[k].files, FOffs, j + 1)
  /\ yielded = Items(DOffs, FOffs, D, F, dirs[k].children, dirs[k].files, i, j)

Walks(D, F) == \E k, i, j : Iterates(D, F, k, i, j)
Ended(D, F) == \E k : Iterates(D, F, k, Len(dirs[k].children), Len(dirs[k].files))

\* A list of n items, and two that agree up to n.
ListOf(n, s) == s = [m \in 1..n |-> s[m]]
Agree(n, f, h) == \A m \in 1..n : f[m] = h[m]

LEMMA AppendList ==
  ASSUME NEW n \in Nat, NEW f, NEW h, ListOf(n, f), ListOf(n + 1, h), Agree(n, f, h)
  PROVE  Append(f, h[n + 1]) = h
<1>. DEFINE S == {h[m] : m \in 1..(n + 1)}
            s == Append(f, h[n + 1])
<1>0. f = [m \in 1..n |-> f[m]] /\ h = [m \in 1..(n + 1) |-> h[m]] /\ \A m \in 1..n : f[m] = h[m]
  BY DEF ListOf, Agree
<1>1. \A m \in 1..n : m \in 1..(n + 1)
  OBVIOUS
<1>2. n + 1 \in 1..(n + 1)
  OBVIOUS
<1>3. \A m \in 1..n : f[m] \in S
  BY <1>0, <1>1
<1>4. h[n + 1] \in S /\ \A m \in 1..(n + 1) : h[m] \in S
  BY <1>2
<1>. HIDE DEF S
<1>5. f \in [1..n -> S] /\ h \in [1..(n + 1) -> S]
  BY <1>0, <1>3, <1>4
<1>6. f \in Seq(S) /\ Len(f) = n
  BY <1>5, ListIsSeq
<1>7. h \in Seq(S) /\ Len(h) = n + 1
  <2>1. n + 1 \in Nat
    OBVIOUS
  <2>. QED
    BY <1>5, <2>1, ListIsSeq
<1>8. s \in Seq(S) /\ Len(s) = n + 1 /\ (\A m \in 1..n : s[m] = f[m]) /\ s[n + 1] = h[n + 1]
  BY <1>4, <1>6, AppendProperties
<1>. HIDE DEF s
<1>9. ASSUME NEW m \in 1..Len(s) PROVE s[m] = h[m]
  <2>1. m \in 1..n \/ m = n + 1
    BY <1>8
  <2>. QED
    BY <1>0, <1>8, <2>1
<1>10. s = h
  BY <1>7, <1>8, <1>9, SeqEqual
<1>. QED
  BY <1>10 DEF s

\* What a list of i subdirectories and j files holds.
Enumerates(s, p, q, D, F, x, y, i, j) ==
  /\ ListOf(i + j, s) /\ DOMAIN s = 1..(i + j)
  /\ \A m \in 1..i : s[m] = DirItem(p, D, x[m])
  /\ \A m \in 1..j : s[i + m] = FileItem(q, F, y[m])

LEMMA ItemsAre ==
  ASSUME NEW p, NEW q, NEW D, NEW F, NEW x, NEW y, NEW i \in Nat, NEW j \in Nat
  PROVE  Enumerates(Items(p, q, D, F, x, y, i, j), p, q, D, F, x, y, i, j)
<1>. DEFINE s == Items(p, q, D, F, x, y, i, j)
<1>1. s = [m \in 1..(i + j) |-> IF m =< i THEN DirItem(p, D, x[m]) ELSE FileItem(q, F, y[m - i])]
  BY DEF Items
<1>. HIDE DEF s
<1>2. s = [m \in 1..(i + j) |-> s[m]] /\ DOMAIN s = 1..(i + j)
  BY <1>1
<1>3. ASSUME NEW m \in 1..i PROVE s[m] = DirItem(p, D, x[m])
  <2>1. m \in 1..(i + j) /\ m =< i
    OBVIOUS
  <2>. QED
    BY <1>1, <2>1
<1>4. ASSUME NEW m \in 1..j PROVE s[i + m] = FileItem(q, F, y[m])
  <2>1. i + m \in 1..(i + j) /\ ~(i + m =< i) /\ (i + m) - i = m
    OBVIOUS
  <2>. QED
    BY <1>1, <2>1
<1>. QED
  BY <1>2, <1>3, <1>4 DEF s, Enumerates, ListOf

LEMMA NoItems ==
  ASSUME NEW p, NEW q, NEW D, NEW F, NEW x, NEW y
  PROVE  Items(p, q, D, F, x, y, 0, 0) = <<>>
<1>. DEFINE s == Items(p, q, D, F, x, y, 0, 0)
<1>1. Enumerates(s, p, q, D, F, x, y, 0, 0)
  BY ItemsAre
<1>. HIDE DEF s
<1>2. s \in [1..0 -> {}]
  BY <1>1 DEF Enumerates, ListOf
<1>3. s \in Seq({}) /\ Len(s) = 0
  BY <1>2, ListIsSeq
<1>4. s = <<>>
  BY <1>3, EmptySeq
<1>. QED
  BY <1>4 DEF s

LEMMA EnumeratesOneMoreDir ==
  ASSUME NEW p, NEW q, NEW D, NEW F, NEW x, NEW y, NEW i \in Nat, NEW s, NEW t,
         Enumerates(s, p, q, D, F, x, y, i, 0), Enumerates(t, p, q, D, F, x, y, i + 1, 0)
  PROVE  Append(s, DirItem(p, D, x[i + 1])) = t
<1>1. i + 0 = i /\ (i + 1) + 0 = i + 1 /\ i + 1 \in 1..(i + 1) /\ \A m \in 1..i : m \in 1..(i + 1)
  OBVIOUS
<1>2. ListOf(i, s) /\ ListOf(i + 1, t)
  BY <1>1 DEF Enumerates
<1>3. Agree(i, s, t)
  BY <1>1 DEF Enumerates, Agree
<1>4. t[i + 1] = DirItem(p, D, x[i + 1])
  BY <1>1 DEF Enumerates
<1>5. Append(s, t[i + 1]) = t
  BY <1>2, <1>3, AppendList
<1>. QED
  BY <1>4, <1>5

LEMMA OneMoreDir ==
  ASSUME NEW p, NEW q, NEW D, NEW F, NEW x, NEW y, NEW i \in Nat
  PROVE  Append(Items(p, q, D, F, x, y, i, 0), DirItem(p, D, x[i + 1])) = Items(p, q, D, F, x, y, i + 1, 0)
<1>1. i + 1 \in Nat /\ 0 \in Nat
  OBVIOUS
<1>2. Enumerates(Items(p, q, D, F, x, y, i, 0), p, q, D, F, x, y, i, 0)
  BY <1>1, ItemsAre
<1>3. Enumerates(Items(p, q, D, F, x, y, i + 1, 0), p, q, D, F, x, y, i + 1, 0)
  BY <1>1, ItemsAre
<1>. QED
  BY <1>2, <1>3, EnumeratesOneMoreDir

LEMMA EnumeratesOneMoreFile ==
  ASSUME NEW p, NEW q, NEW D, NEW F, NEW x, NEW y, NEW i \in Nat, NEW j \in Nat, NEW s, NEW t,
         Enumerates(s, p, q, D, F, x, y, i, j), Enumerates(t, p, q, D, F, x, y, i, j + 1)
  PROVE  Append(s, FileItem(q, F, y[j + 1])) = t
<1>. DEFINE n == i + j
<1>0. n \in Nat /\ i + (j + 1) = n + 1 /\ j + 1 \in 1..(j + 1)
  OBVIOUS
<1>1. ListOf(n, s) /\ ListOf(n + 1, t)
  BY <1>0 DEF Enumerates
<1>2. (\A m \in 1..i : s[m] = DirItem(p, D, x[m])) /\ \A m \in 1..j : s[i + m] = FileItem(q, F, y[m])
  BY DEF Enumerates
<1>3. (\A m \in 1..i : t[m] = DirItem(p, D, x[m])) /\ \A m \in 1..(j + 1) : t[i + m] = FileItem(q, F, y[m])
  BY DEF Enumerates
<1>4. ASSUME NEW m \in 1..n PROVE s[m] = t[m]
  <2>1. CASE m =< i
    <3>1. m \in 1..i
      BY <2>1
    <3>. QED
      BY <1>2, <1>3, <3>1
  <2>2. CASE ~(m =< i)
    <3>. DEFINE l == m - i
    <3>1. l \in 1..j /\ l \in 1..(j + 1) /\ i + l = m
      BY <2>2
    <3>. HIDE DEF l
    <3>2. s[i + l] = t[i + l]
      BY <1>2, <1>3, <3>1
    <3>. QED
      BY <3>1, <3>2
  <2>. QED
    BY <2>1, <2>2
<1>5. Agree(n, s, t)
  BY <1>4 DEF Agree
<1>6. t[n + 1] = FileItem(q, F, y[j + 1])
  BY <1>0, <1>3
<1>. HIDE DEF n
<1>7. Append(s, t[n + 1]) = t
  BY <1>0, <1>1, <1>5, AppendList
<1>. QED
  BY <1>6, <1>7

LEMMA OneMoreFile ==
  ASSUME NEW p, NEW q, NEW D, NEW F, NEW x, NEW y, NEW i \in Nat, NEW j \in Nat
  PROVE  Append(Items(p, q, D, F, x, y, i, j), FileItem(q, F, y[j + 1])) = Items(p, q, D, F, x, y, i, j + 1)
<1>1. j + 1 \in Nat
  OBVIOUS
<1>2. Enumerates(Items(p, q, D, F, x, y, i, j), p, q, D, F, x, y, i, j)
  BY ItemsAre
<1>3. Enumerates(Items(p, q, D, F, x, y, i, j + 1), p, q, D, F, x, y, i, j + 1)
  BY <1>1, ItemsAre
<1>. QED
  BY <1>2, <1>3, EnumeratesOneMoreFile, ZenonT(60)

LEMMA NthThere ==
  ASSUME NEW x, NEW offs, Len(x) \in Nat, NEW i \in 0..Len(x), i # Len(x) \/ Nth(x, offs, i + 1) # NO_ENTRY
  PROVE  i # Len(x) /\ i + 1 \in 1..Len(x) /\ Nth(x, offs, i + 1) = offs[x[i + 1]]
<1>1. CASE i # Len(x)
  <2>1. i + 1 \in 1..Len(x)
    BY <1>1
  <2>. QED
    BY <1>1, <2>1 DEF Nth
<1>2. CASE i = Len(x)
  <2>1. ~(i + 1 =< Len(x))
    BY <1>2
  <2>2. Nth(x, offs, i + 1) = NO_ENTRY
    BY <2>1 DEF Nth
  <2>. QED
    BY <1>2, <2>2
<1>. QED
  BY <1>1, <1>2

LEMMA BeginIterates ==
  ASSUME PathHashIsNumber, NEW D, NEW F, Built(D, F), img = image, UNCHANGED bVars, NEW k \in 1..Len(D),
         BeginEntries(DOffs[k])
  PROVE  rpc' = "iter" /\ Walks(D, F)'
<1>1. dirs' = dirs /\ DOffs' = DOffs /\ FOffs' = FOffs
  BY Stay
<1>2. /\ DirAt(DOffs[k]).child = Nth(dirs[k].children, DOffs, 1)
      /\ DirAt(DOffs[k]).file = Nth(dirs[k].files, FOffs, 1)
  BY DirFound, SMTT(60)
<1>3. Len(dirs[k].children) \in Nat /\ Len(dirs[k].files) \in Nat
  BY DirsLinked, FilesLinked DEF Linked
<1>4. /\ rpc' = "iter" /\ dir' = DOffs[k] /\ yielded' = <<>>
      /\ cursor' = Nth(dirs[k].children, DOffs, 0 + 1) /\ fcursor' = Nth(dirs[k].files, FOffs, 0 + 1)
  BY <1>2 DEF BeginEntries
<1>5. yielded' = Items(DOffs, FOffs, D, F, dirs[k].children, dirs[k].files, 0, 0)
  BY <1>4, NoItems
<1>6. Iterates(D, F, k, 0, 0)'
  BY <1>1, <1>3, <1>4, <1>5 DEF Iterates
<1>. QED
  BY <1>4, <1>6 DEF Walks

\* Where an iteration that has returned i subdirectories and j files stands.
LEMMA Stood ==
  ASSUME PathHashIsNumber, NEW D, NEW F, Built(D, F), img = image, NEW k, NEW i, NEW j, Iterates(D, F, k, i, j)
  PROVE  /\ k \in 1..Len(D) /\ i \in Nat /\ j \in Nat
         /\ (DirReady => i # Len(dirs[k].children)) /\ (~DirReady => i = Len(dirs[k].children))
         /\ (FileReady => j # Len(dirs[k].files)) /\ (~FileReady => j = Len(dirs[k].files))
         /\ i # Len(dirs[k].children) =>
              /\ i + 1 \in 1..Len(dirs[k].children) /\ j = 0
              /\ NameOf(DirAt(cursor)) = Last(D[dirs[k].children[i + 1]])
              /\ cursor = DOffs[dirs[k].children[i + 1]]
              /\ DirAt(cursor).sibling = Nth(dirs[k].children, DOffs, (i + 1) + 1)
         /\ j # Len(dirs[k].files) =>
              /\ j + 1 \in 1..Len(dirs[k].files)
              /\ NameOf(FileAt(fcursor)) = Last(F[dirs[k].files[j + 1]])
              /\ fcursor = FOffs[dirs[k].files[j + 1]]
              /\ FileAt(fcursor).sibling = Nth(dirs[k].files, FOffs, (j + 1) + 1)
<1>. DEFINE x == dirs[k].children
            y == dirs[k].files
<1>1. /\ k \in 1..Len(D) /\ i \in 0..Len(x) /\ j \in 0..Len(y) /\ (j = 0 \/ i = Len(x))
      /\ cursor = Nth(x, DOffs, i + 1) /\ fcursor = Nth(y, FOffs, j + 1)
  BY DEF Iterates
<1>2. Linked(x, D, D[k], DOffs, image.dir_meta) /\ Linked(y, F, D[k], FOffs, image.file_meta)
  BY <1>1, DirsLinked, FilesLinked, SMTT(60)
<1>3. Len(x) \in Nat /\ Len(y) \in Nat
  BY <1>2 DEF Linked
<1>4. D \in Seq(Path) /\ F \in Seq(Path)
  BY BuiltIs
<1>. HIDE DEF x, y
<1>5. ASSUME i # Len(x) \/ cursor # NO_ENTRY
      PROVE  /\ i # Len(x) /\ i + 1 \in 1..Len(x) /\ j = 0 /\ DirReady
             /\ NameOf(DirAt(cursor)) = Last(D[x[i + 1]])
             /\ cursor = DOffs[x[i + 1]]
             /\ DirAt(cursor).sibling = Nth(x, DOffs, (i + 1) + 1)
  <2>1. i # Len(x) /\ i + 1 \in 1..Len(x) /\ cursor = DOffs[x[i + 1]]
    BY <1>1, <1>3, <1>5, NthThere
  <2>. DEFINE c == x[i + 1]
  <2>2. c \in 1..Len(D) /\ BaseName(D[c]) = Last(D[c])
    BY <1>2, <1>4, <2>1, EntryListed
  <2>. HIDE DEF c
  <2>3. cursor = DOffs[c]
    BY <2>1 DEF c
  <2>4. cursor # NO_ENTRY /\ ReadableDir(cursor) /\ NameOf(DirAt(cursor)) = Last(D[c])
    BY <2>2, <2>3, DirFound
  <2>5. DirAt(cursor).sibling = Nth(x, DOffs, (i + 1) + 1)
    BY <1>2, <2>1 DEF Linked, DirAt
  <2>. QED
    BY <1>1, <2>1, <2>4, <2>5 DEF DirReady, c
<1>6. ASSUME j # Len(y) \/ fcursor # NO_ENTRY
      PROVE  /\ j # Len(y) /\ j + 1 \in 1..Len(y) /\ FileReady
             /\ NameOf(FileAt(fcursor)) = Last(F[y[j + 1]])
             /\ fcursor = FOffs[y[j + 1]]
             /\ FileAt(fcursor).sibling = Nth(y, FOffs, (j + 1) + 1)
  <2>1. j # Len(y) /\ j + 1 \in 1..Len(y) /\ fcursor = FOffs[y[j + 1]]
    BY <1>1, <1>3, <1>6, NthThere
  <2>. DEFINE c == y[j + 1]
  <2>2. c \in 1..Len(F)
    BY <1>2, <1>4, <2>1, EntryListed
  <2>. HIDE DEF c
  <2>3. fcursor = FOffs[c]
    BY <2>1 DEF c
  <2>4. fcursor # NO_ENTRY /\ ReadableFile(fcursor) /\ NameOf(FileAt(fcursor)) = Last(F[c])
    BY <2>2, <2>3, FileFound
  <2>5. FileAt(fcursor).sibling = Nth(y, FOffs, (j + 1) + 1)
    BY <1>2, <2>1 DEF Linked, FileAt
  <2>. QED
    BY <1>1, <2>1, <2>4, <2>5 DEF FileReady, c
<1>7. (DirReady => cursor # NO_ENTRY) /\ (FileReady => fcursor # NO_ENTRY)
  BY DEF DirReady, FileReady
<1>8. i \in Nat /\ j \in Nat
  BY <1>1
<1>. QED
  BY <1>1, <1>5, <1>6, <1>7, <1>8 DEF x, y

LEMMA NextDirIterates ==
  ASSUME PathHashIsNumber, NEW D, NEW F, Built(D, F), img = image, UNCHANGED bVars, Walks(D, F), NextDir
  PROVE  rpc' = "iter" /\ Walks(D, F)'
<1>1. PICK k, i, j : Iterates(D, F, k, i, j)
  BY DEF Walks
<1>. DEFINE x == dirs[k].children
            y == dirs[k].files
<1>2. dirs' = dirs /\ DOffs' = DOffs /\ FOffs' = FOffs
  BY Stay
<1>3. DirReady
  BY DEF NextDir
<1>4. k \in 1..Len(D) /\ i # Len(x) /\ i \in Nat
  BY <1>1, <1>3, Stood
<1>5. /\ i + 1 \in 1..Len(x) /\ j = 0
      /\ NameOf(DirAt(cursor)) = Last(D[x[i + 1]])
      /\ cursor = DOffs[x[i + 1]]
      /\ DirAt(cursor).sibling = Nth(x, DOffs, (i + 1) + 1)
  BY <1>1, <1>4, Stood, SMTT(60)
<1>6. /\ dir = DOffs[k] /\ fcursor = Nth(y, FOffs, j + 1) /\ yielded = Items(DOffs, FOffs, D, F, x, y, i, j)
      /\ j \in 0..Len(y)
  BY <1>1 DEF Iterates
<1>. HIDE DEF x, y
<1>7. yielded' = Append(yielded, DirItem(DOffs, D, x[i + 1]))
  BY <1>5 DEF NextDir, DirItem
<1>8. yielded' = Items(DOffs, FOffs, D, F, x, y, i + 1, 0)
  BY <1>4, <1>5, <1>6, <1>7, OneMoreDir
<1>9. /\ rpc' = "iter" /\ dir' = dir /\ fcursor' = fcursor
      /\ cursor' = Nth(x, DOffs, (i + 1) + 1) /\ i + 1 \in 0..Len(x)
  BY <1>5 DEF NextDir
<1>10. Iterates(D, F, k, i + 1, 0)'
  BY <1>2, <1>4, <1>5, <1>6, <1>8, <1>9 DEF Iterates, x, y
<1>. QED
  BY <1>9, <1>10 DEF Walks

LEMMA NextFileIterates ==
  ASSUME PathHashIsNumber, NEW D, NEW F, Built(D, F), img = image, UNCHANGED bVars, Walks(D, F), NextFile
  PROVE  rpc' = "iter" /\ Walks(D, F)'
<1>1. PICK k, i, j : Iterates(D, F, k, i, j)
  BY DEF Walks
<1>. DEFINE x == dirs[k].children
            y == dirs[k].files
<1>2. dirs' = dirs /\ DOffs' = DOffs /\ FOffs' = FOffs
  BY Stay
<1>3. ~DirReady /\ FileReady
  BY DEF NextFile
<1>4. k \in 1..Len(D) /\ i = Len(x) /\ j # Len(y) /\ i \in Nat /\ j \in Nat
  BY <1>1, <1>3, Stood
<1>5. /\ j + 1 \in 1..Len(y)
      /\ NameOf(FileAt(fcursor)) = Last(F[y[j + 1]])
      /\ fcursor = FOffs[y[j + 1]]
      /\ FileAt(fcursor).sibling = Nth(y, FOffs, (j + 1) + 1)
  BY <1>1, <1>4, Stood, SMTT(60)
<1>6. /\ dir = DOffs[k] /\ cursor = Nth(x, DOffs, i + 1) /\ yielded = Items(DOffs, FOffs, D, F, x, y, i, j)
      /\ i \in 0..Len(x)
  BY <1>1 DEF Iterates
<1>. HIDE DEF x, y
<1>7. yielded' = Append(yielded, FileItem(FOffs, F, y[j + 1]))
  BY <1>5 DEF NextFile, FileItem
<1>8. yielded' = Items(DOffs, FOffs, D, F, x, y, i, j + 1)
  BY <1>4, <1>6, <1>7, OneMoreFile, SMTT(60)
<1>9. /\ rpc' = "iter" /\ dir' = dir /\ cursor' = cursor
      /\ fcursor' = Nth(y, FOffs, (j + 1) + 1) /\ j + 1 \in 0..Len(y)
  BY <1>5 DEF NextFile
<1>10. Iterates(D, F, k, i, j + 1)'
  BY <1>2, <1>4, <1>6, <1>8, <1>9 DEF Iterates, x, y
<1>. QED
  BY <1>9, <1>10 DEF Walks

LEMMA EndIterates ==
  ASSUME PathHashIsNumber, NEW D, NEW F, Built(D, F), img = image, UNCHANGED bVars, Walks(D, F), EntriesEnd
  PROVE  rpc' = "listed" /\ Ended(D, F)'
<1>1. PICK k, i, j : Iterates(D, F, k, i, j)
  BY DEF Walks
<1>2. dirs' = dirs /\ DOffs' = DOffs /\ FOffs' = FOffs
  BY Stay
<1>3. ~DirReady /\ ~FileReady
  BY DEF EntriesEnd
<1>4. i = Len(dirs[k].children) /\ j = Len(dirs[k].files)
  BY <1>1, <1>3, Stood
<1>5. rpc' = "listed" /\ UNCHANGED <<dir, cursor, fcursor, yielded>>
  BY DEF EntriesEnd
<1>6. Iterates(D, F, k, i, j)'
  BY <1>1, <1>2, <1>5 DEF Iterates
<1>7. Iterates(D, F, k, Len(dirs[k].children), Len(dirs[k].files))'
  BY <1>2, <1>4, <1>6
<1>. QED
  BY <1>5, <1>7 DEF Ended

LEMMA EnumeratesDir ==
  ASSUME NEW s, NEW p, NEW q, NEW D, NEW F, NEW x, NEW y, NEW i, NEW j, Enumerates(s, p, q, D, F, x, y, i, j), NEW m \in 1..i
  PROVE  s[m] = DirItem(p, D, x[m])
  BY DEF Enumerates

LEMMA EnumeratesFile ==
  ASSUME NEW s, NEW p, NEW q, NEW D, NEW F, NEW x, NEW y, NEW i, NEW j, Enumerates(s, p, q, D, F, x, y, i, j), NEW m \in 1..j
  PROVE  s[i + m] = FileItem(q, F, y[m])
  BY DEF Enumerates

LEMMA DescendIterates ==
  ASSUME PathHashIsNumber, NEW D, NEW F, Built(D, F), img = image, UNCHANGED bVars, Ended(D, F), Descend
  PROVE  rpc' = "iter" /\ Walks(D, F)'
<1>1. PICK k : Iterates(D, F, k, Len(dirs[k].children), Len(dirs[k].files))
  BY DEF Ended
<1>. DEFINE x == dirs[k].children
            y == dirs[k].files
            i == Len(x)
            j == Len(y)
<1>2. k \in 1..Len(D) /\ i \in 0..i /\ j \in 0..j /\ yielded = Items(DOffs, FOffs, D, F, x, y, i, j)
  BY <1>1 DEF Iterates
<1>3. Linked(x, D, D[k], DOffs, image.dir_meta) /\ Linked(y, F, D[k], FOffs, image.file_meta)
  BY <1>2, DirsLinked, FilesLinked, SMTT(60)
<1>4. i \in Nat /\ j \in Nat /\ D \in Seq(Path)
  BY <1>3, BuiltIs DEF Linked
<1>5. PICK offset \in Dirs(yielded) : BeginEntries(offset)
  BY DEF Descend
<1>6. PICK m \in DOMAIN yielded : yielded[m].kind = "dir" /\ offset = yielded[m].at
  BY DEF Dirs
<1>. HIDE DEF x, y
<1>7. Enumerates(yielded, DOffs, FOffs, D, F, x, y, i, j)
  BY <1>2, <1>4, ItemsAre
<1>. HIDE DEF i, j
<1>8. m \in 1..(i + j)
  BY <1>6, <1>7 DEF Enumerates
<1>9. CASE m \in 1..i
  <2>1. offset = DOffs[x[m]]
    <3>1. yielded[m] = DirItem(DOffs, D, x[m])
      BY <1>7, <1>9, EnumeratesDir
    <3>2. DirItem(DOffs, D, x[m]).at = DOffs[x[m]]
      BY DEF DirItem
    <3>. QED
      BY <1>6, <3>1, <3>2, Zenon
  <2>2. x[m] \in 1..Len(D)
    BY <1>3, <1>4, <1>9, EntryListed DEF i
  <2>. DEFINE c == x[m]
  <2>3. c \in 1..Len(D) /\ BeginEntries(DOffs[c])
    BY <1>5, <2>1, <2>2
  <2>. HIDE DEF c
  <2>. QED
    BY <2>3, BeginIterates
<1>10. CASE ~(m \in 1..i)
  <2>. DEFINE l == m - i
  <2>1. l \in 1..j /\ i + l = m
    BY <1>4, <1>8, <1>10
  <2>. HIDE DEF l
  <2>2. yielded[i + l].kind = "file"
    <3>1. yielded[i + l] = FileItem(FOffs, F, y[l])
      BY <1>7, <2>1, EnumeratesFile
    <3>2. FileItem(FOffs, F, y[l]).kind = "file"
      BY DEF FileItem
    <3>. QED
      BY <3>1, <3>2, Zenon
  <2>. QED
    BY <1>6, <2>1, <2>2
<1>. QED
  BY <1>9, <1>10

LEMMA RootIterates ==
  ASSUME PathHashIsNumber, NEW D, NEW F, Built(D, F), img = image, UNCHANGED bVars, RootEntries
  PROVE  rpc' = "iter" /\ Walks(D, F)'
<1>1. 1 \in 1..Len(D) /\ DOffs[1] = 0
  BY RootFound
<1>2. ReadableDir(DOffs[1])
  BY <1>1, DirFound
<1>3. BeginEntries(DOffs[1])
  BY <1>1, <1>2 DEF RootEntries
<1>. QED
  BY <1>1, <1>3, BeginIterates

(***************************************************************************)
(* The reader on the image that was built                                  *)
(***************************************************************************)
ReadInv(D, F) ==
  /\ img = image
  /\ rpc \in {"ready", "find_dir", "find_file", "data", "iter", "listed", "done"}
  /\ rpc # "done" => HeaderError(image) = "none"
  /\ rpc = "find_dir" => SeeksDir(D)
  /\ rpc = "find_file" => SeeksFile(D, F)
  /\ rpc = "data" => Finds(F)
  /\ rpc = "iter" => Walks(D, F)
  /\ rpc = "listed" => Ended(D, F)
  /\ rpc = "done" => Answers(F)

BuiltRead == phase = "built" /\ rpc # "none" => \E D, F : Built(D, F) /\ ReadInv(D, F)

LEMMA BuiltStays ==
  ASSUME NEW D, NEW F, Built(D, F), UNCHANGED bVars
  PROVE  Built(D, F)'
  BY Stay DEF Built, Arranged

LEMMA AcceptsBuilt ==
  ASSUME NEW D, NEW F, UNCHANGED bVars, TryFromBytes(image)
  PROVE  ReadInv(D, F)'
<1>1. image' = image /\ img' = image'
  BY Stay DEF TryFromBytes
<1>2. CASE HeaderError(image) = "none"
  <2>1. rpc' = "ready"
    BY <1>2 DEF TryFromBytes
  <2>. QED
    BY <1>1, <1>2, <2>1 DEF ReadInv
<1>3. CASE HeaderError(image) # "none"
  <2>1. rpc' = "done" /\ result' = Err(HeaderError(image))
    BY <1>3 DEF TryFromBytes
  <2>2. Answers(F)'
    BY <1>1, <1>3, <2>1 DEF Answers
  <2>. QED
    BY <1>1, <2>1, <2>2 DEF ReadInv
<1>. QED
  BY <1>2, <1>3

LEMMA ReadsBuilt ==
  ASSUME PathHashIsNumber, NEW D, NEW F, Built(D, F), UNCHANGED bVars, ReadInv(D, F), RCall \/ RStep
  PROVE  ReadInv(D, F)'
<1>1. img = image /\ image' = image
  BY Stay DEF ReadInv
<1>2. ASSUME NEW path \in OpenPaths, Open(path) PROVE ReadInv(D, F)'
  <2>1. HeaderError(image) = "none" /\ img' = img
    BY <1>2 DEF Open, ReadInv
  <2>2. \/ rpc' = "done" /\ Answers(F)'
        \/ rpc' = "find_dir" /\ SeeksDir(D)'
        \/ rpc' = "find_file" /\ SeeksFile(D, F)'
    BY <1>1, <1>2, OpenStarts
  <2>. QED
    BY <1>1, <2>1, <2>2, SMTT(60) DEF ReadInv
<1>3. CASE RootEntries
  <2>1. rpc' = "iter" /\ Walks(D, F)'
    BY <1>1, <1>3, RootIterates
  <2>2. HeaderError(image) = "none" /\ img' = img
    BY <1>3 DEF RootEntries, BeginEntries, RReturn, ReadInv
  <2>. QED
    BY <1>1, <2>1, <2>2 DEF ReadInv
<1>4. CASE Descend
  <2>1. Ended(D, F) /\ HeaderError(image) = "none" /\ img' = img
    BY <1>4 DEF Descend, BeginEntries, ReadInv
  <2>2. rpc' = "iter" /\ Walks(D, F)'
    BY <1>1, <1>4, <2>1, DescendIterates
  <2>. QED
    BY <1>1, <2>1, <2>2 DEF ReadInv
<1>5. CASE FindDir
  <2>1. SeeksDir(D) /\ HeaderError(image) = "none" /\ img' = img
    BY <1>5 DEF FindDir, RReturn, ReadInv
  <2>2. \/ rpc' = "done" /\ Answers(F)'
        \/ rpc' = "find_dir" /\ SeeksDir(D)'
        \/ rpc' = "find_file" /\ SeeksFile(D, F)'
    BY <1>1, <1>5, <2>1, FindDirSeeks
  <2>. QED
    BY <1>1, <2>1, <2>2 DEF ReadInv
<1>6. CASE FindFile
  <2>1. SeeksFile(D, F) /\ HeaderError(image) = "none" /\ img' = img
    BY <1>6 DEF FindFile, RReturn, ReadInv
  <2>2. \/ rpc' = "done" /\ Answers(F)'
        \/ rpc' = "data" /\ Finds(F)'
        \/ rpc' = "find_file" /\ SeeksFile(D, F)'
    BY <1>1, <1>6, <2>1, FindFileSeeks
  <2>. QED
    BY <1>1, <2>1, <2>2 DEF ReadInv
<1>7. CASE Data
  <2>1. Finds(F) /\ HeaderError(image) = "none" /\ img' = img
    BY <1>7 DEF Data, RReturn, ReadInv
  <2>2. rpc' = "done" /\ Answers(F)'
    BY <1>1, <1>7, <2>1, DataAnswers
  <2>. QED
    BY <1>1, <2>1, <2>2 DEF ReadInv
<1>8. CASE NextDir
  <2>1. Walks(D, F) /\ HeaderError(image) = "none" /\ img' = img
    BY <1>8 DEF NextDir, ReadInv
  <2>2. rpc' = "iter" /\ Walks(D, F)'
    BY <1>1, <1>8, <2>1, NextDirIterates
  <2>. QED
    BY <1>1, <2>1, <2>2 DEF ReadInv
<1>9. CASE NextFile
  <2>1. Walks(D, F) /\ HeaderError(image) = "none" /\ img' = img
    BY <1>9 DEF NextFile, ReadInv
  <2>2. rpc' = "iter" /\ Walks(D, F)'
    BY <1>1, <1>9, <2>1, NextFileIterates
  <2>. QED
    BY <1>1, <2>1, <2>2 DEF ReadInv
<1>10. CASE EntriesEnd
  <2>1. Walks(D, F) /\ HeaderError(image) = "none" /\ img' = img
    BY <1>10 DEF EntriesEnd, ReadInv
  <2>2. rpc' = "listed" /\ Ended(D, F)'
    BY <1>1, <1>10, <2>1, EndIterates
  <2>. QED
    BY <1>1, <2>1, <2>2 DEF ReadInv
<1>. QED
  BY <1>2, <1>3, <1>4, <1>5, <1>6, <1>7, <1>8, <1>9, <1>10 DEF RCall, RStep

LEMMA NotYetRead == ASSUME RCall \/ RStep PROVE rpc # "none"
  BY DEF RCall, RStep, Open, RootEntries, Descend, FindDir, FindFile, Data, NextDir, NextFile, EntriesEnd

LEMMA BuiltReadStep ==
  ASSUME PathHashIsNumber, StoredInv, BuiltRead, [Next]_vars
  PROVE  BuiltRead'
<1>1. CASE rpc = "none" /\ BNext /\ UNCHANGED rVars
  BY <1>1 DEF rVars, BuiltRead
<1>2. CASE phase = "built" /\ TryFromBytes(image) /\ UNCHANGED bVars
  <2>1. PICK D, F : Built(D, F)
    BY <1>2 DEF StoredInv, Built
  <2>2. Built(D, F)' /\ ReadInv(D, F)'
    BY <1>2, <2>1, BuiltStays, AcceptsBuilt
  <2>. QED
    BY <2>2 DEF BuiltRead
<1>3. CASE phase = "add" /\ UNCHANGED bVars
  BY <1>3, Stay DEF BuiltRead
<1>4. CASE (RCall \/ RStep) /\ UNCHANGED bVars
  <2>1. CASE phase = "built"
    <3>1. PICK D, F : Built(D, F) /\ ReadInv(D, F)
      BY <1>4, <2>1, NotYetRead DEF BuiltRead
    <3>2. Built(D, F)' /\ ReadInv(D, F)'
      BY <1>4, <3>1, BuiltStays, ReadsBuilt
    <3>. QED
      BY <3>2 DEF BuiltRead
  <2>2. CASE phase # "built"
    BY <1>4, <2>2, Stay DEF BuiltRead
  <2>. QED
    BY <2>1, <2>2
<1>5. CASE UNCHANGED vars
  <2>1. CASE phase = "built" /\ rpc # "none"
    <3>1. PICK D, F : Built(D, F) /\ ReadInv(D, F)
      BY <2>1 DEF BuiltRead
    <3>2. UNCHANGED bVars /\ UNCHANGED rVars
      BY <1>5 DEF vars
    <3>3. Built(D, F)'
      BY <3>1, <3>2, BuiltStays
    <3>4. /\ image' = image /\ dirs' = dirs /\ files' = files /\ DOffs' = DOffs /\ FOffs' = FOffs
          /\ UNCHANGED <<rpc, img, asked, rest, dir, cursor, fcursor, yielded, result>>
      BY <3>2, Stay DEF rVars
    <3>5. /\ Asks' = Asks /\ SeeksDir(D)' = SeeksDir(D) /\ SeeksFile(D, F)' = SeeksFile(D, F) /\ Finds(F)' = Finds(F)
      BY <3>4 DEF Asks, SeeksDir, SeeksFile, Finds
    <3>6. Walks(D, F)' = Walks(D, F) /\ Ended(D, F)' = Ended(D, F) /\ Answers(F)' = Answers(F)
      BY <3>4 DEF Walks, Ended, Iterates, Answers, Asks
    <3>7. ReadInv(D, F)'
      BY <3>1, <3>4, <3>5, <3>6 DEF ReadInv
    <3>. QED
      BY <3>3, <3>7 DEF BuiltRead
  <2>2. CASE ~(phase = "built" /\ rpc # "none")
    BY <1>5, <2>2, Stay DEF vars, rVars, BuiltRead
  <2>. QED
    BY <2>1, <2>2
<1>. QED
  BY <1>1, <1>2, <1>3, <1>4, <1>5 DEF Next, Finished

LEMMA BuiltReadInit == Init => BuiltRead
  BY DEF Init, RInit, BuiltRead

\* RomFs::open, find_dir, find_file, data and DirIterator::next on an image build returned: in every state, where
\* the call stands in the tree that was stored, how far its search or its listing has come, and what it answered.
THEOREM RomFsReaderInvariant == PathHashIsNumber => (Spec => [](StoredInv /\ BuiltRead))
<1>. SUFFICES ASSUME PathHashIsNumber PROVE Spec => [](StoredInv /\ BuiltRead)
  OBVIOUS
<1>1. StoredInv /\ BuiltRead /\ [Next]_vars => BuiltRead'
  BY BuiltReadStep
<1>. QED
  BY <1>1, BuiltReadInit, RomFsInvariant, PTL DEF Spec

(***************************************************************************)
(* A finished listing                                                      *)
(***************************************************************************)
\* As many items as places, when no two are alike.
LEMMA AsManyAsPlaces ==
  ASSUME NEW n \in Nat, NEW b, b = [m \in 1..n |-> b[m]], \A j, k \in 1..n : b[j] = b[k] => j = k
  PROVE  Cardinality({b[m] : m \in 1..n}) = n
<1>. DEFINE S == {b[m] : m \in 1..n}
<1>1. b \in [1..n -> S]
  OBVIOUS
<1>2. \A s \in S : \E m \in 1..n : b[m] = s
  OBVIOUS
<1>. HIDE DEF S
<1>3. b \in Bijection(1..n, S)
  BY <1>1, <1>2 DEF Bijection, Injection, Surjection, IsInjective
<1>4. ExistsBijection(1..n, S)
  BY <1>3 DEF ExistsBijection
<1>5. Cardinality(S) = n
  BY <1>4, FS_CountingElements
<1>. QED
  BY <1>5 DEF S

\* The members of a directory are those its list names.
LEMMA MembersListed ==
  ASSUME NEW P \in Seq(Path), NEW p, NEW x, NEW offs, NEW table, Linked(x, P, p, offs, table)
  PROVE  In(ToSet(P), p) = {P[x[m]] : m \in 1..Len(x)}
<1>1. x \in Seq(Nat) /\ ToSet(x) = Within(P, p) /\ DOMAIN P = 1..Len(P)
      /\ \A m \in 1..Len(x) : x[m] \in 1..Len(P) /\ P[x[m]] # <<>> /\ Front(P[x[m]]) = p
  BY LenProperties DEF Linked
<1>2. ASSUME NEW q \in In(ToSet(P), p) PROVE \E m \in 1..Len(x) : q = P[x[m]]
  <2>1. PICK i \in DOMAIN P : q = P[i]
    BY DEF In, ToSet
  <2>2. i \in Within(P, p)
    BY <2>1 DEF In, Within
  <2>3. PICK m \in 1..Len(x) : x[m] = i
    BY <1>1, <2>2, LenProperties DEF ToSet
  <2>. QED
    BY <2>1, <2>3
<1>3. ASSUME NEW m \in 1..Len(x) PROVE P[x[m]] \in In(ToSet(P), p)
  BY <1>1 DEF In, ToSet
<1>. QED
  BY <1>2, <1>3

\* What is expected of a listing of p, and what a list of indices gives.
SubdirItems(p) == {[kind |-> "dir", at |-> DirOffset(q), name |-> Last(q)] : q \in In(TreeDirs, p)}
MemberItems(p) == {[kind |-> "file", at |-> FileOffset(q), name |-> Last(q)] : q \in In(TreeFiles, p)}
DirItemsOf(D, x) == {DirItem(DOffs, D, x[m]) : m \in 1..Len(x)}
FileItemsOf(F, y) == {FileItem(FOffs, F, y[m]) : m \in 1..Len(y)}

LEMMA DirItems ==
  ASSUME NEW D, NEW F, Built(D, F), NEW p, NEW x, NEW table, Linked(x, D, p, DOffs, table)
  PROVE  SubdirItems(p) = DirItemsOf(D, x) /\ Cardinality(DirItemsOf(D, x)) = Len(x)
<1>. DEFINE n == Len(x)
            b == [m \in 1..n |-> DirItem(DOffs, D, x[m])]
<1>1. D \in Seq(Path) /\ TreeDirs = ToSet(D)
  BY BuiltIs
<1>2. In(TreeDirs, p) = {D[x[m]] : m \in 1..n}
  BY <1>1, MembersListed
<1>3. n \in Nat /\ \A m \in 1..n : x[m] \in 1..Len(D)
  BY DEF Linked
<1>4. Climbs(DOffs, Len(D)) /\ \A k \in 1..Len(D) : DirOffset(D[k]) = DOffs[k]
  BY DirOffsets
<1>. HIDE DEF n
<1>5. \A m \in 1..n : [kind |-> "dir", at |-> DirOffset(D[x[m]]), name |-> Last(D[x[m]])] = DirItem(DOffs, D, x[m])
  BY <1>3, <1>4 DEF DirItem
<1>6. ASSUME NEW j \in 1..n, NEW k \in 1..n, b[j] = b[k] PROVE j = k
  <2>1. DOffs[x[j]] = DOffs[x[k]]
    BY <1>6 DEF DirItem
  <2>2. x[j] = x[k]
    BY <1>3, <1>4, <2>1, ClimbsOnce
  <2>3. Once(x) /\ DOMAIN x = 1..n
    BY LenProperties DEF Linked, n
  <2>. QED
    BY <2>2, <2>3 DEF Once
<1>7. b = [m \in 1..n |-> b[m]] /\ {b[m] : m \in 1..n} = {DirItem(DOffs, D, x[m]) : m \in 1..n}
  OBVIOUS
<1>. HIDE DEF b
<1>8. Cardinality({b[m] : m \in 1..n}) = n
  BY <1>3, <1>6, <1>7, AsManyAsPlaces
<1>9. {[kind |-> "dir", at |-> DirOffset(q), name |-> Last(q)] : q \in In(TreeDirs, p)}
        = {DirItem(DOffs, D, x[m]) : m \in 1..n}
  <2>. DEFINE item(q) == [kind |-> "dir", at |-> DirOffset(q), name |-> Last(q)]
  <2>1. ASSUME NEW q \in In(TreeDirs, p) PROVE \E m \in 1..n : item(q) = DirItem(DOffs, D, x[m])
    <3>1. PICK m \in 1..n : q = D[x[m]]
      BY <1>2
    <3>. QED
      BY <1>5, <3>1
  <2>2. ASSUME NEW m \in 1..n PROVE \E q \in In(TreeDirs, p) : item(q) = DirItem(DOffs, D, x[m])
    <3>1. D[x[m]] \in In(TreeDirs, p) /\ item(D[x[m]]) = DirItem(DOffs, D, x[m])
      BY <1>2, <1>5
    <3>. QED
      BY <3>1
  <2>. HIDE DEF item
  <2>3. {item(q) : q \in In(TreeDirs, p)} = {DirItem(DOffs, D, x[m]) : m \in 1..n}
    BY <2>1, <2>2
  <2>. QED
    BY <2>3 DEF item
<1>. QED
  BY <1>7, <1>8, <1>9 DEF n, SubdirItems, DirItemsOf

LEMMA FileItems ==
  ASSUME NEW D, NEW F, Built(D, F), NEW p, NEW x, NEW table, Linked(x, F, p, FOffs, table)
  PROVE  MemberItems(p) = FileItemsOf(F, x) /\ Cardinality(FileItemsOf(F, x)) = Len(x)
<1>. DEFINE n == Len(x)
            b == [m \in 1..n |-> FileItem(FOffs, F, x[m])]
<1>1. F \in Seq(Path) /\ TreeFiles = ToSet(F)
  BY BuiltIs
<1>2. In(TreeFiles, p) = {F[x[m]] : m \in 1..n}
  BY <1>1, MembersListed
<1>3. n \in Nat /\ \A m \in 1..n : x[m] \in 1..Len(F)
  BY DEF Linked
<1>4. Climbs(FOffs, Len(F)) /\ \A k \in 1..Len(F) : FileOffset(F[k]) = FOffs[k]
  BY FileOffsets
<1>. HIDE DEF n
<1>5. \A m \in 1..n : [kind |-> "file", at |-> FileOffset(F[x[m]]), name |-> Last(F[x[m]])] = FileItem(FOffs, F, x[m])
  BY <1>3, <1>4 DEF FileItem
<1>6. ASSUME NEW j \in 1..n, NEW k \in 1..n, b[j] = b[k] PROVE j = k
  <2>1. FOffs[x[j]] = FOffs[x[k]]
    BY <1>6 DEF FileItem
  <2>2. x[j] = x[k]
    BY <1>3, <1>4, <2>1, ClimbsOnce
  <2>3. Once(x) /\ DOMAIN x = 1..n
    BY LenProperties DEF Linked, n
  <2>. QED
    BY <2>2, <2>3 DEF Once
<1>7. b = [m \in 1..n |-> b[m]] /\ {b[m] : m \in 1..n} = {FileItem(FOffs, F, x[m]) : m \in 1..n}
  OBVIOUS
<1>. HIDE DEF b
<1>8. Cardinality({b[m] : m \in 1..n}) = n
  BY <1>3, <1>6, <1>7, AsManyAsPlaces
<1>9. {[kind |-> "file", at |-> FileOffset(q), name |-> Last(q)] : q \in In(TreeFiles, p)}
        = {FileItem(FOffs, F, x[m]) : m \in 1..n}
  <2>. DEFINE item(q) == [kind |-> "file", at |-> FileOffset(q), name |-> Last(q)]
  <2>1. ASSUME NEW q \in In(TreeFiles, p) PROVE \E m \in 1..n : item(q) = FileItem(FOffs, F, x[m])
    <3>1. PICK m \in 1..n : q = F[x[m]]
      BY <1>2
    <3>. QED
      BY <1>5, <3>1
  <2>2. ASSUME NEW m \in 1..n PROVE \E q \in In(TreeFiles, p) : item(q) = FileItem(FOffs, F, x[m])
    <3>1. F[x[m]] \in In(TreeFiles, p) /\ item(F[x[m]]) = FileItem(FOffs, F, x[m])
      BY <1>2, <1>5
    <3>. QED
      BY <3>1
  <2>. HIDE DEF item
  <2>3. {item(q) : q \in In(TreeFiles, p)} = {FileItem(FOffs, F, x[m]) : m \in 1..n}
    BY <2>1, <2>2
  <2>. QED
    BY <2>3 DEF item
<1>. QED
  BY <1>7, <1>8, <1>9 DEF n, MemberItems, FileItemsOf

\* Two entries of a list are in the order of their names.
LEMMA NamesRise ==
  ASSUME NEW P \in Seq(Path), Rising(P), NEW p, NEW x, NEW offs, NEW table, Linked(x, P, p, offs, table),
         NEW j \in 1..Len(x), NEW k \in 1..Len(x), j < k
  PROVE  NameLess(Last(P[x[j]]), Last(P[x[k]]))
<1>1. /\ x[j] \in 1..Len(P) /\ P[x[j]] # <<>> /\ Front(P[x[j]]) = p
      /\ x[k] \in 1..Len(P) /\ P[x[k]] # <<>> /\ Front(P[x[k]]) = p
  BY DEF Linked
<1>2. x[j] < x[k]
  BY LenProperties DEF Linked, Ascends
<1>3. PathLess(P[x[j]], P[x[k]])
  BY <1>1, <1>2, LenProperties DEF Rising
<1>4. P[x[j]] \in Seq(Text) /\ P[x[k]] \in Seq(Text)
  BY <1>1, ElementOfSeq, PathIs
<1>. QED
  BY <1>1, <1>3, <1>4, SiblingsOrdered

\* What a list of subdirectories and files holds, and in what order.
LEMMA ListingIs ==
  ASSUME NEW s, NEW p, NEW q, NEW D, NEW F, NEW x, NEW y, NEW i \in Nat, NEW j \in Nat, Enumerates(s, p, q, D, F, x, y, i, j)
  PROVE  ToSet(s) = {DirItem(p, D, x[m]) : m \in 1..i} \union {FileItem(q, F, y[m]) : m \in 1..j}
<1>1. DOMAIN s = 1..(i + j)
  BY DEF Enumerates
<1>2. ASSUME NEW m \in 1..i PROVE m \in DOMAIN s /\ s[m] = DirItem(p, D, x[m])
  BY <1>1, EnumeratesDir
<1>3. ASSUME NEW m \in 1..j PROVE i + m \in DOMAIN s /\ s[i + m] = FileItem(q, F, y[m])
  BY <1>1, EnumeratesFile
<1>4. ASSUME NEW m \in DOMAIN s PROVE m \in 1..i \/ \E l \in 1..j : m = i + l
  <2>1. CASE m =< i
    BY <1>1, <2>1
  <2>2. CASE ~(m =< i)
    <3>. DEFINE l == m - i
    <3>1. l \in 1..j /\ m = i + l
      BY <1>1, <2>2
    <3>. HIDE DEF l
    <3>. QED
      BY <3>1
  <2>. QED
    BY <2>1, <2>2
<1>5. ASSUME NEW e \in ToSet(s)
      PROVE  e \in {DirItem(p, D, x[m]) : m \in 1..i} \union {FileItem(q, F, y[m]) : m \in 1..j}
  <2>1. PICK m \in DOMAIN s : e = s[m]
    BY DEF ToSet
  <2>2. CASE m \in 1..i
    BY <1>2, <2>1, <2>2
  <2>3. CASE \E l \in 1..j : m = i + l
    <3>1. PICK l \in 1..j : m = i + l
      BY <2>3
    <3>2. e = FileItem(q, F, y[l])
      BY <1>3, <2>1, <3>1
    <3>. QED
      BY <3>2
  <2>. QED
    BY <1>4, <2>2, <2>3
<1>6. \A m \in 1..i : DirItem(p, D, x[m]) \in ToSet(s)
  BY <1>2 DEF ToSet
<1>7. \A m \in 1..j : FileItem(q, F, y[m]) \in ToSet(s)
  BY <1>3 DEF ToSet
<1>. QED
  BY <1>5, <1>6, <1>7

LEMMA ListsDirectory ==
  ASSUME NEW D, NEW F, Built(D, F), PathHashIsNumber, Ended(D, F)
  PROVE  LET p == CHOOSE q \in TreeDirs : DirOffset(q) = dir
             subdirs == {[kind |-> "dir", at |-> DirOffset(q), name |-> Last(q)] : q \in In(TreeDirs, p)}
             members == {[kind |-> "file", at |-> FileOffset(q), name |-> Last(q)] : q \in In(TreeFiles, p)}
         IN  /\ ToSet(yielded) = subdirs \union members
             /\ Len(yielded) = Cardinality(subdirs) + Cardinality(members)
             /\ \A j, k \in DOMAIN yielded : j < k =>
                  \/ yielded[j].kind = "dir" /\ yielded[k].kind = "file"
                  \/ yielded[j].kind = yielded[k].kind /\ NameLess(yielded[j].name, yielded[k].name)
<1>1. PICK d : Iterates(D, F, d, Len(dirs[d].children), Len(dirs[d].files))
  BY DEF Ended
<1>. DEFINE p == CHOOSE q \in TreeDirs : DirOffset(q) = dir
            x == dirs[d].children
            y == dirs[d].files
            n == Len(x)
            l == Len(y)
            A == SubdirItems(p)
            B == MemberItems(p)
<1>2. d \in 1..Len(D) /\ dir = DOffs[d] /\ yielded = Items(DOffs, FOffs, D, F, x, y, n, l)
  BY <1>1 DEF Iterates
<1>3. D \in Seq(Path) /\ F \in Seq(Path) /\ Rising(D) /\ Rising(F) /\ TreeDirs = ToSet(D) /\ DOMAIN D = 1..Len(D)
  BY BuiltIs
<1>4. p = D[d]
  <2>1. Climbs(DOffs, Len(D)) /\ \A k \in 1..Len(D) : DirOffset(D[k]) = DOffs[k]
    BY DirOffsets
  <2>2. D[d] \in TreeDirs /\ DirOffset(D[d]) = dir
    BY <1>2, <1>3, <2>1 DEF ToSet
  <2>3. p \in TreeDirs /\ DirOffset(p) = dir
    BY <2>2
  <2>. HIDE DEF p
  <2>4. PICK k \in 1..Len(D) : p = D[k]
    BY <1>3, <2>3 DEF ToSet
  <2>5. DOffs[k] = DOffs[d]
    BY <1>2, <2>1, <2>3, <2>4
  <2>6. k = d
    BY <1>2, <2>1, <2>4, <2>5, ClimbsOnce
  <2>. QED
    BY <2>4, <2>6
<1>5. Linked(x, D, p, DOffs, image.dir_meta) /\ Linked(y, F, p, FOffs, image.file_meta)
  <2>. HIDE DEF p
  <2>. QED
    BY <1>2, <1>4, DirsLinked, FilesLinked
<1>. HIDE DEF p, x, y
<1>6. n \in Nat /\ l \in Nat
  BY <1>5 DEF Linked
<1>7. Enumerates(yielded, DOffs, FOffs, D, F, x, y, n, l)
  BY <1>2, <1>6, ItemsAre, SMTT(60)
<1>8. A = {DirItem(DOffs, D, x[m]) : m \in 1..n} /\ Cardinality(A) = n
  <2>1. A = DirItemsOf(D, x) /\ Cardinality(DirItemsOf(D, x)) = n
    BY <1>5, DirItems, SMTT(60)
  <2>. QED
    BY <2>1 DEF DirItemsOf
<1>9. B = {FileItem(FOffs, F, y[m]) : m \in 1..l} /\ Cardinality(B) = l
  <2>1. B = FileItemsOf(F, y) /\ Cardinality(FileItemsOf(F, y)) = l
    BY <1>5, FileItems
  <2>. QED
    BY <2>1 DEF FileItemsOf
<1>. HIDE DEF A, B
<1>10. ToSet(yielded) = A \union B
  <2>. HIDE DEF n, l
  <2>. QED
    BY <1>6, <1>7, <1>8, <1>9, ListingIs
<1>11. DOMAIN yielded = 1..(n + l) /\ Len(yielded) = n + l
  <2>. HIDE DEF n, l
  <2>1. DOMAIN yielded = 1..(n + l) /\ ListOf(n + l, yielded) /\ n + l \in Nat
    BY <1>6, <1>7 DEF Enumerates
  <2>2. yielded \in [1..(n + l) -> {yielded[m] : m \in 1..(n + l)}]
    BY <2>1 DEF ListOf
  <2>3. Len(yielded) = n + l
    BY <2>1, <2>2, ListIsSeq
  <2>. QED
    BY <2>1, <2>3
<1>12. ASSUME NEW j \in DOMAIN yielded, NEW k \in DOMAIN yielded, j < k
       PROVE  \/ yielded[j].kind = "dir" /\ yielded[k].kind = "file"
              \/ yielded[j].kind = yielded[k].kind /\ NameLess(yielded[j].name, yielded[k].name)
  <2>1. ASSUME NEW m \in 1..n PROVE yielded[m].kind = "dir" /\ yielded[m].name = Last(D[x[m]])
    <3>1. yielded[m] = DirItem(DOffs, D, x[m])
      BY <1>7, EnumeratesDir
    <3>. QED
      BY <3>1 DEF DirItem
  <2>2. ASSUME NEW m \in 1..l PROVE yielded[n + m].kind = "file" /\ yielded[n + m].name = Last(F[y[m]])
    <3>1. yielded[n + m] = FileItem(FOffs, F, y[m])
      BY <1>7, EnumeratesFile
    <3>. QED
      BY <3>1 DEF FileItem
  <2>3. ASSUME NEW m \in 1..n, NEW r \in 1..n, m < r PROVE NameLess(yielded[m].name, yielded[r].name)
    <3>1. NameLess(Last(D[x[m]]), Last(D[x[r]]))
      BY <1>3, <1>5, <2>3, NamesRise
    <3>. QED
      BY <2>1, <3>1
  <2>4. ASSUME NEW m \in 1..l, NEW r \in 1..l, m < r PROVE NameLess(yielded[n + m].name, yielded[n + r].name)
    <3>1. NameLess(Last(F[y[m]]), Last(F[y[r]]))
      BY <1>3, <1>5, <2>4, NamesRise
    <3>. QED
      BY <2>2, <3>1
  <2>. HIDE DEF n, l
  <2>5. CASE j =< n /\ k =< n
    <3>1. j \in 1..n /\ k \in 1..n
      BY <1>6, <1>11, <2>5
    <3>. QED
      BY <1>12, <2>1, <2>3, <3>1
  <2>6. CASE j =< n /\ ~(k =< n)
    <3>. DEFINE r == k - n
    <3>1. j \in 1..n /\ r \in 1..l /\ n + r = k
      BY <1>6, <1>11, <2>6
    <3>. HIDE DEF r
    <3>. QED
      BY <2>1, <2>2, <3>1
  <2>7. CASE ~(j =< n)
    <3>. DEFINE m == j - n
                r == k - n
    <3>1. m \in 1..l /\ r \in 1..l /\ n + m = j /\ n + r = k /\ m < r
      BY <1>6, <1>11, <1>12, <2>7, SMTT(60)
    <3>. HIDE DEF m, r
    <3>. QED
      BY <2>2, <2>4, <3>1
  <2>. QED
    BY <2>5, <2>6, <2>7
<1>13. Len(yielded) = Cardinality(A) + Cardinality(B)
  BY <1>8, <1>9, <1>11
<1>. QED
  BY <1>10, <1>12, <1>13 DEF A, B, p, SubdirItems, MemberItems

\* DirIterator::next on an image build returned: for every tree and every directory, a listing that ran to its end
\* gave the subdirectories and then the files, in name order, each once, with offsets that can be walked in turn.
THEOREM RomFsEntriesListDirectory == PathHashIsNumber => (Spec => []EntriesListDirectory)
<1>. SUFFICES ASSUME PathHashIsNumber PROVE Spec => []EntriesListDirectory
  OBVIOUS
<1>1. BuiltRead => EntriesListDirectory
  <2>. SUFFICES ASSUME BuiltRead, phase = "built", rpc = "listed" PROVE EntriesListDirectory
    BY DEF EntriesListDirectory
  <2>1. PICK D, F : Built(D, F) /\ ReadInv(D, F)
    BY DEF BuiltRead
  <2>2. Ended(D, F)
    BY <2>1 DEF ReadInv
  <2>. QED
    BY <2>1, <2>2, ListsDirectory DEF EntriesListDirectory
<1>. QED
  BY <1>1, RomFsReaderInvariant, PTL

(***************************************************************************)
(* RomFS implements the abstract container                                 *)
(***************************************************************************)
\* What the container of the tree holds under each path that can be asked for.
Openable == {Trimmed(path) : path \in OpenPaths}
KeptOf(S) == [p \in Openable |-> IF \E f \in S : f.at = p THEN (CHOOSE f \in S : f.at = p).data ELSE None]
OnePerPath(S) == \A f, g \in S : f.at = g.at => f = g

KeptInv == Kept = KeptOf(tree.files) /\ OnePerPath(tree.files)

LEMMA KeptIs ==
  ASSUME NEW S, OnePerPath(S), NEW p \in Openable
  PROVE  /\ \A f \in S : f.at = p => KeptOf(S)[p] = f.data
         /\ (\A f \in S : f.at # p) => KeptOf(S)[p] = None
<1>1. KeptOf(S)[p] = IF \E f \in S : f.at = p THEN (CHOOSE f \in S : f.at = p).data ELSE None
  BY DEF KeptOf
<1>2. ASSUME NEW f \in S, f.at = p PROVE KeptOf(S)[p] = f.data
  <2>. DEFINE g == CHOOSE e \in S : e.at = p
  <2>1. g \in S /\ g.at = p
    BY <1>2
  <2>2. g = f
    BY <1>2, <2>1 DEF OnePerPath
  <2>. QED
    BY <1>1, <1>2, <2>2
<1>. QED
  BY <1>1, <1>2

LEMMA StoredOnce ==
  ASSUME NEW D, NEW F, Holding(dirs, files, tree, D, F)
  PROVE  /\ tree = [dirs |-> ToSet(D), files |-> Stored(F, files)] /\ OnePerPath(Stored(F, files))
         /\ DOMAIN F = 1..Len(F) /\ DOMAIN files = 1..Len(F) /\ F \in Seq(Path)
         /\ \A i \in 1..Len(F) : files[i].path = Full(F[i])
<1>1. Filed(dirs, files, D, F) /\ tree = [dirs |-> ToSet(D), files |-> Stored(F, files)]
  BY DEF Holding
<1>2. DOMAIN F = 1..Len(F) /\ DOMAIN files = 1..Len(F)
  BY <1>1, FiledIs
<1>3. F \in Seq(Path) /\ Once(F)
  BY <1>1 DEF Filed
<1>4. \A i \in 1..Len(F) : files[i].path = Full(F[i])
  BY <1>1, <1>2 DEF Filed, FileIs
<1>5. OnePerPath(Stored(F, files))
  BY <1>2, <1>3 DEF OnePerPath, Stored, Once
<1>. QED
  BY <1>1, <1>2, <1>3, <1>4, <1>5

LEMMA OpenableIs ==
  ASSUME NEW p \in Openable
  PROVE  p \in Seq(Text)
  BY OpenPathsSupplied, TrimmedIs DEF Openable

LEMMA KeptIsStored ==
  ASSUME NEW D, NEW F, Holding(dirs, files, tree, D, F)
  PROVE  KeptInv
<1>. DEFINE S == Stored(F, files)
<1>1. /\ tree.files = S /\ OnePerPath(S) /\ DOMAIN F = 1..Len(F) /\ DOMAIN files = 1..Len(F) /\ F \in Seq(Path)
      /\ \A i \in 1..Len(F) : files[i].path = Full(F[i])
  BY StoredOnce
<1>2. \A i \in 1..Len(F) : [at |-> F[i], data |-> files[i].data] \in S
  BY <1>1 DEF Stored
<1>3. \A f \in S : \E i \in 1..Len(F) : f = [at |-> F[i], data |-> files[i].data]
  BY <1>1 DEF Stored
<1>. HIDE DEF S
<1>4. ASSUME NEW p \in Openable PROVE Kept[p] = KeptOf(S)[p]
  <2>1. Kept[p] = IF \E i \in DOMAIN files : files[i].path = Full(p)
                  THEN files[CHOOSE i \in DOMAIN files : files[i].path = Full(p)].data ELSE None
    BY DEF Kept, Openable
  <2>2. CASE \E i \in DOMAIN files : files[i].path = Full(p)
    <3>. DEFINE c == CHOOSE i \in DOMAIN files : files[i].path = Full(p)
    <3>1. c \in 1..Len(F) /\ files[c].path = Full(p)
      BY <1>1, <2>2
    <3>2. Kept[p] = files[c].data
      BY <2>1, <2>2
    <3>. HIDE DEF c
    <3>3. F[c] \in Seq(Text)
      BY <1>1, <3>1, ElementOfSeq, PathIs
    <3>4. F[c] = p
      BY <1>1, <3>1, <3>3, OpenableIs, FullInjective
    <3>. DEFINE f == [at |-> F[c], data |-> files[c].data]
    <3>5. f \in S /\ f.at = p /\ f.data = files[c].data
      BY <1>2, <3>1, <3>4
    <3>. HIDE DEF f
    <3>. QED
      BY <1>1, <3>2, <3>5, KeptIs
  <2>3. CASE \A i \in DOMAIN files : files[i].path # Full(p)
    <3>1. \A f \in S : f.at # p
      BY <1>1, <1>3, <2>3
    <3>. QED
      BY <1>1, <2>1, <2>3, <3>1, KeptIs
  <2>. QED
    BY <2>2, <2>3
<1>5. Kept = [p \in Openable |-> Kept[p]] /\ KeptOf(S) = [p \in Openable |-> KeptOf(S)[p]]
  BY DEF Kept, KeptOf, Openable
<1>. QED
  BY <1>1, <1>4, <1>5 DEF KeptInv

LEMMA StoredKept == StoredInv => KeptInv
  BY KeptIsStored DEF StoredInv

(***************************************************************************)
(* What the abstract container sees of a state                             *)
(***************************************************************************)
StateOf ==
  IF phase = "built" THEN "sealed"
  ELSE IF phase \in BuilderErrors THEN "failed"
  ELSE IF rpc # "none" THEN "foreign" ELSE "open"

AnswerOf ==
  IF rpc # "done" THEN <<"none">>
  ELSE IF result.status = "ok" THEN <<Trimmed(asked), result.data>>
  ELSE IF result = Err("PathNotFound") THEN <<"aside">>
  ELSE IF result \in {Err("FileNotFound"), Err("DirNotFound")} THEN <<Trimmed(asked), None>>
  ELSE <<"unreadable">>

LEMMA Unseen ==
  ASSUME Kept' = Kept, StateOf' = StateOf, AnswerOf' = AnswerOf
  PROVE  UNCHANGED Abstract!cVars
  BY DEF Abstract!cVars, StateOf, AnswerOf

LEMMA Sealing ==
  ASSUME Kept' = Kept, StateOf = "open", StateOf' \in {"sealed", "failed"}, AnswerOf' = AnswerOf
  PROVE  Abstract!Next
<1>1. CASE StateOf' = "sealed"
  <2>1. Abstract!Seal
    BY <1>1 DEF Abstract!Seal, StateOf, AnswerOf
  <2>. QED
    BY <2>1 DEF Abstract!Next
<1>2. CASE StateOf' = "failed"
  <2>1. Abstract!Fail
    BY <1>2 DEF Abstract!Fail, StateOf, AnswerOf
  <2>. QED
    BY <2>1 DEF Abstract!Next
<1>. QED
  BY <1>1, <1>2

LEMMA Opening ==
  ASSUME Kept' = Kept, StateOf = "open", StateOf' = "foreign"
  PROVE  Abstract!Next
<1>1. Abstract!Open
  BY DEF Abstract!Open, StateOf
<1>. QED
  BY <1>1 DEF Abstract!Next

LEMMA Foreign ==
  ASSUME Kept' = Kept, StateOf = "foreign", StateOf' = "foreign"
  PROVE  Abstract!Next
<1>1. Abstract!GetAny
  BY DEF Abstract!GetAny, StateOf
<1>. QED
  BY <1>1 DEF Abstract!Next

LEMMA Getting ==
  ASSUME Kept' = Kept, StateOf = "sealed", StateOf' = "sealed", NEW k \in Openable, AnswerOf' = <<k, Kept[k]>>
  PROVE  Abstract!Next
<1>1. Abstract!Get(k)
  BY DEF Abstract!Get, StateOf, AnswerOf
<1>. QED
  BY <1>1 DEF Abstract!Next, Openable

LEMMA AsideStep ==
  ASSUME Kept' = Kept, StateOf = "sealed", StateOf' = "sealed", AnswerOf' = <<"aside">>
  PROVE  Abstract!Next
<1>1. Abstract!Aside
  BY DEF Abstract!Aside, StateOf, AnswerOf
<1>. QED
  BY <1>1 DEF Abstract!Next

LEMMA Putting ==
  ASSUME StateOf = "open", StateOf' = "open", AnswerOf' = AnswerOf, NEW k \in Openable,
         DOMAIN Kept' = Openable, \A j \in Openable \ {k} : Kept'[j] = Kept[j]
  PROVE  Abstract!Next
<1>1. Abstract!Put(k)
  BY DEF Abstract!Put, StateOf, AnswerOf, Openable
<1>. QED
  BY <1>1 DEF Abstract!Next, Openable

(***************************************************************************)
(* Every step of the builder and the reader is one of the container's      *)
(***************************************************************************)
\* A reader is created by an accepted or refused image; only then is one called.
ReaderPhases == rpc # "none" => phase \in {"add", "built"}

LEMMA ReaderPhasesInit == Init => ReaderPhases
  BY DEF Init, RInit, ReaderPhases

LEMMA ReaderPhasesStep ==
  ASSUME ReaderPhases, [Next]_vars
  PROVE  ReaderPhases'
<1>1. CASE rpc = "none" /\ BNext /\ UNCHANGED rVars
  BY <1>1 DEF rVars, ReaderPhases
<1>2. CASE phase = "built" /\ TryFromBytes(image) /\ UNCHANGED bVars
  BY <1>2, Stay DEF ReaderPhases
<1>3. CASE phase = "add" /\ UNCHANGED bVars
  BY <1>3, Stay DEF ReaderPhases
<1>4. CASE (RCall \/ RStep) /\ UNCHANGED bVars
  BY <1>4, Stay, NotYetRead DEF ReaderPhases
<1>5. CASE UNCHANGED vars
  <2>1. UNCHANGED bVars /\ UNCHANGED rVars
    BY <1>5 DEF vars
  <2>. QED
    BY <2>1, Stay DEF rVars, ReaderPhases
<1>. QED
  BY <1>1, <1>2, <1>3, <1>4, <1>5 DEF Next, Finished

\* What a step of the builder does to the files of the tree.
LEMMA BuilderFills ==
  ASSUME StoredInv, BNext
  PROVE  \/ /\ phase' \in {"add", "walk"} /\ phase \in {"add", "walk"}
            /\ tree'.files = tree.files \/ \E f : tree'.files = tree.files \union {f}
         \/ /\ phase' \in {"built"} \union BuilderErrors /\ phase \in {"add", "walk"}
            /\ tree'.files = tree.files
<1>1. PICK D, F : Holding(dirs, files, tree, D, F)
  BY DEF StoredInv
<1>2. tree = [dirs |-> ToSet(D), files |-> Stored(F, files)]
  BY <1>1, StoredOnce
<1>3. ASSUME NEW path \in Paths, NEW data \in Contents, AddFile(path, data)
      PROVE  /\ phase = "add"
             /\ \/ phase' = phase /\ \E f : tree'.files = tree.files \union {f}
                \/ phase' \in BuilderErrors /\ tree' = tree
  <2>1. CASE BFail("InvalidPath")
    BY <1>3, <2>1 DEF AddFile, BFail, BuilderErrors
  <2>2. CASE BFail("DuplicateEntry")
    BY <1>3, <2>2 DEF AddFile, BFail, BuilderErrors
  <2>3. CASE ~BFail("InvalidPath") /\ ~BFail("DuplicateEntry")
    <3>. DEFINE f == [at |-> Components(path), data |-> data]
    <3>1. /\ phase = "add" /\ UNCHANGED phase
          /\ tree' = [dirs  |-> tree.dirs \union Prefixes(Front(Components(path))), files |-> tree.files \union {f}]
      BY <1>3, <2>3 DEF AddFile
    <3>2. tree'.files = tree.files \union {f}
      BY <3>1
    <3>. QED
      BY <3>1, <3>2
  <2>. QED
    BY <2>1, <2>2, <2>3
<1>4. CASE PopDir
  BY <1>4 DEF PopDir
<1>5. ASSUME NEW m \in listing, TakeEntry(m)
      PROVE  /\ phase = "walk" /\ phase' = "walk"
             /\ tree'.files = tree.files \/ \E f : tree'.files = tree.files \union {f}
  <2>0. phase = "walk"
    BY <1>5 DEF TakeEntry, Reading
  <2>1. CASE TakeDir(m)
    BY <1>2, <2>0, <2>1 DEF TakeDir
  <2>2. CASE TakeFile(m)
    <3>. DEFINE f == [at |-> Append(m.at, m.entry.name), data |-> m.entry.data]
    <3>1. tree' = [tree EXCEPT !.files = @ \union {f}] /\ phase' = phase
      BY <2>2 DEF TakeFile
    <3>2. tree'.files = tree.files \union {f}
      BY <1>2, <3>1
    <3>. QED
      BY <2>0, <3>1, <3>2
  <2>3. CASE SkipOther(m)
    BY <2>0, <2>3 DEF SkipOther
  <2>. QED
    BY <1>5, <2>1, <2>2, <2>3 DEF TakeEntry
<1>6. ASSUME NEW m \in listing, RefuseEntry(m) PROVE phase = "walk" /\ phase' \in BuilderErrors /\ tree' = tree
  BY <1>6 DEF RefuseEntry, Reading, BFail, BuilderErrors
<1>7. CASE IoFails
  BY <1>7 DEF IoFails, BFail, BuilderErrors
<1>8. CASE WalkDone
  BY <1>8 DEF WalkDone
<1>9. CASE Build
  <2>1. CASE files = <<>>
    BY <1>9, <2>1 DEF Build, BFail, BuilderErrors
  <2>2. CASE files # <<>>
    BY <1>9, <2>2 DEF Build
  <2>. QED
    BY <2>1, <2>2
<1>. QED
  BY <1>3, <1>4, <1>5, <1>6, <1>7, <1>8, <1>9 DEF BNext

\* One more file changes what is kept under its own path only.
LEMMA OneMoreKept ==
  ASSUME NEW S, NEW f, NEW T, T = S \union {f}, OnePerPath(S), OnePerPath(T), NEW p \in Openable, p # f.at
  PROVE  KeptOf(T)[p] = KeptOf(S)[p]
<1>1. CASE \E g \in S : g.at = p
  <2>1. PICK g \in S : g.at = p
    BY <1>1
  <2>2. g \in T
    OBVIOUS
  <2>. QED
    BY <2>1, <2>2, KeptIs
<1>2. CASE \A g \in S : g.at # p
  <2>1. \A g \in T : g.at # p
    BY <1>2
  <2>. QED
    BY <1>2, <2>1, KeptIs
<1>. QED
  BY <1>1, <1>2

LEMMA BuilderMaps ==
  ASSUME StoredInv, KeptInv, KeptInv', rpc = "none", BNext, UNCHANGED rVars
  PROVE  [Abstract!Next]_(Abstract!cVars)
<1>1. rpc' = "none" /\ AnswerOf' = AnswerOf
  BY DEF rVars, AnswerOf
<1>2. Kept = KeptOf(tree.files) /\ Kept' = KeptOf(tree'.files) /\ OnePerPath(tree.files) /\ OnePerPath(tree'.files)
  BY DEF KeptInv
<1>3. \A ph \in {"add", "walk"} : ph # "built" /\ ph \notin BuilderErrors
  BY DEF BuilderErrors
<1>4. CASE /\ phase' \in {"add", "walk"} /\ phase \in {"add", "walk"}
           /\ tree'.files = tree.files \/ \E f : tree'.files = tree.files \union {f}
  <2>1. StateOf = "open" /\ StateOf' = "open"
    BY <1>1, <1>3, <1>4 DEF StateOf
  <2>2. CASE tree'.files = tree.files
    BY <1>1, <1>2, <2>1, <2>2, Unseen
  <2>3. CASE \E f : tree'.files = tree.files \union {f}
    <3>1. PICK f : tree'.files = tree.files \union {f}
      BY <2>3
    <3>2. \A p \in Openable : p # f.at => Kept'[p] = Kept[p]
      BY <1>2, <3>1, OneMoreKept
    <3>3. DOMAIN Kept' = Openable
      BY <1>2 DEF KeptOf
    <3>4. CASE f.at \in Openable
      BY <1>1, <2>1, <3>2, <3>3, <3>4, Putting
    <3>5. CASE f.at \notin Openable
      <4>1. \A p \in Openable : Kept'[p] = Kept[p]
        BY <3>2, <3>5
      <4>2. Kept' = [p \in Openable |-> Kept'[p]] /\ Kept = [p \in Openable |-> Kept[p]]
        BY <1>2 DEF KeptOf
      <4>3. Kept' = Kept
        BY <4>1, <4>2
      <4>. QED
        BY <1>1, <2>1, <4>3, Unseen
    <3>. QED
      BY <3>4, <3>5
  <2>. QED
    BY <1>4, <2>2, <2>3
<1>5. CASE /\ phase' \in {"built"} \union BuilderErrors /\ phase \in {"add", "walk"}
           /\ tree'.files = tree.files
  <2>1. StateOf = "open" /\ StateOf' \in {"sealed", "failed"}
    BY <1>1, <1>3, <1>5 DEF StateOf
  <2>2. Kept' = Kept
    BY <1>2, <1>5
  <2>. QED
    BY <1>1, <2>1, <2>2, Sealing
<1>. QED
  BY <1>4, <1>5, BuilderFills

\* The buffer build returns is a Vec: its length is a usize.
ImageFits == phase = "built" => image.len =< USIZE_MAX

LEMMA StillRead == ASSUME RCall \/ RStep PROVE rpc' # "none" /\ rpc # "done"
  BY DEF RCall, RStep, Open, RootEntries, Descend, BeginEntries, Resolve, RReturn, FindDir, FindFile, Data, NextDir, NextFile,
         EntriesEnd

\* An answer about the image that was built is what the container keeps.
LEMMA AnswerIsKept ==
  ASSUME NEW D, NEW F, Holding(dirs, files, tree, D, F), KeptInv, UNCHANGED bVars, rpc' = "done", Answers(F)',
         HeaderError(image) = "none"
  PROVE  AnswerOf' = <<"aside">> \/ \E k \in Openable : AnswerOf' = <<k, Kept[k]>>
<1>. DEFINE k == Trimmed(asked')
            S == Stored(F, files)
<1>1. image' = image /\ files' = files
  BY Stay
<1>2. /\ Kept = KeptOf(S) /\ OnePerPath(S) /\ DOMAIN F = 1..Len(F)
  BY StoredOnce DEF KeptInv
<1>3. Asks' => k \in Openable
  BY DEF Asks, Openable
<1>4. CASE result' = Err("PathNotFound")
  <2>1. result'.status # "ok"
    BY <1>4 DEF Err
  <2>. QED
    BY <1>4, <2>1 DEF AnswerOf
<1>5. CASE Asks' /\ \E j \in 1..Len(F) : F[j] = k /\ result' = Ok(files[j].data)
  <2>1. PICK j \in 1..Len(F) : F[j] = k /\ result' = Ok(files[j].data)
    BY <1>5
  <2>2. AnswerOf' = <<k, files[j].data>>
    BY <2>1 DEF AnswerOf, Ok
  <2>. DEFINE f == [at |-> F[j], data |-> files[j].data]
  <2>3. f \in S /\ f.at = k /\ f.data = files[j].data
    BY <1>2, <2>1 DEF Stored
  <2>. HIDE DEF f, S, k
  <2>4. Kept[k] = files[j].data
    BY <1>2, <1>3, <1>5, <2>3, KeptIs
  <2>. QED
    BY <1>3, <1>5, <2>2, <2>4
<1>6. CASE /\ Asks' /\ \A j \in 1..Len(F) : F[j] # k
           /\ result' \in {Err("FileNotFound"), Err("DirNotFound")}
  <2>1. result'.status # "ok" /\ result' # Err("PathNotFound")
    BY <1>6 DEF Err
  <2>2. AnswerOf' = <<k, None>>
    BY <1>6, <2>1 DEF AnswerOf
  <2>3. \A f \in S : f.at # k
    BY <1>2, <1>6 DEF Stored
  <2>. HIDE DEF S, k
  <2>4. Kept[k] = None
    BY <1>2, <1>3, <1>6, <2>3, KeptIs
  <2>. QED
    BY <1>3, <1>6, <2>2, <2>4
<1>. QED
  BY <1>1, <1>4, <1>5, <1>6 DEF Answers

LEMMA ReaderMaps ==
  ASSUME PathHashIsNumber, KeptInv, BuiltRead, ReaderPhases, RCall \/ RStep, UNCHANGED bVars
  PROVE  [Abstract!Next]_(Abstract!cVars)
<1>1. phase' = phase /\ files' = files /\ image' = image /\ rpc' # "none" /\ rpc # "none" /\ rpc # "done"
  BY Stay, StillRead, NotYetRead
<1>2. Kept' = Kept
  BY <1>1 DEF Kept
<1>3. AnswerOf = <<"none">>
  BY <1>1 DEF AnswerOf
<1>4. CASE phase = "built"
  <2>1. PICK D, F : Built(D, F) /\ ReadInv(D, F)
    BY <1>1, <1>4 DEF BuiltRead
  <2>2. ReadInv(D, F)' /\ HeaderError(image) = "none"
    BY <1>1, <2>1, ReadsBuilt DEF ReadInv
  <2>3. StateOf = "sealed" /\ StateOf' = "sealed"
    BY <1>1, <1>4 DEF StateOf
  <2>4. CASE rpc' = "done"
    <3>1. Answers(F)'
      BY <2>2, <2>4 DEF ReadInv
    <3>2. Holding(dirs, files, tree, D, F)
      BY <2>1 DEF Built
    <3>3. AnswerOf' = <<"aside">> \/ \E k \in Openable : AnswerOf' = <<k, Kept[k]>>
      BY <2>2, <2>4, <3>1, <3>2, AnswerIsKept
    <3>. QED
      BY <1>2, <2>3, <3>3, AsideStep, Getting
  <2>5. CASE rpc' # "done"
    <3>1. AnswerOf' = <<"none">>
      BY <2>5 DEF AnswerOf
    <3>. QED
      BY <1>2, <1>3, <2>3, <3>1, Unseen
  <2>. QED
    BY <2>4, <2>5
<1>5. CASE phase # "built"
  <2>1. phase = "add" /\ phase \notin BuilderErrors
    BY <1>1, <1>5 DEF ReaderPhases, BuilderErrors
  <2>2. StateOf = "foreign" /\ StateOf' = "foreign"
    BY <1>1, <2>1 DEF StateOf
  <2>. QED
    BY <1>2, <2>2, Foreign
<1>. QED
  BY <1>4, <1>5

LEMMA AcceptMaps ==
  ASSUME PathHashIsNumber, StoredInv, ImageFits, phase = "built", TryFromBytes(image), UNCHANGED bVars
  PROVE  [Abstract!Next]_(Abstract!cVars)
<1>1. PICK D, F : Built(D, F)
  BY DEF StoredInv, Built
<1>2. HeaderError(image) = "none"
  BY <1>1, HeaderAccepted DEF ImageFits
<1>3. rpc = "none" /\ rpc' = "ready"
  BY <1>2 DEF TryFromBytes
<1>4. Kept' = Kept
  BY Stay DEF Kept
<1>5. StateOf' = StateOf /\ AnswerOf' = AnswerOf
  BY <1>3, Stay DEF StateOf, AnswerOf
<1>. QED
  BY <1>4, <1>5, Unseen

LEMMA ForeignMaps ==
  ASSUME phase = "add", ForeignImage, UNCHANGED bVars
  PROVE  [Abstract!Next]_(Abstract!cVars)
<1>1. rpc = "none" /\ rpc' # "none"
  BY DEF ForeignImage, TryFromBytes
<1>2. Kept' = Kept
  BY Stay DEF Kept
<1>3. phase # "built" /\ phase \notin BuilderErrors
  BY DEF BuilderErrors
<1>4. StateOf = "open" /\ StateOf' = "foreign"
  BY <1>1, <1>3, Stay DEF StateOf
<1>. QED
  BY <1>2, <1>4, Opening

LEMMA IdleMaps ==
  ASSUME UNCHANGED vars
  PROVE  [Abstract!Next]_(Abstract!cVars)
<1>1. UNCHANGED bVars /\ UNCHANGED rVars
  BY DEF vars
<1>2. Kept' = Kept
  BY <1>1, Stay DEF Kept
<1>3. StateOf' = StateOf /\ AnswerOf' = AnswerOf
  BY <1>1, Stay DEF rVars, StateOf, AnswerOf
<1>. QED
  BY <1>2, <1>3, Unseen

LEMMA StepMaps ==
  ASSUME PathHashIsNumber, StoredInv, KeptInv, KeptInv', BuiltRead, ReaderPhases, ImageFits, [Next]_vars
  PROVE  [Abstract!Next]_(Abstract!cVars)
<1>1. CASE rpc = "none" /\ BNext /\ UNCHANGED rVars
  BY <1>1, BuilderMaps
<1>2. CASE phase = "built" /\ TryFromBytes(image) /\ UNCHANGED bVars
  BY <1>2, AcceptMaps
<1>3. CASE phase = "add" /\ ForeignImage /\ UNCHANGED bVars
  BY <1>3, ForeignMaps
<1>4. CASE (RCall \/ RStep) /\ UNCHANGED bVars
  BY <1>4, ReaderMaps
<1>5. CASE UNCHANGED vars
  BY <1>5, IdleMaps
<1>. QED
  BY <1>1, <1>2, <1>3, <1>4, <1>5 DEF Next, Finished

LEMMA InitMaps == Init => Abstract!Init
<1>. SUFFICES ASSUME Init PROVE Abstract!Init
  OBVIOUS
<1>1. Kept = KeptOf(tree.files)
  BY StoredInit, StoredKept DEF KeptInv
<1>2. tree.files = {} /\ rpc = "none" /\ phase \in {"add", "walk"}
  BY DEF Init, BInit, RInit
<1>3. Kept = [p \in Openable |-> None]
  BY <1>1, <1>2 DEF KeptOf
<1>4. phase # "built" /\ phase \notin BuilderErrors
  BY <1>2 DEF BuilderErrors
<1>. QED
  BY <1>2, <1>3, <1>4 DEF Abstract!Init, Openable

\* RomFsBuilder and RomFs together: for all paths, contents and directory listings and every order of calls, open and
\* data answer for a path with the bytes stored under it, and find nothing exactly where nothing was stored.
THEOREM RomFsImplementsContainer == PathHashIsNumber => (Spec /\ []ImageFits => ImplementsContainer)
<1>. SUFFICES ASSUME PathHashIsNumber PROVE Spec /\ []ImageFits => ImplementsContainer
  OBVIOUS
<1>1. StoredInv /\ KeptInv /\ KeptInv' /\ BuiltRead /\ ReaderPhases /\ ImageFits /\ [Next]_vars => [Abstract!Next]_(Abstract!cVars)
  BY StepMaps
<1>2. ReaderPhases /\ [Next]_vars => ReaderPhases'
  BY ReaderPhasesStep
<1>3. StoredInv => KeptInv
  BY StoredKept
<1>4. Spec => [](StoredInv /\ BuiltRead)
  BY RomFsReaderInvariant
<1>. QED
  BY <1>1, <1>2, <1>3, <1>4, ReaderPhasesInit, InitMaps, PTL DEF Spec, ImplementsContainer, Abstract!Spec

(***************************************************************************)
(* No slice leaves the buffer, the one that was built included             *)
(***************************************************************************)
Idle == (rpc # "done" => result = NoResult) /\ (rpc \notin {"iter", "listed"} => yielded = <<>>)

LEMMA IdleInit == Init => Idle
  BY DEF Init, RInit, Idle

LEMMA IdleReads ==
  ASSUME Idle, RCall \/ RStep \/ (\E i : TryFromBytes(i)) \/ UNCHANGED rVars
  PROVE  Idle'
<1>1. ASSUME NEW i, TryFromBytes(i) PROVE Idle'
  BY <1>1 DEF TryFromBytes, Idle
<1>2. ASSUME NEW path \in OpenPaths, Open(path) PROVE Idle'
  BY <1>2 DEF Open, Resolve, Idle
<1>3. CASE RootEntries \/ Descend
  BY <1>3 DEF RootEntries, Descend, BeginEntries, RReturn, Idle
<1>4. CASE FindDir
  BY <1>4 DEF FindDir, Resolve, RReturn, Idle
<1>5. CASE FindFile \/ Data
  BY <1>5 DEF FindFile, Data, RReturn, Idle
<1>6. CASE NextDir \/ NextFile \/ EntriesEnd
  BY <1>6 DEF NextDir, NextFile, EntriesEnd, Idle
<1>7. CASE UNCHANGED rVars
  BY <1>7 DEF rVars, Idle
<1>. QED
  BY <1>1, <1>2, <1>3, <1>4, <1>5, <1>6, <1>7 DEF RCall, RStep

LEMMA IdleStep ==
  ASSUME Idle, [Next]_vars
  PROVE  Idle'
  BY IdleReads DEF Next, Finished, vars, ForeignImage

\* Names are spelt in the entries.
LEMMA DirNameLen ==
  ASSUME PathHashIsNumber, NEW D, NEW F, Built(D, F), NEW k \in 1..Len(D)
  PROVE  Len(image.dir_meta.entries[DOffs[k]].name) \in Nat /\ At(image, "dir_meta", DOffs[k])
<1>. DEFINE e == image.dir_meta.entries[DOffs[k]]
<1>1. DirIs(dirs[k], D, F, D[k]) /\ D[k] \in Path
  BY BuiltIs, FiledIs
<1>2. dirs[k].name \in Text
  BY <1>1, PathIs DEF DirIs
<1>3. e = DirEntryOf(k)
  BY DirsInImage, DirEntryIs
<1>. HIDE DEF e
<1>4. Len(e.name) \in Nat
  BY <1>2, <1>3, Align4Len DEF DirEntryOf
<1>. QED
  BY <1>4, DirRows DEF e, DirRow

LEMMA FileNameLen ==
  ASSUME PathHashIsNumber, NEW D, NEW F, Built(D, F), NEW k \in 1..Len(F)
  PROVE  Len(image.file_meta.entries[FOffs[k]].name) \in Nat /\ At(image, "file_meta", FOffs[k])
<1>. DEFINE e == image.file_meta.entries[FOffs[k]]
<1>1. FileIs(files[k], D, F[k]) /\ F[k] \in Path
  BY BuiltIs, FiledIs
<1>2. Last(F[k]) \in Text
  BY <1>1, PathIs DEF FileIs, BaseName
<1>3. e = ExpectedFile(F[k])
  BY FilesInImage
<1>. HIDE DEF e
<1>4. Len(e.name) \in Nat
  BY <1>2, <1>3, Align4Len DEF ExpectedFile
<1>. QED
  BY <1>4, FileRows DEF e, FileRow

LEMMA EntryInside ==
  ASSUME PathHashIsNumber, NEW D, NEW F, Built(D, F), img = image
  PROVE  /\ \A t \in ToSet(Tables) : img.header[t].offset + img.header[t].size =< img.len
         /\ \A k \in 1..Len(D) : InBuffer("dir_meta", DOffs[k])
         /\ \A k \in 1..Len(F) : InBuffer("file_meta", FOffs[k])
<1>1. Unsigned(img) /\ TablesInside(img)
  BY TablesOfImage
<1>2. ASSUME NEW k \in 1..Len(D) PROVE InBuffer("dir_meta", DOffs[k])
  <2>1. Len(img["dir_meta"].entries[DOffs[k]].name) \in Nat /\ At(img, "dir_meta", DOffs[k])
    BY DirNameLen
  <2>. QED
    BY <1>1, <2>1, FitsBuffer
<1>3. ASSUME NEW k \in 1..Len(F) PROVE InBuffer("file_meta", FOffs[k])
  <2>1. Len(img["file_meta"].entries[FOffs[k]].name) \in Nat /\ At(img, "file_meta", FOffs[k])
    BY FileNameLen
  <2>. QED
    BY <1>1, <2>1, FitsBuffer
<1>. QED
  BY <1>1, <1>2, <1>3 DEF TablesInside

\* A listing holds entries of the stored tree.
LEMMA ListedInside ==
  ASSUME PathHashIsNumber, NEW D, NEW F, Built(D, F), img = image, NEW k, NEW i, NEW j, Iterates(D, F, k, i, j)
  PROVE  \A m \in DOMAIN yielded :
           InBuffer(IF yielded[m].kind = "dir" THEN "dir_meta" ELSE "file_meta", yielded[m].at)
<1>. DEFINE x == dirs[k].children
            y == dirs[k].files
<1>1. /\ k \in 1..Len(D) /\ i \in 0..Len(x) /\ j \in 0..Len(y)
      /\ yielded = Items(DOffs, FOffs, D, F, x, y, i, j)
  BY DEF Iterates
<1>2. Linked(x, D, D[k], DOffs, image.dir_meta) /\ Linked(y, F, D[k], FOffs, image.file_meta)
  BY <1>1, DirsLinked, FilesLinked
<1>. HIDE DEF x, y
<1>3. /\ i \in Nat /\ j \in Nat /\ D \in Seq(Path) /\ F \in Seq(Path)
      /\ (\A m \in 1..i : m \in 1..Len(x)) /\ \A m \in 1..j : m \in 1..Len(y)
  BY <1>1, <1>2, BuiltIs DEF Linked
<1>4. Enumerates(yielded, DOffs, FOffs, D, F, x, y, i, j)
  BY <1>1, <1>3, ItemsAre
<1>. SUFFICES ASSUME NEW m \in DOMAIN yielded
              PROVE  InBuffer(IF yielded[m].kind = "dir" THEN "dir_meta" ELSE "file_meta", yielded[m].at)
  OBVIOUS
<1>5. m \in 1..(i + j)
  BY <1>4 DEF Enumerates
<1>6. CASE m \in 1..i
  <2>1. x[m] \in 1..Len(D)
    BY <1>2, <1>3, <1>6, EntryListed
  <2>2. yielded[m] = DirItem(DOffs, D, x[m])
    BY <1>4, <1>6, EnumeratesDir
  <2>3. DirItem(DOffs, D, x[m]).kind = "dir" /\ DirItem(DOffs, D, x[m]).at = DOffs[x[m]]
    BY DEF DirItem
  <2>4. yielded[m].kind = "dir" /\ yielded[m].at = DOffs[x[m]]
    BY <2>2, <2>3, Zenon
  <2>5. InBuffer("dir_meta", DOffs[x[m]])
    BY <2>1, EntryInside
  <2>. QED
    BY <2>4, <2>5
<1>7. CASE ~(m \in 1..i)
  <2>. DEFINE l == m - i
  <2>1. l \in 1..j /\ i + l = m
    BY <1>3, <1>5, <1>7
  <2>. HIDE DEF l
  <2>2. y[l] \in 1..Len(F)
    BY <1>2, <1>3, <2>1, EntryListed
  <2>3. yielded[i + l] = FileItem(FOffs, F, y[l])
    BY <1>4, <2>1, EnumeratesFile
  <2>4. FileItem(FOffs, F, y[l]).kind = "file" /\ FileItem(FOffs, F, y[l]).at = FOffs[y[l]]
    BY DEF FileItem
  <2>5. yielded[m].kind = "file" /\ yielded[m].at = FOffs[y[l]]
    BY <2>1, <2>3, <2>4, Zenon
  <2>6. InBuffer("file_meta", FOffs[y[l]])
    BY <2>2, EntryInside
  <2>. QED
    BY <2>5, <2>6
<1>. QED
  BY <1>6, <1>7

LEMMA BuiltStaysInside ==
  ASSUME PathHashIsNumber, NEW D, NEW F, Built(D, F), ReadInv(D, F), Idle
  PROVE  ReaderStaysInside
<1>1. img = image
  BY DEF ReadInv
<1>2. result.status # "panic"
  <2>1. CASE rpc # "done"
    BY <2>1 DEF Idle, NoResult
  <2>2. CASE rpc = "done"
    BY <2>2 DEF ReadInv, Answers, Err, Ok
  <2>. QED
    BY <2>1, <2>2
<1>3. rpc \notin {"none", "done"} => \A t \in ToSet(Tables) : img.header[t].offset + img.header[t].size =< img.len
  BY <1>1, EntryInside
<1>4. rpc \in {"find_dir", "find_file", "iter", "listed"} => InBuffer("dir_meta", dir)
  <2>1. rpc \in {"find_dir", "find_file", "iter", "listed"} => \E k \in 1..Len(D) : dir = DOffs[k]
    BY DEF ReadInv, SeeksDir, SeeksFile, Stands, Walks, Ended, Iterates
  <2>. QED
    BY <1>1, <2>1, EntryInside
<1>5. rpc = "data" => InBuffer("file_meta", cursor)
  <2>1. rpc = "data" => \E k \in 1..Len(F) : cursor = FOffs[k]
    BY DEF ReadInv, Finds
  <2>. QED
    BY <1>1, <2>1, EntryInside
<1>6. \A m \in DOMAIN yielded : InBuffer(IF yielded[m].kind = "dir" THEN "dir_meta" ELSE "file_meta", yielded[m].at)
  <2>1. CASE rpc \in {"iter", "listed"}
    <3>1. PICK k, i, j : Iterates(D, F, k, i, j)
      BY <2>1 DEF ReadInv, Walks, Ended
    <3>. QED
      BY <1>1, <3>1, ListedInside
  <2>2. CASE rpc \notin {"iter", "listed"}
    <3>1. yielded = <<>>
      BY <2>2 DEF Idle
    <3>2. DOMAIN yielded = {}
      BY <3>1
    <3>. QED
      BY <3>2
  <2>. QED
    BY <2>1, <2>2
<1>. QED
  BY <1>2, <1>3, <1>4, <1>5, <1>6 DEF ReaderStaysInside

LEMMA IdleReader == ASSUME Idle, rpc = "none" PROVE ReaderInv
<1>1. result = NoResult /\ yielded = <<>>
  BY DEF Idle
<1>2. result.status # "panic" /\ yielded \in Seq({}) /\ DOMAIN yielded = {}
  BY <1>1 DEF NoResult
<1>. QED
  BY <1>1, <1>2 DEF ReaderInv

\* While nothing was built, the image is one the crate did not build.
ForeignInv == phase # "built" => ReaderInv

LEMMA ForeignInit == Init => ForeignInv
  BY ReaderInitInv DEF Init, ForeignInv

LEMMA ForeignStep ==
  ASSUME Idle, ForeignInv, [Next]_vars
  PROVE  ForeignInv'
<1>0. Idle'
  BY IdleStep
<1>1. CASE rpc = "none" /\ BNext /\ UNCHANGED rVars
  <2>1. ReaderInv
    BY <1>1, IdleReader
  <2>2. ReaderInv'
    BY <1>1, <2>1, ReaderUnchanged
  <2>. QED
    BY <2>2 DEF ForeignInv
<1>2. CASE phase = "built" /\ TryFromBytes(image) /\ UNCHANGED bVars
  BY <1>2, Stay DEF ForeignInv
<1>3. CASE phase = "add" /\ files = <<>> /\ ForeignImage /\ UNCHANGED bVars
  BY <1>3, ForeignImageInv DEF ForeignInv
<1>4. CASE (RCall \/ RStep) /\ UNCHANGED bVars
  <2>1. CASE phase = "built"
    BY <1>4, <2>1, Stay DEF ForeignInv
  <2>2. CASE phase # "built"
    BY <1>4, <2>2, ReadStepInv DEF ForeignInv
  <2>. QED
    BY <2>1, <2>2
<1>5. CASE UNCHANGED vars
  BY <1>5, ReaderUnchanged, Stay DEF vars, ForeignInv
<1>. QED
  BY <1>1, <1>2, <1>3, <1>4, <1>5 DEF Next, Finished

\* RomFs's from_offset, open, data and DirIterator::next: no image makes them leave the buffer, one that build
\* returned included.  Nothing panics, and every entry a call stands on or hands out lies, with its name, in it.
THEOREM RomFsReaderStaysInside == PathHashIsNumber => (Spec => []ReaderStaysInside)
<1>. SUFFICES ASSUME PathHashIsNumber PROVE Spec => []ReaderStaysInside
  OBVIOUS
<1>1. Init => Idle /\ ForeignInv
  BY IdleInit, ForeignInit
<1>2. Idle /\ ForeignInv /\ [Next]_vars => Idle' /\ ForeignInv'
  BY IdleStep, ForeignStep
<1>3. Idle /\ ForeignInv /\ BuiltRead => ReaderStaysInside
  <2>. SUFFICES ASSUME Idle, ForeignInv, BuiltRead PROVE ReaderStaysInside
    OBVIOUS
  <2>1. CASE phase # "built"
    BY <2>1, ReaderInvImplies DEF ForeignInv
  <2>2. CASE rpc = "none"
    BY <2>2, IdleReader, ReaderInvImplies
  <2>3. CASE phase = "built" /\ rpc # "none"
    BY <2>3, BuiltStaysInside DEF BuiltRead
  <2>. QED
    BY <2>1, <2>2, <2>3
<1>. QED
  BY <1>1, <1>2, <1>3, RomFsReaderInvariant, PTL DEF Spec
=============================================================================
