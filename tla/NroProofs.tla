------------------------------ MODULE NroProofs ------------------------------
(***************************************************************************)
(* A built NRO reads back as what the setters or the ELF put in it, unless *)
(* segments overlap, and no accessor of an accepted image slices outside   *)
(* it: for every page size, every header and every set of inputs.          *)
(***************************************************************************)
EXTENDS Nro, LayoutLemmas

(***************************************************************************)
(* Names                                                                   *)
(***************************************************************************)
SegKeys == {"text", "rodata", "data"}
AssetKeys == {"icon", "nacp", "romfs"}

LEMMA KeySets ==
  /\ ToSet(SEGMENTS) = SegKeys /\ ToSet(ASSETS) = AssetKeys
  /\ \A k \in 1..3 : SEGMENTS[k] \in SegKeys /\ SegmentNames[k] = SEGMENTS[k]
  /\ \A k \in 1..3 : ASSETS[k] \in AssetKeys /\ AssetNames[k] = ASSETS[k]
<1>1. DOMAIN SEGMENTS = 1..3 /\ DOMAIN ASSETS = 1..3 /\ 1..3 = {1, 2, 3}
  BY DEF SEGMENTS, ASSETS
<1>2. SEGMENTS[1] = "text" /\ SEGMENTS[2] = "rodata" /\ SEGMENTS[3] = "data"
  BY DEF SEGMENTS
<1>3. ASSETS[1] = "icon" /\ ASSETS[2] = "nacp" /\ ASSETS[3] = "romfs"
  BY DEF ASSETS
<1>4. SegmentNames = SEGMENTS /\ AssetNames = ASSETS
  BY DEF SegmentNames, SEGMENTS, AssetNames, ASSETS
<1>5. ToSet(SEGMENTS) = SegKeys /\ ToSet(ASSETS) = AssetKeys
  BY <1>1, <1>2, <1>3 DEF ToSet, SegKeys, AssetKeys
<1>. QED
  BY <1>1, <1>2, <1>3, <1>4, <1>5 DEF SegKeys, AssetKeys

LEMMA Addresses ==
  /\ DOMAIN Vaddr = SegKeys
  /\ Vaddr["text"] = "text_vaddr" /\ Vaddr["rodata"] = "rodata_vaddr" /\ Vaddr["data"] = "data_vaddr"
  /\ {Vaddr[s] : s \in DOMAIN Vaddr} = {"text_vaddr", "rodata_vaddr", "data_vaddr"}
  BY DEF Vaddr, SegKeys

(***************************************************************************)
(* The reader                                                              *)
(***************************************************************************)
\* Every slice an accessor takes ends in the buffer.
InBounds(n) ==
  \A k \in 1..3 :
    /\ ~(SegmentEnd(n, k) > n.len)
    /\ asset_header(n) # NoHeader /\ n.assets.sections[k].size # 0 => ~(AssetEnd(n, k) > n.len)

LEMMA AcceptedInBounds ==
  ASSUME NEW n, HeaderError(n) = "none"
  PROVE  InBounds(n)
<1>1. \A k \in 1..3 : SegmentError(n, k) = "none" /\ AssetError(n, k) = "none"
  BY DEF HeaderError
<1>2. \A k \in 1..3 : ~(SegmentEnd(n, k) > n.len)
  BY <1>1 DEF SegmentError
<1>3. \A k \in 1..3 : asset_header(n) # NoHeader /\ n.assets.sections[k].size # 0 => ~(AssetEnd(n, k) > n.len)
  BY <1>1 DEF AssetError
<1>. QED
  BY <1>2, <1>3 DEF InBounds

\* NoPanic is not inductive: the accessors rely on what try_from_bytes checked.
ReaderInv == NoPanic /\ (rpc = "ready" => InBounds(nro))

LEMMA TryFromBytesKeeps ==
  ASSUME ReaderInv, NEW n, TryFromBytes(n)
  PROVE  ReaderInv'
<1>1. CASE HeaderError(n) = "none"
  <2>1. nro' = n /\ result' = result /\ InBounds(n)
    BY <1>1, AcceptedInBounds DEF TryFromBytes
  <2>2. InBounds(nro')
    BY <2>1
  <2>3. InBounds(nro)'
    BY <2>2 DEF InBounds, SegmentEnd, AssetEnd, asset_header
  <2>. QED
    BY <2>1, <2>3 DEF ReaderInv, NoPanic
<1>2. CASE HeaderError(n) # "none"
  BY <1>2 DEF TryFromBytes, Err, ReaderInv, NoPanic
<1>. QED
  BY <1>1, <1>2

LEMMA ReturnsKeeps ==
  ASSUME ReaderInv, NEW value, Returns(value), value.status # "panic"
  PROVE  ReaderInv'
<1>1. result' = value /\ nro' = nro /\ rpc = "ready"
  BY DEF Returns
<1>2. InBounds(nro)'
  BY <1>1 DEF ReaderInv, InBounds, SegmentEnd, AssetEnd, asset_header
<1>. QED
  BY <1>1, <1>2 DEF ReaderInv, NoPanic

LEMMA SliceStays ==
  ASSUME NEW key, NEW first, NEW last, ~(last > nro.len)
  PROVE  Slice(key, first, last).status # "panic"
  BY DEF Slice, Ok

LEMMA RNextKeeps ==
  ASSUME ReaderInv, RNext
  PROVE  ReaderInv'
<1>0. rpc = "ready" /\ InBounds(nro)
  BY DEF RNext, Segment, Asset, AssetSumOverflows, Returns, ReaderInv
<1>1. CASE \E k \in 1..3 : Segment(k)
  <2>1. PICK k \in 1..3 : Segment(k)
    BY <1>1
  <2>2. ~(SegmentEnd(nro, k) > nro.len)
    BY <1>0 DEF InBounds
  <2>3. Slice(SegmentNames[k], nro.segments[k].file_off, SegmentEnd(nro, k)).status # "panic"
    BY <2>2, SliceStays
  <2>. QED
    BY <2>1, <2>3, ReturnsKeeps DEF Segment
<1>2. CASE \E k \in 1..3 : Asset(k)
  <2>1. PICK k \in 1..3 : Asset(k)
    BY <1>2
  <2>. DEFINE none == asset_header(nro) = NoHeader \/ nro.assets.sections[k].size = 0
              slice == Slice(AssetNames[k], nro.size + nro.assets.sections[k].offset, AssetEnd(nro, k))
              value == IF none THEN AbsentAsset(k) ELSE slice
  <2>2. ~none => slice.status # "panic"
    <3>1. ~none => ~(AssetEnd(nro, k) > nro.len)
      BY <1>0 DEF InBounds
    <3>. QED
      BY <3>1, SliceStays
  <2>3. AbsentAsset(k).status # "panic"
    BY DEF AbsentAsset
  <2>4. Returns(value)
    BY <2>1 DEF Asset
  <2>. HIDE DEF none, slice
  <2>5. value.status # "panic"
    BY <2>2, <2>3
  <2>. HIDE DEF value
  <2>. QED
    BY <2>4, <2>5, ReturnsKeeps
<1>3. CASE \E k \in 1..3 : AssetSumOverflows(k)
  BY <1>3, ReturnsKeeps DEF AssetSumOverflows
<1>4. CASE rpc = "ready" /\ ReadMod0
  <2>. DEFINE value == Mod0Of(SubSeq(nro.bytes, mod_offset + 1, Len(nro.bytes)))
  <2>1. value.status # "panic"
    BY DEF Mod0Of
  <2>2. Returns(value)
    BY <1>4 DEF ReadMod0
  <2>. HIDE DEF value
  <2>. QED
    BY <2>1, <2>2, ReturnsKeeps
<1>. QED
  BY <1>1, <1>2, <1>3, <1>4 DEF RNext

LEMMA NextReaderInv == ReaderInv /\ [Next]_vars => ReaderInv'
<1>. SUFFICES ASSUME ReaderInv, [Next]_vars PROVE ReaderInv'
  OBVIOUS
<1>1. CASE UNCHANGED rVars
  <2>1. InBounds(nro) => InBounds(nro)'
    BY <1>1 DEF rVars, InBounds, SegmentEnd, AssetEnd, asset_header
  <2>. QED
    BY <1>1, <2>1 DEF rVars, ReaderInv, NoPanic
<1>2. CASE TryFromBytes(image) \/ ForeignBytes \/ ForeignPtr
  BY <1>2, TryFromBytesKeeps DEF ForeignBytes, ForeignPtr, TryFromPtr
<1>3. CASE RNext
  BY <1>3, RNextKeeps
<1>. QED
  BY <1>1, <1>2, <1>3 DEF Next, Finished, vars

\* For every set of foreign images, behind a slice or a pointer, and for every
\* image build returns: no accessor of an accepted NRO panics.
THEOREM NroNoPanic == Spec => []NoPanic
<1>1. Init => ReaderInv
  BY DEF Init, RInit, NoResult, ReaderInv, NoPanic
<1>2. ReaderInv => NoPanic
  BY DEF ReaderInv
<1>. QED
  BY <1>1, <1>2, NextReaderInv, PTL DEF Spec

(***************************************************************************)
(* The loadable segments of an ELF, sorted                                 *)
(***************************************************************************)
ElfSegment == [load : BOOLEAN, readable : BOOLEAN, addr : 0..(U64 - 1), bytes : Seq(Int), memsz : 0..(U64 - 1)]

\* The index of the k-th loadable segment.
Place(e, k) == CHOOSE i \in Loads(e) : Cardinality({j \in Loads(e) : Before(e, j, i)}) = k - 1

\* Sorting loses no segment, takes none twice, and puts them in order of address.
LEMMA LoadsSorted ==
  ASSUME NEW e, e.segments \in Seq(ElfSegment)
  PROVE  /\ Cardinality(Loads(e)) \in Nat
         /\ LoadSegments(e) \in [1..Cardinality(Loads(e)) -> ElfSegment]
         /\ \A k \in 1..Cardinality(Loads(e)) : Place(e, k) \in Loads(e) /\ LoadSegments(e)[k] = e.segments[Place(e, k)]
         /\ \A j, k \in 1..Cardinality(Loads(e)) : j < k => Before(e, Place(e, j), Place(e, k))
         /\ \A i \in Loads(e) : \E k \in 1..Cardinality(Loads(e)) : Place(e, k) = i
<1>. DEFINE S == Loads(e)
            n == Cardinality(S)
            segs == e.segments
<1>1. segs \in Seq(ElfSegment) /\ S \in SUBSET DOMAIN segs /\ \A t \in ElfSegment : t.addr \in Nat
  <2>1. \A t \in ElfSegment : t.addr \in 0..(U64 - 1)
    BY DEF ElfSegment
  <2>. QED
    BY <2>1, ElfUnits DEF Loads, PtLoads
<1>2. /\ \A i, j : Before(e, i, j) <=> Precedes(segs, i, j)
      /\ \A k : Place(e, k) = PlaceIn(segs, S, k)
  BY DEF Before, Precedes, Place, PlaceIn
<1>3. LoadSegments(e) = [k \in 1..n |-> segs[Place(e, k)]]
  BY DEF LoadSegments, Place
<1>. HIDE DEF S, segs
<1>4. /\ n \in Nat
      /\ \A k \in 1..n : PlaceIn(segs, S, k) \in S /\ segs[PlaceIn(segs, S, k)] \in ElfSegment
      /\ \A j, k \in 1..n : j < k => Precedes(segs, PlaceIn(segs, S, j), PlaceIn(segs, S, k))
      /\ \A i \in S : \E k \in 1..n : PlaceIn(segs, S, k) = i
  BY <1>1, AddressOrder, SMTT(60)
<1>. QED
  BY <1>2, <1>3, <1>4 DEF S, segs

\* What an ELF that parses hands to the builder is bytes and u32 addresses.
LEMMA ElfFields ==
  ASSUME NEW e \in Elfs, ParseError(e) = "none"
  PROVE  /\ Cardinality(Loads(e)) \in Nat /\ Cardinality(Loads(e)) >= 3
         /\ \A s \in SegKeys : BuilderFields(e)[s] \in Seq(Int) /\ BuilderFields(e)[Vaddr[s]] \in 0..(U32 - 1)
<1>. DEFINE n == Cardinality(Loads(e))
            loads == LoadSegments(e)
<1>1. e.segments \in Seq(ElfSegment)
  BY ElfsSupplied DEF ElfSegment
<1>2. n \in Nat /\ loads \in [1..n -> ElfSegment]
  BY <1>1, LoadsSorted
<1>3. Len(loads) = n /\ Len(loads) # 0 /\ Len(loads) # 1 /\ Len(loads) # 2
  <2>1. Len(loads) # 0 /\ Len(loads) # 1 /\ Len(loads) # 2
    BY DEF ParseError
  <2>. HIDE DEF loads, n
  <2>. QED
    BY <1>2, <2>1
<1>4. n >= 3 /\ 1 \in 1..n /\ 2 \in 1..n /\ 3 \in 1..n
  BY <1>2, <1>3
<1>. HIDE DEF n
<1>5. /\ BuilderFields(e)["text"] = loads[1].bytes /\ BuilderFields(e)["text_vaddr"] = loads[1].addr % U32
      /\ BuilderFields(e)["rodata"] = loads[2].bytes /\ BuilderFields(e)["rodata_vaddr"] = loads[2].addr % U32
      /\ BuilderFields(e)["data"] = loads[3].bytes /\ BuilderFields(e)["data_vaddr"] = loads[3].addr % U32
  BY DEF BuilderFields
<1>. HIDE DEF loads
<1>6. ASSUME NEW k \in 1..3 PROVE loads[k].bytes \in Seq(Int) /\ loads[k].addr % U32 \in 0..(U32 - 1)
  <2>1. loads[k] \in ElfSegment
    BY <1>2, <1>4
  <2>2. loads[k].bytes \in Seq(Int) /\ loads[k].addr \in 0..(U64 - 1)
    BY <2>1 DEF ElfSegment
  <2>3. loads[k].addr \in Nat /\ U32 \in Nat \ {0}
    BY <2>2, ElfUnits
  <2>4. loads[k].addr % U32 \in 0..(U32 - 1)
    BY <2>3, DivMod, Zenon
  <2>. QED
    BY <2>2, <2>4
<1>. QED
  BY <1>2, <1>4, <1>5, <1>6, Addresses, SMTT(60) DEF SegKeys, n

(***************************************************************************)
(* What build lays out                                                     *)
(***************************************************************************)
\* The builder's fields hold what the setters and the ELF give them.
BuilderOK ==
  /\ DOMAIN b = DOMAIN NewBuilder
  /\ \A s \in SegKeys : (b[s] = None \/ b[s] \in Seq(Int)) /\ b[Vaddr[s]] \in 0..(U32 - 1)
  /\ \A a \in AssetKeys : b[a] = None \/ (b[a] \in Seq(Int) /\ U32 + ASSET_HDR + 3 * Len(b[a]) =< USIZE_MAX)

\* What build found when it returned an image.
Sealable == BuildError = "none" /\ ~CopyPanics /\ ~HeaderOverwritten

LEMMA PaddedIs ==
  ASSUME NEW bytes \in Seq(Int)
  PROVE  /\ Padded(bytes) \in Seq(Int)
         /\ Len(Padded(bytes)) = ((Len(bytes) + PAGE - 1) \div PAGE) * PAGE
         /\ Len(Padded(bytes)) \in Len(bytes)..(Len(bytes) + PAGE - 1)
         /\ \A i \in 1..Len(Padded(bytes)) : Padded(bytes)[i] = IF i =< Len(bytes) THEN bytes[i] ELSE 0
<1>1. Padded(bytes) = PagePadded(bytes, PAGE)
  BY DEF Padded, PagePadded
<1>. QED
  BY <1>1, PagePaddedIs, ElfUnits, SMTT(60)

LEMMA WriteIs ==
  ASSUME NEW n \in Nat, NEW buf \in [1..n -> Int], NEW at \in Nat, NEW bytes \in Seq(Int)
  PROVE  /\ Write(buf, at, bytes) \in [1..n -> Int]
         /\ \A p \in 1..n : Write(buf, at, bytes)[p] =
              IF p > at /\ p =< at + Len(bytes) THEN bytes[p - at] ELSE buf[p]
<1>1. Write(buf, at, bytes) = [p \in 1..n |-> IF p > at /\ p =< at + Len(bytes) THEN bytes[p - at] ELSE buf[p]]
  BY DEF Write
<1>2. ASSUME NEW p \in 1..n, p > at /\ p =< at + Len(bytes) PROVE bytes[p - at] \in Int
  <2>1. Len(bytes) \in Nat
    BY LenProperties
  <2>2. p - at \in 1..Len(bytes)
    BY <1>2, <2>1
  <2>. QED
    BY <2>2, ElementOfSeq
<1>. QED
  BY <1>1, <1>2

LEMMA Sizes ==
  ASSUME BuilderOK, BuildError = "none"
  PROVE  /\ \A s \in SegKeys : /\ b[s] \in Seq(Int) /\ Padded(b[s]) \in Seq(Int) /\ Len(Padded(b[s])) \in Nat
                               /\ At(s) \in 0..(U32 - 1) /\ EndOfSegment(s) \in Nat
                               /\ EndOfSegment(s) = At(s) + Len(Padded(b[s]))
         /\ \A a \in AssetKeys : /\ AssetLen(a) \in Nat /\ U32 + ASSET_HDR + 3 * AssetLen(a) =< USIZE_MAX
                                 /\ b[a] # None => b[a] \in Seq(Int) /\ Len(b[a]) = AssetLen(a)
         /\ nro_size \in 0..(U32 - 1) /\ (~NroSizeOverflows => nro_size = EndOfSegment("data"))
         /\ total_size \in Nat /\ nro_size =< total_size
<1>1. ASSUME NEW s \in SegKeys
      PROVE  /\ b[s] \in Seq(Int) /\ Padded(b[s]) \in Seq(Int) /\ Len(Padded(b[s])) \in Nat
             /\ At(s) \in 0..(U32 - 1) /\ EndOfSegment(s) \in Nat /\ EndOfSegment(s) = At(s) + Len(Padded(b[s]))
  <2>1. b[s] # None
    BY DEF BuildError, SegKeys
  <2>2. b[s] \in Seq(Int) /\ At(s) \in 0..(U32 - 1)
    BY <2>1 DEF BuilderOK, At
  <2>3. Padded(b[s]) \in Seq(Int)
    BY <2>2, PaddedIs
  <2>4. Len(Padded(b[s])) \in Nat
    BY <2>3, LenProperties
  <2>. QED
    BY <2>2, <2>3, <2>4, ElfUnits DEF EndOfSegment
<1>2. ASSUME NEW a \in AssetKeys
      PROVE  /\ AssetLen(a) \in Nat /\ U32 + ASSET_HDR + 3 * AssetLen(a) =< USIZE_MAX
             /\ b[a] # None => b[a] \in Seq(Int) /\ Len(b[a]) = AssetLen(a)
  <2>1. CASE b[a] = None
    BY <2>1, SameNroFormat, ElfUnits, NroUnits DEF AssetLen
  <2>2. CASE b[a] # None
    <3>1. b[a] \in Seq(Int) /\ U32 + ASSET_HDR + 3 * Len(b[a]) =< USIZE_MAX
      BY <2>2 DEF BuilderOK
    <3>2. AssetLen(a) = Len(b[a]) /\ Len(b[a]) \in Nat
      BY <2>2, <3>1, LenProperties DEF AssetLen
    <3>. QED
      BY <3>1, <3>2
  <2>. QED
    BY <2>1, <2>2
<1>3. nro_size \in 0..(U32 - 1) /\ (~NroSizeOverflows => nro_size = EndOfSegment("data"))
  <2>. DEFINE x == EndOfSegment("data")
  <2>1. x \in Nat /\ U32 \in Nat \ {0}
    BY <1>1, ElfUnits DEF SegKeys
  <2>. HIDE DEF x
  <2>2. x % U32 \in 0..(U32 - 1)
    BY <2>1, DivMod, Zenon
  <2>3. x < U32 => x % U32 = x
    <3>. SUFFICES ASSUME x < U32 PROVE x % U32 = x
      OBVIOUS
    <3>1. 0 \in Nat /\ x \in 0..(U32 - 1) /\ 0 * U32 + x = x
      BY <2>1
    <3>. QED
      BY <2>1, <3>1, DivModUnique
  <2>. QED
    BY <2>1, <2>2, <2>3 DEF nro_size, NroSizeOverflows, x
<1>4. total_size \in Nat /\ nro_size =< total_size
  <2>1. AssetLen("icon") \in Nat /\ AssetLen("nacp") \in Nat /\ AssetLen("romfs") \in Nat
    BY <1>2 DEF AssetKeys
  <2>. QED
    BY <1>3, <2>1, NroUnits DEF total_size
<1>. QED
  BY <1>1, <1>2, <1>3, <1>4

\* The byte at p before the headers are written: a later segment wins.
SegByte(p) ==
  IF p > At("data") /\ p =< EndOfSegment("data") THEN Padded(b.data)[p - At("data")]
  ELSE IF p > At("rodata") /\ p =< EndOfSegment("rodata") THEN Padded(b.rodata)[p - At("rodata")]
  ELSE IF p > At("text") /\ p =< EndOfSegment("text") THEN Padded(b.text)[p - At("text")]
  ELSE 0

HeadByte(p) == IF p \in (START + 1)..HDR_END THEN HdrByte(p) ELSE SegByte(p)

LEMMA HeadBytes ==
  ASSUME BuilderOK, BuildError = "none"
  PROVE  /\ WriteHeader(WriteSegments([i \in 1..total_size |-> 0])) \in [1..total_size -> Int]
         /\ \A p \in 1..total_size : WriteHeader(WriteSegments([i \in 1..total_size |-> 0]))[p] = HeadByte(p)
<1>. DEFINE n == total_size
            z == [i \in 1..n |-> 0]
            t == Padded(b["text"])
            r == Padded(b["rodata"])
            d == Padded(b["data"])
            w1 == Write(z, At("text"), t)
            w2 == Write(w1, At("rodata"), r)
            w3 == Write(w2, At("data"), d)
            h == [i \in 1..(HDR_END - START) |-> HdrByte(START + i)]
            w4 == Write(w3, START, h)
<1>1. n \in Nat /\ z \in [1..n -> Int]
  BY Sizes
<1>2. /\ t \in Seq(Int) /\ At("text") \in Nat /\ EndOfSegment("text") = At("text") + Len(t)
      /\ r \in Seq(Int) /\ At("rodata") \in Nat /\ EndOfSegment("rodata") = At("rodata") + Len(r)
      /\ d \in Seq(Int) /\ At("data") \in Nat /\ EndOfSegment("data") = At("data") + Len(d)
  BY Sizes, ElfUnits DEF SegKeys
<1>3. h \in Seq(Int) /\ Len(h) = HDR_END - START /\ START \in Nat /\ HDR_END \in Nat
  BY NroUnits DEF HdrByte
<1>4. WriteHeader(WriteSegments(z)) = w4
  BY DEF WriteHeader, WriteSegments
<1>5. \A p \in 1..n : z[p] = 0
  OBVIOUS
<1>6. \A p \in 1..n : p > START /\ p =< START + Len(h) => h[p - START] = HdrByte(p)
  <2>. SUFFICES ASSUME NEW p \in 1..n, p > START, p =< START + Len(h) PROVE h[p - START] = HdrByte(p)
    OBVIOUS
  <2>. HIDE DEF h, n
  <2>1. p - START \in 1..(HDR_END - START) /\ START + (p - START) = p
    BY <1>1, <1>3
  <2>. QED
    BY <2>1 DEF h
<1>. HIDE DEF n, z, t, r, d, h
<1>7. w1 \in [1..n -> Int] /\ \A p \in 1..n : w1[p] = IF p > At("text") /\ p =< At("text") + Len(t) THEN t[p - At("text")] ELSE z[p]
  BY <1>1, <1>2, WriteIs, ZenonT(60)
<1>. HIDE DEF w1
<1>8. w2 \in [1..n -> Int] /\ \A p \in 1..n : w2[p] = IF p > At("rodata") /\ p =< At("rodata") + Len(r) THEN r[p - At("rodata")] ELSE w1[p]
  BY <1>1, <1>2, <1>7, WriteIs, ZenonT(60)
<1>. HIDE DEF w2
<1>9. w3 \in [1..n -> Int] /\ \A p \in 1..n : w3[p] = IF p > At("data") /\ p =< At("data") + Len(d) THEN d[p - At("data")] ELSE w2[p]
  BY <1>1, <1>2, <1>8, WriteIs, ZenonT(60)
<1>. HIDE DEF w3
<1>10. w4 \in [1..n -> Int] /\ \A p \in 1..n : w4[p] = IF p > START /\ p =< START + Len(h) THEN h[p - START] ELSE w3[p]
  BY <1>1, <1>3, <1>9, WriteIs, ZenonT(60)
<1>. HIDE DEF w4
<1>11. ASSUME NEW p \in 1..n PROVE w4[p] = HeadByte(p)
  <2>1. w3[p] = SegByte(p)
    BY <1>2, <1>5, <1>7, <1>8, <1>9 DEF SegByte, t, r, d
  <2>2. p \in (START + 1)..HDR_END <=> p > START /\ p =< START + Len(h)
    BY <1>1, <1>3
  <2>. QED
    BY <1>6, <1>10, <2>1, <2>2 DEF HeadByte
<1>. QED
  BY <1>4, <1>10, <1>11 DEF n, z

\* Where the assets start, relative to the end of data.
LEMMA AssetPlaces ==
  ASSUME BuilderOK, BuildError = "none"
  PROVE  /\ asset_offset[1] = ASSET_HDR
         /\ asset_offset[2] = ASSET_HDR + AssetLen(ASSETS[1])
         /\ asset_offset[3] = ASSET_HDR + AssetLen(ASSETS[1]) + AssetLen(ASSETS[2])
         /\ \A k \in 1..3 : AssetLen(ASSETS[k]) \in Nat /\ asset_offset[k] \in Nat
         /\ has_assets <=> \E k \in 1..3 : b[ASSETS[k]] # None
         /\ has_assets => total_size = nro_size + asset_offset[3] + AssetLen(ASSETS[3])
<1>1. ASSETS[1] = "icon" /\ ASSETS[2] = "nacp" /\ ASSETS[3] = "romfs"
  BY DEF ASSETS
<1>2. AssetLen("icon") \in Nat /\ AssetLen("nacp") \in Nat /\ AssetLen("romfs") \in Nat /\ nro_size \in Nat
  BY Sizes, ElfUnits DEF AssetKeys
<1>3. has_assets <=> \E a \in AssetKeys : b[a] # None
  BY KeySets DEF has_assets
<1>4. /\ asset_offset[1] = ASSET_HDR /\ asset_offset[2] = ASSET_HDR + AssetLen("icon")
      /\ asset_offset[3] = ASSET_HDR + AssetLen("icon") + AssetLen("nacp")
  BY DEF asset_offset
<1>5. has_assets => total_size = nro_size + ASSET_HDR + AssetLen("icon") + AssetLen("nacp") + AssetLen("romfs")
  BY DEF total_size
<1>6. has_assets => total_size = nro_size + asset_offset[3] + AssetLen("romfs")
  BY <1>2, <1>4, <1>5, NroUnits
<1>7. \A k \in 1..3 : k = 1 \/ k = 2 \/ k = 3
  OBVIOUS
<1>8. \A k \in 1..3 : AssetLen(ASSETS[k]) \in Nat /\ asset_offset[k] \in Nat
  <2>1. asset_offset[1] \in Nat /\ asset_offset[2] \in Nat /\ asset_offset[3] \in Nat
    BY <1>2, <1>4, NroUnits
  <2>. QED
    BY <1>1, <1>2, <1>7, <2>1
<1>9. has_assets <=> \E k \in 1..3 : b[ASSETS[k]] # None
  BY <1>1, <1>3, <1>7 DEF AssetKeys
<1>. QED
  BY <1>1, <1>4, <1>6, <1>8, <1>9

\* One asset written, or none.
WriteAsset(prev, k) == IF b[ASSETS[k]] = None THEN prev ELSE Write(prev, nro_size + AssetOffset(k), b[ASSETS[k]])

LEMMA WriteAssetIs ==
  ASSUME BuilderOK, BuildError = "none", NEW prev \in [1..total_size -> Int], NEW k \in 1..3
  PROVE  /\ WriteAsset(prev, k) \in [1..total_size -> Int]
         /\ \A p \in 1..total_size :
              WriteAsset(prev, k)[p] =
                IF p > nro_size + asset_offset[k] /\ p =< nro_size + asset_offset[k] + AssetLen(ASSETS[k])
                THEN b[ASSETS[k]][p - (nro_size + asset_offset[k])] ELSE prev[p]
<1>. DEFINE a == ASSETS[k]
            at == nro_size + asset_offset[k]
<1>1. total_size \in Nat /\ at \in Nat /\ a \in AssetKeys /\ AssetLen(a) \in Nat
  <2>1. total_size \in Nat /\ nro_size \in Nat /\ asset_offset[k] \in Nat /\ AssetLen(a) \in Nat
    BY Sizes, AssetPlaces, ElfUnits, SMTT(60)
  <2>. QED
    BY <2>1, KeySets
<1>2. b[a] # None => b[a] \in Seq(Int) /\ Len(b[a]) = AssetLen(a)
  BY <1>1, Sizes
<1>3. WriteAsset(prev, k) = IF b[a] = None THEN prev ELSE Write(prev, at, b[a])
  BY DEF WriteAsset, AssetOffset
<1>. HIDE DEF a, at
<1>4. CASE b[a] = None
  <2>1. AssetLen(a) = 0
    BY <1>4 DEF AssetLen
  <2>2. WriteAsset(prev, k) = prev
    BY <1>3, <1>4
  <2>3. \A p \in 1..total_size : ~(p > at /\ p =< at + AssetLen(a))
    BY <1>1, <2>1
  <2>. QED
    BY <2>2, <2>3 DEF a, at
<1>5. CASE b[a] # None
  <2>1. /\ Write(prev, at, b[a]) \in [1..total_size -> Int]
        /\ \A p \in 1..total_size : Write(prev, at, b[a])[p] =
              IF p > at /\ p =< at + Len(b[a]) THEN b[a][p - at] ELSE prev[p]
    BY <1>1, <1>2, <1>5, WriteIs, ZenonT(60)
  <2>. QED
    BY <1>2, <1>3, <1>5, <2>1 DEF a, at
<1>. QED
  BY <1>4, <1>5

\* Up to the end of data an image is headers over segments, and its assets are
\* what the builder holds.
LEMMA ImageBytes ==
  ASSUME BuilderOK, BuildError = "none"
  PROVE  /\ ImageOf.bytes \in [1..total_size -> Int]
         /\ \A p \in 1..nro_size : ImageOf.bytes[p] = HeadByte(p)
         /\ \A k \in 1..3 : b[ASSETS[k]] # None =>
              \A i \in 1..AssetLen(ASSETS[k]) :
                /\ nro_size + asset_offset[k] + i \in 1..total_size
                /\ ImageOf.bytes[nro_size + asset_offset[k] + i] = b[ASSETS[k]][i]
<1>. DEFINE n == total_size
            w == WriteHeader(WriteSegments([i \in 1..total_size |-> 0]))
            h == [i \in 1..ASSET_HDR |-> HdrByte(HDR_END + i)]
            w0 == Write(w, nro_size, h)
            w1 == WriteAsset(w0, 1)
            w2 == WriteAsset(w1, 2)
            w3 == WriteAsset(w2, 3)
            L(k) == AssetLen(ASSETS[k])
            O(k) == asset_offset[k]
<1>0. 1 \in 1..3 /\ 2 \in 1..3 /\ 3 \in 1..3
  OBVIOUS
<1>1. n \in Nat /\ nro_size \in Nat /\ nro_size =< n /\ ASSET_HDR \in Nat
  BY Sizes, NroUnits, ElfUnits
<1>2. w \in [1..n -> Int] /\ \A p \in 1..n : w[p] = HeadByte(p)
  BY HeadBytes
<1>3. ImageOf.bytes = IF ~has_assets THEN w ELSE w3
  BY DEF ImageOf, WriteAssets, WriteAsset
<1>4. h \in Seq(Int) /\ Len(h) = ASSET_HDR
  BY NroUnits DEF HdrByte
<1>5. /\ O(1) = ASSET_HDR /\ O(2) = ASSET_HDR + L(1) /\ O(3) = ASSET_HDR + L(1) + L(2)
      /\ L(1) \in Nat /\ L(2) \in Nat /\ L(3) \in Nat /\ O(1) \in Nat /\ O(2) \in Nat /\ O(3) \in Nat
      /\ has_assets => n = nro_size + O(3) + L(3)
  BY AssetPlaces
<1>6. has_assets <=> \E k \in 1..3 : b[ASSETS[k]] # None
  BY AssetPlaces
<1>. HIDE DEF n, w, h
<1>7. w0 \in [1..n -> Int] /\ \A p \in 1..n : w0[p] = IF p > nro_size /\ p =< nro_size + Len(h) THEN h[p - nro_size] ELSE w[p]
  BY <1>1, <1>2, <1>4, WriteIs, ZenonT(60)
<1>. HIDE DEF w0
<1>8. /\ w1 \in [1..n -> Int]
      /\ \A p \in 1..n : w1[p] = IF p > nro_size + O(1) /\ p =< nro_size + O(1) + L(1)
                                 THEN b[ASSETS[1]][p - (nro_size + O(1))] ELSE w0[p]
  BY <1>0, <1>7, WriteAssetIs, Zenon DEF n
<1>. HIDE DEF w1
<1>9. /\ w2 \in [1..n -> Int]
      /\ \A p \in 1..n : w2[p] = IF p > nro_size + O(2) /\ p =< nro_size + O(2) + L(2)
                                 THEN b[ASSETS[2]][p - (nro_size + O(2))] ELSE w1[p]
  BY <1>0, <1>8, WriteAssetIs, Zenon DEF n
<1>. HIDE DEF w2
<1>10. /\ w3 \in [1..n -> Int]
       /\ \A p \in 1..n : w3[p] = IF p > nro_size + O(3) /\ p =< nro_size + O(3) + L(3)
                                  THEN b[ASSETS[3]][p - (nro_size + O(3))] ELSE w2[p]
  BY <1>0, <1>9, WriteAssetIs, Zenon DEF n
<1>. HIDE DEF w3, L, O
<1>11. ASSUME NEW p \in 1..nro_size PROVE w3[p] = w[p] /\ p \in 1..n
  <2>1. p \in 1..n /\ ~(p > nro_size) /\ ~(p > nro_size + O(1)) /\ ~(p > nro_size + O(2)) /\ ~(p > nro_size + O(3))
    BY <1>1, <1>5
  <2>. QED
    BY <1>7, <1>8, <1>9, <1>10, <2>1
<1>12. ASSUME has_assets, NEW k \in 1..3, NEW i \in 1..L(k)
       PROVE  /\ nro_size + O(k) + i \in 1..n /\ w3[nro_size + O(k) + i] = b[ASSETS[k]][i]
  <2>. DEFINE p == nro_size + O(k) + i
  <2>1. CASE k = 1
    <3>1. /\ p \in 1..n /\ p > nro_size + O(1) /\ p =< nro_size + O(1) + L(1) /\ p =< nro_size + O(2)
          /\ p =< nro_size + O(3) /\ p - (nro_size + O(1)) = i
      BY <1>1, <1>5, <1>12, <2>1
    <3>. HIDE DEF p
    <3>2. ~(p > nro_size + O(2)) /\ ~(p > nro_size + O(3))
      BY <1>1, <1>5, <3>1
    <3>3. w3[p] = b[ASSETS[1]][i]
      BY <1>8, <1>9, <1>10, <3>1, <3>2
    <3>. QED
      BY <2>1, <3>1, <3>3 DEF p
  <2>2. CASE k = 2
    <3>1. /\ p \in 1..n /\ p > nro_size + O(2) /\ p =< nro_size + O(2) + L(2) /\ p =< nro_size + O(3)
          /\ p - (nro_size + O(2)) = i
      BY <1>1, <1>5, <1>12, <2>2
    <3>. HIDE DEF p
    <3>2. ~(p > nro_size + O(3))
      BY <1>1, <1>5, <3>1
    <3>3. w3[p] = b[ASSETS[2]][i]
      BY <1>9, <1>10, <3>1, <3>2
    <3>. QED
      BY <2>2, <3>1, <3>3 DEF p
  <2>3. CASE k = 3
    <3>1. /\ p \in 1..n /\ p > nro_size + O(3) /\ p =< nro_size + O(3) + L(3) /\ p - (nro_size + O(3)) = i
      BY <1>1, <1>5, <1>12, <2>3
    <3>. HIDE DEF p
    <3>2. w3[p] = b[ASSETS[3]][i]
      BY <1>10, <3>1
    <3>. QED
      BY <2>3, <3>1, <3>2 DEF p
  <2>. QED
    BY <2>1, <2>2, <2>3
<1>13. ImageOf.bytes \in [1..n -> Int]
  BY <1>2, <1>3, <1>10
<1>14. \A p \in 1..nro_size : ImageOf.bytes[p] = HeadByte(p)
  BY <1>2, <1>3, <1>11
<1>15. \A k \in 1..3 : b[ASSETS[k]] # None =>
          \A i \in 1..L(k) : nro_size + O(k) + i \in 1..n /\ ImageOf.bytes[nro_size + O(k) + i] = b[ASSETS[k]][i]
  BY <1>3, <1>6, <1>12
<1>. QED
  BY <1>13, <1>14, <1>15 DEF n, L, O

(***************************************************************************)
(* Reading a built image back                                              *)
(***************************************************************************)
LEMMA ImageFields ==
  ASSUME BuilderOK, BuildError = "none"
  PROVE  /\ ImageOf.len = total_size /\ ImageOf.magic = HEADER_MAGIC /\ ImageOf.size = nro_size
         /\ ImageOf.bss_size = b.bss_size
         /\ \A k \in 1..3 : /\ ImageOf.segments[k].file_off = At(SEGMENTS[k])
                            /\ SegmentEnd(ImageOf, k) = EndOfSegment(SEGMENTS[k])
         /\ has_assets => /\ ImageOf.assets.magic = ASSET_HEADER_MAGIC
                          /\ DOMAIN ImageOf.assets.sections = 1..3
                          /\ \A k \in 1..3 : /\ ImageOf.assets.sections[k].offset = AssetOffset(k)
                                             /\ ImageOf.assets.sections[k].size = AssetLen(ASSETS[k])
<1>1. /\ ImageOf.len = total_size /\ ImageOf.magic = HEADER_MAGIC /\ ImageOf.size = nro_size
      /\ ImageOf.bss_size = b.bss_size
      /\ ImageOf.segments = [k \in 1..3 |-> [file_off |-> At(SEGMENTS[k]), size |-> Len(Padded(b[SEGMENTS[k]]))]]
      /\ has_assets => ImageOf.assets = AssetHeader
  BY DEF ImageOf, NRO_MAGIC, HEADER_MAGIC
<1>2. /\ AssetHeader.magic = ASSET_HEADER_MAGIC
      /\ AssetHeader.sections = [k \in 1..3 |-> [offset |-> AssetOffset(k), size |-> AssetLen(ASSETS[k])]]
  BY DEF AssetHeader, ASSET_MAGIC, ASSET_HEADER_MAGIC
<1>3. \A k \in 1..3 : SegmentEnd(ImageOf, k) = EndOfSegment(SEGMENTS[k])
  BY <1>1 DEF SegmentEnd, EndOfSegment
<1>. QED
  BY <1>1, <1>2, <1>3

\* Where the builder's buffer ends is where the reader finds every extent to end.
LEMMA BuiltEnds ==
  ASSUME BuilderOK, Sealable
  PROVE  /\ total_size >= HDR_END
         /\ \A k \in 1..3 : EndOfSegment(SEGMENTS[k]) =< total_size
         /\ \A k \in 1..3 : b[ASSETS[k]] # None =>
              /\ AssetOffset(k) = asset_offset[k]
              /\ nro_size + AssetOffset(k) + AssetLen(ASSETS[k]) =< total_size
              /\ nro_size + AssetOffset(k) + AssetLen(ASSETS[k]) =< USIZE_MAX
         /\ \A k \in 1..3 : nro_size + AssetOffset(k) =< USIZE_MAX
<1>0. BuildError = "none"
  BY DEF Sealable
<1>1. total_size \in Nat /\ nro_size \in Nat /\ nro_size < U32 /\ HDR_END \in Nat /\ U32 \in Nat /\ ASSET_HDR \in Nat
  BY <1>0, Sizes, NroUnits, ElfUnits
<1>2. \A k \in 1..3 : EndOfSegment(SEGMENTS[k]) \in Nat
  BY <1>0, Sizes, KeySets
<1>3. total_size >= HDR_END /\ \A k \in 1..3 : EndOfSegment(SEGMENTS[k]) =< total_size
  BY <1>1, <1>2 DEF Sealable, CopyPanics
<1>. DEFINE L(k) == AssetLen(ASSETS[k])
            O(k) == asset_offset[k]
<1>4. /\ O(1) = ASSET_HDR /\ O(2) = ASSET_HDR + L(1) /\ O(3) = ASSET_HDR + L(1) + L(2)
      /\ L(1) \in Nat /\ L(2) \in Nat /\ L(3) \in Nat /\ O(1) \in Nat /\ O(2) \in Nat /\ O(3) \in Nat
      /\ has_assets => total_size = nro_size + O(3) + L(3)
  BY <1>0, AssetPlaces
<1>5. /\ U32 + ASSET_HDR + 3 * L(1) =< USIZE_MAX /\ U32 + ASSET_HDR + 3 * L(2) =< USIZE_MAX
      /\ U32 + ASSET_HDR + 3 * L(3) =< USIZE_MAX /\ USIZE_MAX \in Nat
  <2>1. \A a \in AssetKeys : U32 + ASSET_HDR + 3 * AssetLen(a) =< USIZE_MAX
    BY <1>0, Sizes, Zenon
  <2>2. ASSETS[1] \in AssetKeys /\ ASSETS[2] \in AssetKeys /\ ASSETS[3] \in AssetKeys
    BY KeySets
  <2>. QED
    BY <2>1, <2>2, SameNroFormat
<1>6. \A k \in 1..3 : AssetOffset(k) = IF b[ASSETS[k]] = None THEN 0 ELSE O(k)
  BY DEF AssetOffset
<1>7. \A k \in 1..3 : b[ASSETS[k]] # None => has_assets
  BY <1>0, AssetPlaces
<1>. HIDE DEF L, O
<1>8. \A k \in 1..3 : has_assets => nro_size + O(k) + L(k) =< total_size
  BY <1>1, <1>4
<1>9. \A k \in 1..3 : nro_size + O(k) + L(k) =< USIZE_MAX /\ nro_size + O(k) =< USIZE_MAX
  BY <1>1, <1>4, <1>5
<1>10. nro_size + 0 =< USIZE_MAX
  BY <1>1, <1>4, <1>5
<1>11. \A k \in 1..3 : nro_size + AssetOffset(k) =< USIZE_MAX
  BY <1>6, <1>9, <1>10
<1>. QED
  BY <1>3, <1>6, <1>7, <1>8, <1>9, <1>11 DEF L, O

\* try_from_bytes accepts what build returns.
LEMMA BuiltAccepted ==
  ASSUME BuilderOK, Sealable, ~Overlaps
  PROVE  HeaderError(ImageOf) = "none"
<1>. DEFINE n == ImageOf
<1>0. BuildError = "none"
  BY DEF Sealable
<1>1. /\ n.len = total_size /\ n.magic = HEADER_MAGIC /\ n.size = nro_size
      /\ \A k \in 1..3 : SegmentEnd(n, k) = EndOfSegment(SEGMENTS[k])
      /\ has_assets => \A k \in 1..3 : /\ n.assets.sections[k].offset = AssetOffset(k)
                                       /\ n.assets.sections[k].size = AssetLen(ASSETS[k])
  BY <1>0, ImageFields
<1>. HIDE DEF n
<1>2. total_size \in Nat /\ nro_size \in Nat /\ nro_size < U32 /\ U32 \in Nat /\ USIZE_MAX \in Nat /\ U32 =< USIZE_MAX
  BY <1>0, Sizes, ElfUnits, NroUnits, SameNroFormat
<1>3. ASSUME NEW k \in 1..3 PROVE SegmentError(n, k) = "none"
  <2>1. SEGMENTS[k] \in ToSet(SEGMENTS) /\ EndOfSegment(SEGMENTS[k]) \in Nat
    BY <1>0, KeySets, Sizes
  <2>2. ~(EndOfSegment(SEGMENTS[k]) > nro_size) /\ EndOfSegment(SEGMENTS[k]) =< total_size
    BY <2>1, BuiltEnds DEF Overlaps
  <2>3. ~(SegmentEnd(n, k) > USIZE_MAX) /\ ~(SegmentEnd(n, k) > n.len)
    BY <1>1, <1>2, <2>1, <2>2
  <2>. QED
    BY <2>3 DEF SegmentError
<1>4. ASSUME NEW k \in 1..3 PROVE AssetError(n, k) = "none"
  <2>1. CASE b[ASSETS[k]] = None
    <3>1. CASE has_assets
      <4>1. n.assets.sections[k].size = 0
        BY <1>1, <2>1, <3>1 DEF AssetLen
      <4>. QED
        BY <4>1 DEF AssetError
    <3>2. CASE ~has_assets
      <4>1. n.len = n.size
        BY <1>1, <3>2 DEF total_size
      <4>2. ~(n.len > n.size + ASSET_HEADER_SIZE)
        BY <1>1, <1>2, <4>1, NroUnits, SameNroFormat
      <4>3. asset_header(n) = NoHeader
        BY <4>2 DEF asset_header
      <4>. QED
        BY <4>3 DEF AssetError
    <3>. QED
      BY <3>1, <3>2
  <2>2. CASE b[ASSETS[k]] # None
    <3>1. has_assets /\ AssetLen(ASSETS[k]) \in Nat /\ asset_offset[k] \in Nat
      BY <1>0, <2>2, AssetPlaces
    <3>2. AssetEnd(n, k) = nro_size + AssetOffset(k) + AssetLen(ASSETS[k])
      BY <1>1, <3>1 DEF AssetEnd
    <3>3. AssetEnd(n, k) \in Nat /\ AssetEnd(n, k) =< n.len /\ AssetEnd(n, k) =< USIZE_MAX
      BY <1>1, <1>2, <2>2, <3>1, <3>2, BuiltEnds
    <3>4. ~(AssetEnd(n, k) > n.len) /\ ~(AssetEnd(n, k) > USIZE_MAX)
      BY <1>1, <1>2, <3>3
    <3>. QED
      BY <3>4 DEF AssetError
  <2>. QED
    BY <2>1, <2>2
<1>5. ~(n.len < HEADERS_SIZE)
  BY <1>1, <1>2, BuiltEnds, SameNroFormat, NroUnits
<1>. QED
  BY <1>1, <1>3, <1>4, <1>5 DEF HeaderError, n

\* A segment that overlaps no other comes back as the builder holds it, padded,
\* but for the header's place.
LEMMA SegmentComesBack ==
  ASSUME BuilderOK, Sealable, ~Overlaps, nro = ImageOf, NEW k \in 1..3
  PROVE  Slice(SegmentNames[k], nro.segments[k].file_off, SegmentEnd(nro, k)) = Ok(SEGMENTS[k], UnderHeader(SEGMENTS[k]))
<1>. DEFINE s == SEGMENTS[k]
            part == UnderHeader(s)
            P == Padded(b[s])
            at == At(s)
            whole == nro.bytes
<1>0. BuildError = "none" /\ s \in SegKeys /\ ToSet(SEGMENTS) = SegKeys /\ SegmentNames[k] = s
  BY KeySets DEF Sealable
<1>1. P \in Seq(Int) /\ Len(P) \in Nat /\ at \in Nat /\ EndOfSegment(s) = at + Len(P) /\ EndOfSegment(s) \in Nat
  BY <1>0, Sizes, ElfUnits
<1>2. nro.len = total_size /\ nro.segments[k].file_off = at /\ SegmentEnd(nro, k) = EndOfSegment(s)
  BY <1>0, ImageFields
<1>3. whole \in [1..total_size -> Int] /\ \A p \in 1..nro_size : whole[p] = HeadByte(p)
  BY <1>0, ImageBytes
<1>4. total_size \in Nat /\ nro_size \in Nat /\ nro_size =< total_size
  BY <1>0, Sizes, ElfUnits
<1>5. whole \in Seq(Int) /\ Len(whole) = total_size
  <2>. HIDE DEF whole
  <2>. QED
    BY <1>3, <1>4
<1>6. EndOfSegment(s) =< nro_size
  BY <1>0, <1>1, <1>4 DEF Overlaps
<1>7. part = [i \in 1..Len(P) |-> IF at + i \in (START + 1)..HDR_END THEN HdrByte(at + i) ELSE P[i]]
  BY <1>1 DEF UnderHeader
<1>. HIDE DEF s, P, at, whole, part
<1>8. part \in Seq(Int) /\ Len(part) = Len(P)
  <2>1. \A i \in 1..Len(P) : P[i] \in Int /\ HdrByte(at + i) \in Int
    BY <1>1, ElementOfSeq DEF HdrByte
  <2>2. part \in [1..Len(P) -> Int]
    BY <1>7, <2>1
  <2>. QED
    BY <1>1, <2>2
<1>9. ASSUME NEW i \in 1..Len(P) PROVE SegByte(at + i) = P[i]
  <2>. DEFINE p == at + i
  <2>1. p > at /\ p =< EndOfSegment(s) /\ p - at = i /\ p \in Nat
    BY <1>1
  <2>. HIDE DEF p
  <2>2. \A t \in SegKeys : At(t) \in Nat /\ EndOfSegment(t) \in Nat
    BY <1>0, Sizes, ElfUnits
  <2>3. \A t \in SegKeys : t # s => ~(p > At(t) /\ p =< EndOfSegment(t))
    <3>. SUFFICES ASSUME NEW t \in SegKeys, t # s, p > At(t), p =< EndOfSegment(t) PROVE FALSE
      OBVIOUS
    <3>1. At(s) < EndOfSegment(t) /\ At(t) < EndOfSegment(s)
      BY <1>0, <1>1, <2>1, <2>2, SMTT(60) DEF at
    <3>. QED
      BY <1>0, <3>1 DEF Overlaps
  <2>4. SegByte(p) = Padded(b[s])[p - At(s)]
    <3>1. CASE s = "text"
      BY <2>1, <2>3, <3>1 DEF SegByte, SegKeys, at
    <3>2. CASE s = "rodata"
      BY <2>1, <2>3, <3>2 DEF SegByte, SegKeys, at
    <3>3. CASE s = "data"
      BY <2>1, <2>3, <3>3 DEF SegByte, SegKeys, at
    <3>. QED
      BY <1>0, <3>1, <3>2, <3>3 DEF SegKeys
  <2>. QED
    BY <2>1, <2>4 DEF p, P, at
<1>10. LiesAt(whole, at, part)
  <2>1. ASSUME NEW i \in 1..Len(P) PROVE whole[at + i] = part[i]
    <3>1. at + i \in 1..nro_size
      BY <1>1, <1>4, <1>6
    <3>2. whole[at + i] = HeadByte(at + i)
      BY <1>3, <3>1
    <3>. QED
      BY <1>7, <1>9, <3>2 DEF HeadByte
  <2>. QED
    BY <1>1, <1>4, <1>5, <1>6, <1>8, <2>1 DEF LiesAt
<1>11. SubSeq(whole, at + 1, EndOfSegment(s)) = part
  <2>1. SubSeq(whole, at + 1, at + Len(part)) = part
    BY <1>5, <1>8, <1>10, SliceIs
  <2>. QED
    BY <1>1, <1>8, <2>1
<1>12. ~(EndOfSegment(s) > nro.len) /\ ~(EndOfSegment(s) > Len(nro.bytes))
  BY <1>1, <1>2, <1>4, <1>5, <1>6 DEF whole
<1>. QED
  BY <1>0, <1>2, <1>11, <1>12 DEF Slice, s, part, whole

\* An asset comes back whole, and one that is missing or empty not at all.
LEMMA AssetComesBack ==
  ASSUME BuilderOK, Sealable, nro = ImageOf, NEW k \in 1..3
  PROVE  LET a == ASSETS[k] IN
         (IF asset_header(nro) = NoHeader \/ nro.assets.sections[k].size = 0
          THEN AbsentAsset(k)
          ELSE Slice(AssetNames[k], nro.size + nro.assets.sections[k].offset, AssetEnd(nro, k)))
         = IF b[a] = None \/ b[a] = <<>> THEN [status |-> "absent", key |-> a] ELSE Ok(a, b[a])
<1>. DEFINE a == ASSETS[k]
            whole == nro.bytes
            part == b[a]
            at == nro_size + asset_offset[k]
<1>0. BuildError = "none" /\ a \in AssetKeys /\ AssetNames[k] = a
  BY KeySets DEF Sealable
<1>1. /\ nro.len = total_size /\ nro.size = nro_size
      /\ has_assets => /\ nro.assets.magic = ASSET_HEADER_MAGIC
                       /\ DOMAIN nro.assets.sections = 1..3
                       /\ nro.assets.sections[k].offset = AssetOffset(k)
                       /\ nro.assets.sections[k].size = AssetLen(a)
  BY <1>0, ImageFields
<1>2. total_size \in Nat /\ nro_size \in Nat /\ ASSET_HEADER_SIZE = ASSET_HDR /\ ASSET_HDR \in Nat
  BY <1>0, Sizes, ElfUnits, NroUnits, SameNroFormat
<1>3. AbsentAsset(k) = [status |-> "absent", key |-> a]
  BY <1>0 DEF AbsentAsset
<1>4. CASE ~has_assets
  <2>1. b[a] = None
    BY <1>0, <1>4, AssetPlaces
  <2>2. ~(nro.len > nro.size + ASSET_HEADER_SIZE)
    BY <1>1, <1>2, <1>4 DEF total_size
  <2>3. asset_header(nro) = NoHeader
    BY <2>2 DEF asset_header
  <2>. QED
    BY <1>3, <2>1, <2>3
<1>5. CASE has_assets /\ AssetLen(a) = 0
  <2>1. b[a] = None \/ b[a] = <<>>
    <3>. SUFFICES ASSUME b[a] # None PROVE b[a] = <<>>
      OBVIOUS
    <3>1. b[a] \in Seq(Int) /\ Len(b[a]) = 0
      BY <1>0, <1>5, Sizes
    <3>. QED
      BY <3>1, EmptySeq
  <2>2. nro.assets.sections[k].size = 0
    BY <1>1, <1>5
  <2>. QED
    BY <1>3, <2>1, <2>2
<1>6. CASE has_assets /\ AssetLen(a) # 0
  <2>1. b[a] # None /\ part \in Seq(Int) /\ Len(part) = AssetLen(a) /\ AssetLen(a) \in Nat
    BY <1>0, <1>6, Sizes DEF AssetLen
  <2>2. part # <<>>
    BY <1>6, <2>1
  <2>3. /\ asset_offset[k] \in Nat /\ AssetOffset(k) = asset_offset[k]
        /\ nro_size + AssetOffset(k) + AssetLen(a) =< total_size
        /\ ASSET_HDR =< asset_offset[k]
    <3>1. ASSET_HDR =< asset_offset[k]
      BY <1>0, <1>2, AssetPlaces
    <3>. QED
      BY <1>0, <2>1, <3>1, BuiltEnds, AssetPlaces
  <2>4. nro.len > nro.size + ASSET_HEADER_SIZE
    BY <1>1, <1>2, <1>6, <2>1, <2>3
  <2>5. asset_header(nro) # NoHeader
    <3>1. asset_header(nro) = nro.assets.sections
      BY <1>1, <1>6, <2>4 DEF asset_header
    <3>2. DOMAIN NoHeader = {} /\ 1 \in 1..3
      BY DEF NoHeader
    <3>. QED
      BY <1>1, <1>6, <3>1, <3>2
  <2>6. nro.assets.sections[k].size # 0 /\ nro.size + nro.assets.sections[k].offset = at /\ AssetEnd(nro, k) = at + Len(part)
    BY <1>1, <1>6, <2>1, <2>3 DEF AssetEnd
  <2>7. /\ whole \in [1..total_size -> Int]
        /\ \A i \in 1..Len(part) : at + i \in 1..total_size /\ whole[at + i] = part[i]
    BY <1>0, <2>1, ImageBytes
  <2>8. at \in Nat /\ at + Len(part) =< total_size
    BY <1>2, <2>1, <2>3
  <2>. HIDE DEF whole, part, at
  <2>9. whole \in Seq(Int) /\ Len(whole) = total_size
    BY <1>2, <2>7
  <2>10. LiesAt(whole, at, part)
    BY <2>7, <2>8, <2>9 DEF LiesAt
  <2>11. SubSeq(whole, at + 1, at + Len(part)) = part
    BY <2>1, <2>9, <2>10, SliceIs
  <2>12. ~(at + Len(part) > nro.len) /\ ~(at + Len(part) > Len(nro.bytes))
    BY <1>1, <1>2, <2>1, <2>8, <2>9 DEF whole
  <2>13. Slice(AssetNames[k], at, at + Len(part)) = Ok(a, part)
    BY <1>0, <2>11, <2>12 DEF Slice, whole
  <2>. QED
    BY <2>1, <2>2, <2>5, <2>6, <2>13 DEF part
<1>. QED
  BY <1>4, <1>5, <1>6

(***************************************************************************)
(* The invariant                                                           *)
(***************************************************************************)
\* An image that was built is the one the builder's fields still describe, and the
\* reader of a built image reads that one.
IInv ==
  /\ BuilderOK
  /\ calls \in Nat
  /\ elf = None \/ (elf \in Elfs /\ ParseError(elf) = "none")
  /\ phase = "set" /\ calls = 0 /\ elf = None => b = NewBuilder
  /\ phase = "built" => Sealable /\ image = ImageOf
  /\ phase = "built" /\ rpc # "none" => nro = image
  /\ phase \notin {"set", "built"} => rpc = "none"

\* What build checks and writes depends on the builder alone.
LEMMA SameBuilder ==
  ASSUME b' = b
  PROVE  /\ BuilderOK' <=> BuilderOK
         /\ Sealable' <=> Sealable
         /\ ImageOf' = ImageOf
         /\ Overlaps' <=> Overlaps
         /\ Kept' = Kept
<1>1. BuilderOK' <=> BuilderOK
  BY DEF BuilderOK
<1>2. nro_size' = nro_size /\ total_size' = total_size
  BY DEF nro_size, total_size, EndOfSegment, At, has_assets, AssetLen
<1>3. Sealable' <=> Sealable
  BY <1>2 DEF Sealable, BuildError, CopyPanics, HeaderOverwritten, EndOfSegment, At, has_assets
<1>4. Overlaps' <=> Overlaps
  BY <1>2 DEF Overlaps, NroSizeOverflows, EndOfSegment, At
<1>5. Kept' = Kept
  BY DEF Kept, UnderHeader, At
<1>6. ImageOf' = ImageOf
  <2>1. asset_offset' = asset_offset /\ has_assets' = has_assets
    BY DEF asset_offset, AssetLen, has_assets
  <2>2. AssetHeader' = AssetHeader
    BY <2>1 DEF AssetHeader, AssetOffset, AssetLen
  <2>. QED
    BY <1>2, <2>1, <2>2 DEF ImageOf, At, WriteAssets, WriteSegments, WriteHeader, AssetOffset
<1>. QED
  BY <1>1, <1>3, <1>4, <1>5, <1>6

\* Segments, addresses and assets are fields of every builder.
LEMMA Fields ==
  /\ SegKeys \subseteq DOMAIN NewBuilder /\ AssetKeys \subseteq DOMAIN NewBuilder
  /\ \A s \in SegKeys : Vaddr[s] \in DOMAIN NewBuilder /\ NewBuilder[s] = None /\ NewBuilder[Vaddr[s]] = 0
  /\ \A a \in AssetKeys : NewBuilder[a] = None
  BY KeySets, Addresses DEF NewBuilder, SegKeys, AssetKeys

LEMMA NewBuilderOK ==
  ASSUME b = NewBuilder
  PROVE  BuilderOK
<1>1. 0 \in 0..(U32 - 1)
  BY ElfUnits
<1>. QED
  BY <1>1, Fields DEF BuilderOK

LEMMA InitIInv == Init => IInv
<1>. SUFFICES ASSUME Init PROVE IInv
  OBVIOUS
<1>1. phase = "set" /\ b = NewBuilder /\ calls = 0 /\ elf = None /\ rpc = "none"
  BY DEF Init, BInit, RInit
<1>. QED
  BY <1>1, NewBuilderOK DEF IInv

LEMMA SetFieldKeeps ==
  ASSUME BuilderOK, NEW f \in DOMAIN Settings, NEW v \in Settings[f], b' = [b EXCEPT ![f] = v]
  PROVE  BuilderOK'
<1>1. DOMAIN b' = DOMAIN NewBuilder /\ \A g \in DOMAIN NewBuilder : b'[g] = IF g = f THEN v ELSE b[g]
  BY DEF BuilderOK
<1>2. ASSUME NEW s \in SegKeys PROVE (b'[s] = None \/ b'[s] \in Seq(Int)) /\ b'[Vaddr[s]] \in 0..(U32 - 1)
  <2>1. s \in DOMAIN NewBuilder /\ Vaddr[s] \in DOMAIN NewBuilder /\ Vaddr[s] \in {Vaddr[t] : t \in DOMAIN Vaddr}
    BY Fields, Addresses
  <2>2. f = s => v \in Seq(Int)
    BY SettingsSupplied, KeySets
  <2>3. f = Vaddr[s] => v \in 0..(U32 - 1)
    BY <2>1, SettingsSupplied
  <2>. QED
    BY <1>1, <2>1, <2>2, <2>3 DEF BuilderOK
<1>3. ASSUME NEW a \in AssetKeys
      PROVE  b'[a] = None \/ (b'[a] \in Seq(Int) /\ U32 + ASSET_HDR + 3 * Len(b'[a]) =< USIZE_MAX)
  <2>1. a \in DOMAIN NewBuilder
    BY Fields
  <2>2. f = a => v \in Seq(Int) /\ U32 + ASSET_HDR + 3 * Len(v) =< USIZE_MAX
    BY SettingsSupplied, AssetsFit, KeySets
  <2>3. CASE f = a
    <3>1. b'[a] = v
      BY <1>1, <2>1, <2>3
    <3>. QED
      BY <2>2, <2>3, <3>1
  <2>4. CASE f # a
    <3>1. b'[a] = b[a]
      BY <1>1, <2>1, <2>4
    <3>. QED
      BY <3>1 DEF BuilderOK
  <2>. QED
    BY <2>3, <2>4
<1>. QED
  BY <1>1, <1>2, <1>3 DEF BuilderOK

LEMMA FromElfFields ==
  ASSUME NEW e \in Elfs, FromElf(e), ParseError(e) = "none"
  PROVE  /\ DOMAIN b' = DOMAIN NewBuilder
         /\ \A s \in SegKeys : b'[s] \in Seq(Int) /\ b'[Vaddr[s]] \in 0..(U32 - 1)
         /\ \A a \in AssetKeys : b'[a] = None
<1>1. b' = [f \in DOMAIN NewBuilder |->
              IF f \in DOMAIN BuilderFields(e) THEN BuilderFields(e)[f]
              ELSE IF f = "build_id" THEN BuildIdOf(e) ELSE NewBuilder[f]]
  BY DEF FromElf
<1>2. DOMAIN BuilderFields(e) = {"text", "text_vaddr", "rodata", "rodata_vaddr", "data", "data_vaddr", "bss_size"}
  BY DEF BuilderFields
<1>3. \A s \in SegKeys : s \in DOMAIN BuilderFields(e) /\ Vaddr[s] \in DOMAIN BuilderFields(e)
  BY <1>2, Addresses DEF SegKeys
<1>4. \A a \in AssetKeys : a \notin DOMAIN BuilderFields(e) /\ a # "build_id"
  BY <1>2 DEF AssetKeys
<1>5. \A s \in SegKeys : BuilderFields(e)[s] \in Seq(Int) /\ BuilderFields(e)[Vaddr[s]] \in 0..(U32 - 1)
  BY ElfFields
<1>6. \A s \in SegKeys : b'[s] = BuilderFields(e)[s] /\ b'[Vaddr[s]] = BuilderFields(e)[Vaddr[s]]
  BY <1>1, <1>3, Fields
<1>7. \A a \in AssetKeys : b'[a] = None
  BY <1>1, <1>4, Fields
<1>. QED
  BY <1>1, <1>5, <1>6, <1>7

LEMMA BNextIInv ==
  ASSUME IInv, rpc = "none", UNCHANGED rVars, BNext
  PROVE  IInv'
<1>0. rpc' = "none" /\ BuilderOK /\ calls \in Nat /\ (b' = b => BuilderOK')
  BY SameBuilder DEF rVars, IInv
<1>1. ASSUME NEW f \in DOMAIN Settings, NEW v \in Settings[f], SetField(f, v) PROVE IInv'
  <2>1. b' = [b EXCEPT ![f] = v] /\ phase' = "set" /\ elf' = elf /\ calls' = calls + 1
    BY <1>1 DEF SetField
  <2>2. BuilderOK'
    BY <1>0, <2>1, SetFieldKeeps
  <2>3. calls' \in Nat /\ calls' # 0
    BY <1>0, <2>1
  <2>. QED
    BY <1>0, <2>1, <2>2, <2>3 DEF IInv
<1>2. ASSUME NEW e \in Elfs, FromElf(e) PROVE IInv'
  <2>1. calls' = calls /\ phase = "set" /\ elf = None
    BY <1>2 DEF FromElf
  <2>2. CASE ParseError(e) # "none"
    <3>1. phase' = ParseError(e) /\ b' = b /\ elf' = elf
      BY <1>2, <2>2 DEF FromElf
    <3>2. phase' \notin {"set", "built"}
      BY <2>2, <3>1 DEF ParseError
    <3>. QED
      BY <1>0, <2>1, <3>1, <3>2 DEF IInv
  <2>3. CASE ParseError(e) = "none"
    <3>1. phase' = phase /\ elf' = e /\ elf' # None
      BY <1>2, <2>3, ElfsSupplied DEF FromElf
    <3>2. BuilderOK'
      BY <1>2, <2>3, FromElfFields DEF BuilderOK
    <3>. QED
      BY <1>0, <2>1, <2>3, <3>1, <3>2 DEF IInv
  <2>. QED
    BY <2>2, <2>3
<1>3. CASE Build
  <2>1. b' = b /\ calls' = calls /\ elf' = elf /\ phase' # "set"
    BY <1>3 DEF Build, BuildError
  <2>2. phase' = "built" => Sealable /\ image' = ImageOf
    BY <1>3 DEF Build, Sealable, BuildError
  <2>3. phase' = "built" => Sealable' /\ image' = ImageOf'
    BY <2>1, <2>2, SameBuilder
  <2>. QED
    BY <1>0, <2>1, <2>3 DEF IInv
<1>4. CASE BuildOverflows
  <2>1. b' = b /\ calls' = calls /\ elf' = elf /\ phase' = "panic"
    BY <1>4 DEF BuildOverflows
  <2>. QED
    BY <1>0, <2>1 DEF IInv
<1>. QED
  BY <1>1, <1>2, <1>3, <1>4 DEF BNext

LEMMA ReaderIInv ==
  ASSUME IInv, UNCHANGED bVars,
         (rpc' = rpc /\ nro' = nro) \/ (phase = "built" /\ nro' = image) \/ phase = "set" \/ (rpc = "ready" /\ nro' = nro)
  PROVE  IInv'
<1>1. phase' = phase /\ b' = b /\ calls' = calls /\ elf' = elf /\ image' = image
  BY DEF bVars
<1>2. BuilderOK' /\ (Sealable' <=> Sealable) /\ ImageOf' = ImageOf
  BY <1>1, SameBuilder DEF IInv
<1>. QED
  BY <1>1, <1>2 DEF IInv

LEMMA NextIInv == IInv /\ [Next]_vars => IInv'
<1>. SUFFICES ASSUME IInv, [Next]_vars PROVE IInv'
  OBVIOUS
<1>1. CASE rpc = "none" /\ BNext /\ UNCHANGED rVars
  BY <1>1, BNextIInv
<1>2. CASE phase = "built" /\ TryFromBytes(image) /\ UNCHANGED bVars
  BY <1>2, ReaderIInv DEF TryFromBytes
<1>3. CASE phase = "set" /\ UNCHANGED bVars
  BY <1>3, ReaderIInv
<1>4. CASE RNext /\ UNCHANGED bVars
  <2>1. rpc = "ready" /\ nro' = nro
    BY <1>4 DEF RNext, Segment, Asset, AssetSumOverflows, ReadMod0, Returns
  <2>. QED
    BY <1>4, <2>1, ReaderIInv
<1>5. CASE UNCHANGED vars
  <2>1. UNCHANGED bVars /\ rpc' = rpc /\ nro' = nro
    BY <1>5 DEF vars, rVars
  <2>. QED
    BY <2>1, ReaderIInv
<1>. QED
  BY <1>1, <1>2, <1>3, <1>4, <1>5 DEF Next, Finished

\* For every input and every unit: a built image is what the builder describes.
THEOREM NroInvariant == Spec => []IInv
  BY InitIInv, NextIInv, PTL DEF Spec

(***************************************************************************)
(* The image implements the abstract container                             *)
(***************************************************************************)
StateOf ==
  IF phase = "built" THEN IF Overlaps THEN "lossy" ELSE "sealed"
  ELSE IF phase # "set" THEN "failed"
  ELSE IF rpc # "none" THEN "foreign" ELSE "open"

AnswerOf ==
  IF result.status = "ok" THEN <<result.key, result.data>>
  ELSE IF result.status = "absent" THEN <<result.key, None>>
  ELSE IF result.status \in {"mod0", "no_mod0"} THEN <<"aside">>
  ELSE <<result.status>>

Keys == ToSet(SEGMENTS) \union ToSet(ASSETS)

\* The container's initial state and its actions, read through the mapping.
LEMMA MappedInit ==
  ASSUME Kept = [k \in Keys |-> None], StateOf = "open", AnswerOf = <<"none">>
  PROVE  Abstract!Init
  BY DEF Abstract!Init, StateOf, AnswerOf, Keys

LEMMA Invisible ==
  ASSUME Kept' = Kept, StateOf' = StateOf, AnswerOf' = AnswerOf
  PROVE  UNCHANGED Abstract!cVars
  BY DEF Abstract!cVars, StateOf, AnswerOf

LEMMA Steps ==
  /\ StateOf = "open" /\ StateOf' \in {"sealed", "lossy", "failed"} /\ Kept' = Kept /\ AnswerOf' = AnswerOf => Abstract!Next
  /\ StateOf = "open" /\ StateOf' = "foreign" /\ Kept' = Kept => Abstract!Next
  /\ StateOf \in {"foreign", "lossy"} /\ Kept' = Kept /\ StateOf' = StateOf => Abstract!Next
  /\ StateOf = "sealed" /\ AnswerOf' = <<"aside">> /\ Kept' = Kept /\ StateOf' = StateOf => Abstract!Next
  /\ \A k \in Keys : StateOf = "sealed" /\ AnswerOf' = <<k, Kept[k]>> /\ Kept' = Kept /\ StateOf' = StateOf => Abstract!Next
<1>1. StateOf = "open" /\ StateOf' \in {"sealed", "lossy"} /\ Kept' = Kept /\ AnswerOf' = AnswerOf => Abstract!Seal
  BY DEF Abstract!Seal, StateOf, AnswerOf
<1>2. StateOf = "open" /\ StateOf' = "failed" /\ Kept' = Kept /\ AnswerOf' = AnswerOf => Abstract!Fail
  BY DEF Abstract!Fail, StateOf, AnswerOf
<1>3. StateOf = "open" /\ StateOf' = "foreign" /\ Kept' = Kept => Abstract!Open
  BY DEF Abstract!Open, StateOf
<1>4. StateOf \in {"foreign", "lossy"} /\ Kept' = Kept /\ StateOf' = StateOf => Abstract!GetAny
  BY DEF Abstract!GetAny, StateOf
<1>5. StateOf = "sealed" /\ AnswerOf' = <<"aside">> /\ Kept' = Kept /\ StateOf' = StateOf => Abstract!Aside
  BY DEF Abstract!Aside, StateOf, AnswerOf
<1>6. \A k \in Keys : StateOf = "sealed" /\ AnswerOf' = <<k, Kept[k]>> /\ Kept' = Kept /\ StateOf' = StateOf => Abstract!Get(k)
  BY DEF Abstract!Get, StateOf, AnswerOf
<1>. QED
  BY <1>1, <1>2, <1>3, <1>4, <1>5, <1>6 DEF Abstract!Next, Keys

LEMMA NewKept ==
  ASSUME b = NewBuilder
  PROVE  Kept = [k \in Keys |-> None]
  BY Fields, KeySets DEF Kept, Keys

\* What is kept under a key depends on its own fields alone.
LEMMA KeptLocal ==
  ASSUME NEW k \in Keys, b'[k] = b[k], k \in SegKeys => b'[Vaddr[k]] = b[Vaddr[k]]
  PROVE  Kept'[k] = Kept[k]
<1>1. CASE k \in SegKeys
  <2>1. UnderHeader(k)' = UnderHeader(k)
    BY <1>1 DEF UnderHeader, At
  <2>. QED
    BY <1>1, <2>1, KeySets DEF Kept, Keys
<1>2. CASE k \notin SegKeys
  BY <1>2, KeySets DEF Kept, Keys
<1>. QED
  BY <1>1, <1>2

\* The key a field belongs to.
OwnerOf(f) ==
  IF f = "text_vaddr" THEN "text" ELSE IF f = "rodata_vaddr" THEN "rodata" ELSE IF f = "data_vaddr" THEN "data" ELSE f

LEMMA SetFieldMaps ==
  ASSUME IInv, rpc = "none", UNCHANGED rVars, NEW f, NEW v, SetField(f, v)
  PROVE  [Abstract!Next]_(Abstract!cVars)
<1>. DEFINE o == OwnerOf(f)
<1>1. phase = "set" /\ phase' = "set" /\ rpc' = rpc /\ result' = result /\ b' = [b EXCEPT ![f] = v]
  BY DEF SetField, rVars
<1>2. StateOf = "open" /\ StateOf' = "open" /\ AnswerOf' = AnswerOf
  BY <1>1 DEF StateOf, AnswerOf
<1>3. \A g \in DOMAIN NewBuilder : g # f => b'[g] = b[g]
  BY <1>1 DEF IInv, BuilderOK
<1>4. ASSUME NEW k \in Keys, k # o PROVE Kept'[k] = Kept[k]
  <2>1. k \in DOMAIN NewBuilder /\ (k \in SegKeys => Vaddr[k] \in DOMAIN NewBuilder)
    BY Fields, KeySets DEF Keys
  <2>2. k # f
    BY <1>4, KeySets DEF Keys, OwnerOf, SegKeys, AssetKeys
  <2>3. k \in SegKeys => Vaddr[k] # f
    BY <1>4, Addresses DEF OwnerOf, SegKeys
  <2>. QED
    BY <1>3, <2>1, <2>2, <2>3, KeptLocal
<1>5. DOMAIN Kept = Keys /\ DOMAIN Kept' = Keys
  BY DEF Kept, Keys
<1>6. CASE o \in Keys
  <2>1. \A k \in Keys \ {o} : Kept'[k] = Kept[k]
    BY <1>4
  <2>2. Abstract!Put(o)
    BY <1>2, <1>5, <2>1 DEF Abstract!Put, StateOf, AnswerOf, Keys
  <2>. QED
    BY <1>6, <2>2 DEF Abstract!Next, Keys
<1>7. CASE o \notin Keys
  <2>1. \A k \in Keys : Kept'[k] = Kept[k]
    BY <1>4, <1>7
  <2>2. Kept' = Kept
    BY <1>5, <2>1 DEF Kept, Keys
  <2>3. UNCHANGED <<Kept, StateOf, AnswerOf>>
    BY <1>2, <2>2
  <2>. QED
    BY <2>3, Invisible
<1>. QED
  BY <1>6, <1>7

LEMMA FromElfMaps ==
  ASSUME IInv, rpc = "none", UNCHANGED rVars, NEW e, FromElf(e)
  PROVE  Abstract!Next
<1>1. /\ phase = "set" /\ calls = 0 /\ elf = None /\ b = NewBuilder
      /\ StateOf = "open" /\ AnswerOf' = AnswerOf
  BY DEF FromElf, IInv, rVars, StateOf, AnswerOf
<1>2. CASE ParseError(e) # "none"
  <2>1. b' = b /\ StateOf' = "failed"
    BY <1>2 DEF FromElf, ParseError, StateOf
  <2>. QED
    BY <1>1, <2>1, SameBuilder, Steps
<1>3. CASE ParseError(e) = "none"
  <2>1. StateOf' = StateOf
    BY <1>1, <1>3 DEF FromElf, StateOf, rVars
  <2>2. DOMAIN Kept' = Keys /\ Kept = [k \in Keys |-> None]
    BY <1>1, NewKept DEF Kept, Keys
  <2>3. Abstract!Fill
    BY <1>1, <2>1, <2>2 DEF Abstract!Fill, StateOf, AnswerOf, Keys
  <2>. QED
    BY <2>3 DEF Abstract!Next
<1>. QED
  BY <1>2, <1>3

LEMMA BNextMaps ==
  ASSUME IInv, rpc = "none", UNCHANGED rVars, BNext
  PROVE  [Abstract!Next]_(Abstract!cVars)
<1>1. CASE Build \/ BuildOverflows
  <2>1. phase = "set" /\ b' = b /\ phase' # "set" /\ result' = result
    BY <1>1 DEF Build, BuildError, BuildOverflows, rVars
  <2>2. StateOf = "open" /\ StateOf' \in {"sealed", "lossy", "failed"} /\ AnswerOf' = AnswerOf
    BY <2>1 DEF StateOf, AnswerOf
  <2>. QED
    BY <2>1, <2>2, SameBuilder, Steps
<1>. QED
  BY <1>1, SetFieldMaps, FromElfMaps DEF BNext

\* A reader's step on an image that keeps its promise, and on any other.
LEMMA ReturnsMaps ==
  ASSUME IInv, UNCHANGED bVars, NEW value, Returns(value),
         StateOf = "sealed" => \/ \E k \in Keys : value = Ok(k, Kept[k])
                               \/ \E k \in Keys : value = [status |-> "absent", key |-> k] /\ Kept[k] = None
                               \/ value.status \in {"mod0", "no_mod0"}
  PROVE  Abstract!Next
<1>1. rpc = "ready" /\ rpc' \in {"ready", "done"} /\ result' = value /\ b' = b /\ phase' = phase
  BY DEF Returns, bVars
<1>2. phase \in {"set", "built"}
  BY <1>1 DEF IInv
<1>3. Kept' = Kept /\ (Overlaps' <=> Overlaps)
  BY <1>1, SameBuilder
<1>4. StateOf' = StateOf /\ StateOf \in {"sealed", "lossy", "foreign"}
  BY <1>1, <1>2, <1>3 DEF StateOf
<1>5. CASE StateOf # "sealed"
  BY <1>3, <1>4, <1>5, Steps
<1>6. CASE StateOf = "sealed"
  <2>1. ASSUME NEW k \in Keys, value = Ok(k, Kept[k]) PROVE Abstract!Next
    <3>1. AnswerOf' = <<k, Kept[k]>>
      BY <1>1, <2>1 DEF AnswerOf, Ok
    <3>. QED
      BY <1>3, <1>4, <1>6, <3>1, Steps
  <2>2. ASSUME NEW k \in Keys, value = [status |-> "absent", key |-> k], Kept[k] = None PROVE Abstract!Next
    <3>1. AnswerOf' = <<k, Kept[k]>>
      BY <1>1, <2>2 DEF AnswerOf
    <3>. QED
      BY <1>3, <1>4, <1>6, <3>1, Steps
  <2>3. ASSUME value.status \in {"mod0", "no_mod0"} PROVE Abstract!Next
    <3>1. AnswerOf' = <<"aside">>
      BY <1>1, <2>3 DEF AnswerOf
    <3>. QED
      BY <1>3, <1>4, <1>6, <3>1, Steps
  <2>. QED
    BY <1>6, <2>1, <2>2, <2>3
<1>. QED
  BY <1>5, <1>6

LEMMA RNextMaps ==
  ASSUME IInv, UNCHANGED bVars, RNext
  PROVE  Abstract!Next
<1>0. StateOf = "sealed" /\ rpc = "ready" => BuilderOK /\ Sealable /\ ~Overlaps /\ nro = ImageOf
  BY DEF StateOf, IInv
<1>1. ASSUME NEW k \in 1..3, Segment(k) PROVE Abstract!Next
  <2>. DEFINE s == SEGMENTS[k]
              value == Slice(SegmentNames[k], nro.segments[k].file_off, SegmentEnd(nro, k))
  <2>1. Returns(value) /\ rpc = "ready"
    BY <1>1 DEF Segment, Returns
  <2>2. s \in Keys /\ s \in SegKeys
    BY KeySets DEF Keys
  <2>3. StateOf = "sealed" => value = Ok(s, Kept[s])
    <3>. SUFFICES ASSUME StateOf = "sealed" PROVE value = Ok(s, Kept[s])
      OBVIOUS
    <3>1. BuilderOK /\ Sealable /\ ~Overlaps /\ nro = ImageOf
      BY <1>0, <2>1
    <3>2. value = Ok(s, UnderHeader(s))
      BY <3>1, SegmentComesBack
    <3>3. b[s] # None
      BY <2>2, <3>1 DEF Sealable, BuildError, SegKeys
    <3>4. Kept[s] = UnderHeader(s)
      BY <2>2, <3>3, KeySets DEF Kept, Keys
    <3>. QED
      BY <3>2, <3>4
  <2>. HIDE DEF s, value
  <2>. QED
    BY <2>1, <2>2, <2>3, ReturnsMaps
<1>2. ASSUME NEW k \in 1..3, Asset(k) PROVE Abstract!Next
  <2>. DEFINE a == ASSETS[k]
              value == IF asset_header(nro) = NoHeader \/ nro.assets.sections[k].size = 0
                       THEN AbsentAsset(k)
                       ELSE Slice(AssetNames[k], nro.size + nro.assets.sections[k].offset, AssetEnd(nro, k))
  <2>1. Returns(value) /\ rpc = "ready"
    BY <1>2 DEF Asset, Returns
  <2>2. a \in Keys /\ a \in AssetKeys /\ a \notin SegKeys
    BY KeySets DEF Keys, AssetKeys, SegKeys
  <2>3. StateOf = "sealed" => \/ value = Ok(a, Kept[a])
                              \/ value = [status |-> "absent", key |-> a] /\ Kept[a] = None
    <3>. SUFFICES ASSUME StateOf = "sealed"
                  PROVE  \/ value = Ok(a, Kept[a])
                         \/ value = [status |-> "absent", key |-> a] /\ Kept[a] = None
      OBVIOUS
    <3>1. BuilderOK /\ Sealable /\ nro = ImageOf
      BY <1>0, <2>1
    <3>2. value = IF b[a] = None \/ b[a] = <<>> THEN [status |-> "absent", key |-> a] ELSE Ok(a, b[a])
      BY <3>1, AssetComesBack
    <3>3. Kept[a] = IF b[a] = None THEN None ELSE IF b[a] = <<>> THEN None ELSE b[a]
      BY <2>2, KeySets DEF Kept, Keys
    <3>. HIDE DEF value, a
    <3>. QED
      BY <3>2, <3>3
  <2>. HIDE DEF a, value
  <2>. QED
    BY <2>1, <2>2, <2>3, ReturnsMaps
<1>3. ASSUME NEW k \in 1..3, AssetSumOverflows(k) PROVE Abstract!Next
  <2>1. /\ rpc = "ready" /\ asset_header(nro) # NoHeader /\ Returns([status |-> "overflow"])
        /\ nro.size + nro.assets.sections[k].offset > USIZE_MAX
    BY <1>3 DEF AssetSumOverflows
  <2>2. StateOf # "sealed"
    <3>. SUFFICES ASSUME StateOf = "sealed" PROVE FALSE
      OBVIOUS
    <3>1. BuilderOK /\ Sealable /\ nro = ImageOf /\ BuildError = "none"
      BY <1>0, <2>1 DEF Sealable
    <3>2. CASE has_assets
      <4>1. nro.size = nro_size /\ nro.assets.sections[k].offset = AssetOffset(k)
        BY <3>1, <3>2, ImageFields
      <4>2. nro_size + AssetOffset(k) =< USIZE_MAX
        BY <3>1, BuiltEnds
      <4>3. nro_size \in Nat /\ AssetOffset(k) \in Nat /\ USIZE_MAX \in Nat
        <5>1. nro_size \in 0..(U32 - 1)
          BY <3>1, Sizes
        <5>2. asset_offset[k] \in Nat
          BY <3>1, AssetPlaces
        <5>3. nro_size \in Nat
          BY <5>1, ElfUnits
        <5>4. AssetOffset(k) \in Nat
          BY <5>2 DEF AssetOffset
        <5>. QED
          BY <5>3, <5>4, SameNroFormat
      <4>. QED
        BY <2>1, <4>1, <4>2, <4>3
    <3>3. CASE ~has_assets
      <4>1. nro.len = nro_size /\ nro.size = nro_size /\ nro_size \in Nat
        BY <3>1, <3>3, ImageFields, Sizes, ElfUnits DEF total_size
      <4>2. ~(nro.len > nro.size + ASSET_HEADER_SIZE)
        BY <4>1, SameNroFormat, NroUnits
      <4>. QED
        BY <2>1, <4>2 DEF asset_header
    <3>. QED
      BY <3>2, <3>3
  <2>. QED
    BY <2>1, <2>2, ReturnsMaps
<1>4. ASSUME rpc = "ready", ReadMod0 PROVE Abstract!Next
  <2>. DEFINE value == Mod0Of(SubSeq(nro.bytes, mod_offset + 1, Len(nro.bytes)))
  <2>1. value.status \in {"mod0", "no_mod0"}
    BY DEF Mod0Of
  <2>2. Returns(value)
    BY <1>4 DEF ReadMod0
  <2>. HIDE DEF value
  <2>. QED
    BY <2>1, <2>2, ReturnsMaps
<1>. QED
  BY <1>1, <1>2, <1>3, <1>4 DEF RNext

LEMMA StepMaps == IInv /\ [Next]_vars => [Abstract!Next]_(Abstract!cVars)
<1>. SUFFICES ASSUME IInv, [Next]_vars PROVE [Abstract!Next]_(Abstract!cVars)
  OBVIOUS
<1>1. CASE rpc = "none" /\ BNext /\ UNCHANGED rVars
  BY <1>1, BNextMaps
<1>2. CASE phase = "built" /\ TryFromBytes(image) /\ UNCHANGED bVars
  <2>1. b' = b /\ phase' = "built" /\ image = ImageOf /\ BuilderOK /\ Sealable
    BY <1>2 DEF bVars, IInv
  <2>2. Kept' = Kept /\ (Overlaps' <=> Overlaps)
    BY <2>1, SameBuilder
  <2>3. StateOf' = StateOf
    BY <1>2, <2>1, <2>2 DEF StateOf
  <2>4. CASE Overlaps
    <3>1. StateOf = "lossy"
      BY <1>2, <2>4 DEF StateOf
    <3>. QED
      BY <2>2, <2>3, <3>1, Steps
  <2>5. CASE ~Overlaps
    <3>1. HeaderError(image) = "none"
      BY <2>1, <2>5, BuiltAccepted
    <3>2. result' = result
      BY <1>2, <3>1 DEF TryFromBytes
    <3>3. UNCHANGED <<Kept, StateOf, AnswerOf>>
      BY <2>2, <2>3, <3>2 DEF AnswerOf
    <3>. QED
      BY <3>3, Invisible
  <2>. QED
    BY <2>4, <2>5
<1>3. CASE phase = "set" /\ (ForeignBytes \/ ForeignPtr) /\ UNCHANGED bVars
  <2>1. rpc = "none" /\ rpc' # "none" /\ b' = b /\ phase' = "set"
    BY <1>3 DEF ForeignBytes, ForeignPtr, TryFromPtr, TryFromBytes, bVars
  <2>2. StateOf = "open" /\ StateOf' = "foreign"
    BY <1>3, <2>1 DEF StateOf
  <2>. QED
    BY <2>1, <2>2, SameBuilder, Steps
<1>4. CASE RNext /\ UNCHANGED bVars
  BY <1>4, RNextMaps
<1>5. CASE UNCHANGED vars
  <2>1. b' = b /\ phase' = phase /\ rpc' = rpc /\ result' = result
    BY <1>5 DEF vars, bVars, rVars
  <2>2. UNCHANGED <<Kept, StateOf, AnswerOf>>
    BY <2>1, SameBuilder DEF StateOf, AnswerOf
  <2>. QED
    BY <2>2, Invisible
<1>. QED
  BY <1>1, <1>2, <1>3, <1>4, <1>5 DEF Next, Finished

LEMMA InitMaps == Init => Abstract!Init
<1>. SUFFICES ASSUME Init PROVE Abstract!Init
  OBVIOUS
<1>1. b = NewBuilder /\ StateOf = "open" /\ AnswerOf = <<"none">>
  BY DEF Init, BInit, RInit, NoResult, StateOf, AnswerOf
<1>. QED
  BY <1>1, NewKept, MappedInit

\* Every behaviour of builder and reader is one of the abstract container's:
\* segments that do not overlap and assets come back whole under their own names.
THEOREM NroImplementsContainer == Spec => ImplementsContainer
  BY InitMaps, StepMaps, NroInvariant, PTL DEF Spec, ImplementsContainer, Abstract!Spec

(***************************************************************************)
(* A program built from an ELF                                             *)
(***************************************************************************)
LEMMA RoundUpIs ==
  ASSUME NEW n \in Nat, n + PAGE =< U32
  PROVE  /\ RoundUp(n) = ((n + PAGE - 1) \div PAGE) * PAGE
         /\ RoundUp(n) \in n..(n + PAGE - 1)
         /\ RoundUp(n) % U32 = RoundUp(n)
<1>1. RoundUp(n) = RoundedUp(n, PAGE, U64)
  BY DEF RoundUp, RoundedUp
<1>. QED
  BY <1>1, RoundedUpIs, ElfUnits

\* While no other header comes before a PT_LOAD one, every segment is taken.
LEMMA AllTaken ==
  ASSUME NEW e \in Elfs, WellLaid(e)
  PROVE  Loads(e) = PtLoads(e)
<1>1. PtLoads(e) \in SUBSET (Nat \ {0})
  <2>1. e.segments \in Seq(ElfSegment)
    BY ElfsSupplied DEF ElfSegment
  <2>2. DOMAIN e.segments \in SUBSET (Nat \ {0})
    BY <2>1
  <2>. QED
    BY <2>2, Zenon DEF PtLoads
<1>2. ASSUME NEW i \in PtLoads(e) PROVE e.segments[Turn(e, i)].load
  <2>1. \A j \in 1..i : e.segments[j].load
    BY DEF WellLaid
  <2>2. i \in Nat \ {0} /\ i \in DOMAIN e.segments
    BY <1>1 DEF PtLoads
  <2>3. 1..i \in SUBSET PtLoads(e)
    <3>1. e.segments \in Seq(ElfSegment)
      BY ElfsSupplied DEF ElfSegment
    <3>2. 1..i \in SUBSET DOMAIN e.segments
      BY <2>2, <3>1
    <3>. QED
      BY <2>1, <3>2, Zenon DEF PtLoads
  <2>4. Turn(e, i) = i
    BY <1>1, <2>2, <2>3, LeadingTurn, Zenon DEF Turn
  <2>. QED
    BY <2>4 DEF PtLoads
<1>. QED
  BY <1>2, Zenon DEF Loads

\* The segments of an ELF that is laid out well, in order of address.
LEMMA WellLaidSegments ==
  ASSUME NEW e \in Elfs, WellLaid(e)
  PROVE  LET n == Cardinality(Loads(e))
             L == LoadSegments(e)
         IN  /\ n \in {3, 4} /\ DOMAIN L = 1..n /\ Len(L) = n
             /\ LaidInOrder(L, n, PAGE, U32, U64)
             /\ \A i \in Loads(e) : \E k \in 1..n : e.segments[i] = L[k]
<1>. DEFINE S == Loads(e)
            n == Cardinality(S)
            segs == e.segments
            L == [k \in 1..n |-> segs[PlaceIn(segs, S, k)]]
<1>1. LoadSegments(e) = L
  BY DEF LoadSegments, PlaceIn, Before, Precedes
<1>2. /\ segs \in Seq(ElfSegment) /\ S \in SUBSET DOMAIN segs
      /\ \A t \in ElfSegment : t.addr \in Nat /\ t.memsz \in Nat /\ t.bytes \in Seq(Int)
  <2>1. \A t \in ElfSegment : t.addr \in 0..(U64 - 1) /\ t.memsz \in 0..(U64 - 1) /\ t.bytes \in Seq(Int)
    BY DEF ElfSegment
  <2>2. segs \in Seq(ElfSegment)
    BY ElfsSupplied DEF ElfSegment
  <2>3. S \in SUBSET DOMAIN segs
    BY DEF Loads, PtLoads
  <2>4. \A x \in 0..(U64 - 1) : x \in Nat
    BY ElfUnits
  <2>. QED
    BY <2>1, <2>2, <2>3, <2>4
<1>3. /\ \A i \in S : Len(segs[i].bytes) =< segs[i].memsz /\ segs[i].addr + segs[i].memsz + PAGE =< U32
      /\ \A i, j \in S : i # j => (segs[i].addr < segs[j].addr /\ segs[i].addr + segs[i].memsz =< segs[j].addr)
                                  \/ (segs[j].addr < segs[i].addr /\ segs[j].addr + segs[j].memsz =< segs[i].addr)
      /\ n = 3 \/ n = 4
      /\ n # 3 =>
           \E bss, data \in S :
             /\ data # bss /\ \A i \in S \ {bss} : segs[i].addr =< segs[data].addr /\ segs[i].addr < segs[bss].addr
             /\ segs[bss].bytes = <<>>
             /\ segs[bss].addr =< segs[data].addr + RoundedUp(Len(segs[data].bytes), PAGE, U64)
  BY AllTaken, SMTT(30) DEF WellLaid, RoundUp, RoundedUp
<1>. HIDE DEF S, segs
<1>4. /\ n \in {3, 4} /\ DOMAIN L = 1..n /\ Len(L) = n
      /\ LaidInOrder(L, n, PAGE, U32, U64)
      /\ \A i \in S : \E k \in 1..n : segs[i] = L[k]
  BY <1>2, <1>3, ApartInOrder, ZenonT(60) DEF LaidInOrder
<1>. HIDE DEF L
<1>. QED
  BY <1>1, <1>4 DEF S, segs

\* A builder an ELF filled places every segment at its own address.
LEMMA ElfLayout ==
  ASSUME BuilderOK, BuildError = "none", elf \in Elfs, FromElfOnly, WellLaid(elf), NEW k \in 1..3
  PROVE  LET g == LoadSegments(elf)[k]
         IN  /\ b[SEGMENTS[k]] = g.bytes /\ At(SEGMENTS[k]) = g.addr
             /\ EndOfSegment(SEGMENTS[k]) = g.addr + RoundUp(Len(g.bytes))
             /\ RoundUp(Len(g.bytes)) \in Len(g.bytes)..(Len(g.bytes) + PAGE - 1)
<1>. DEFINE L == LoadSegments(elf)
            n == Cardinality(Loads(elf))
            g == L[k]
            s == SEGMENTS[k]
<1>1. n \in {3, 4} /\ k \in 1..n
  BY WellLaidSegments
<1>2. /\ g.addr \in Nat /\ g.memsz \in Nat /\ g.bytes \in Seq(Int) /\ Len(g.bytes) \in 0..g.memsz
      /\ g.addr + g.memsz + PAGE =< U32
  BY <1>1, WellLaidSegments DEF LaidInOrder
<1>3. /\ DOMAIN BuilderFields(elf) = {"text", "text_vaddr", "rodata", "rodata_vaddr", "data", "data_vaddr", "bss_size"}
      /\ BuilderFields(elf)["text"] = L[1].bytes /\ BuilderFields(elf)["text_vaddr"] = L[1].addr % U32
      /\ BuilderFields(elf)["rodata"] = L[2].bytes /\ BuilderFields(elf)["rodata_vaddr"] = L[2].addr % U32
      /\ BuilderFields(elf)["data"] = L[3].bytes /\ BuilderFields(elf)["data_vaddr"] = L[3].addr % U32
  BY DEF BuilderFields
<1>4. b[s] = g.bytes /\ At(s) = g.addr % U32
  <2>. HIDE DEF L
  <2>1. /\ b["text"] = L[1].bytes /\ b["text_vaddr"] = L[1].addr % U32
        /\ b["rodata"] = L[2].bytes /\ b["rodata_vaddr"] = L[2].addr % U32
        /\ b["data"] = L[3].bytes /\ b["data_vaddr"] = L[3].addr % U32
    BY <1>3 DEF FromElfOnly
  <2>2. (k = 1 /\ s = "text") \/ (k = 2 /\ s = "rodata") \/ (k = 3 /\ s = "data")
    BY DEF SEGMENTS
  <2>. QED
    BY <2>1, <2>2, Addresses DEF At
<1>. HIDE DEF g, s, L
<1>5. g.addr % U32 = g.addr
  <2>1. U32 \in Nat \ {0} /\ 0 \in Nat /\ g.addr \in 0..(U32 - 1) /\ 0 * U32 + g.addr = g.addr
    BY <1>2, ElfUnits
  <2>. QED
    BY <2>1, DivModUnique
<1>6. Len(g.bytes) \in Nat /\ Len(g.bytes) + PAGE =< U32
  BY <1>2, ElfUnits
<1>7. RoundUp(Len(g.bytes)) = Len(Padded(b[s])) /\ RoundUp(Len(g.bytes)) \in Len(g.bytes)..(Len(g.bytes) + PAGE - 1)
  BY <1>2, <1>4, <1>6, RoundUpIs, PaddedIs
<1>. QED
  BY <1>4, <1>5, <1>7 DEF EndOfSegment, g, s, L

\* The image ends where data does: nothing wraps.
LEMMA ElfSize ==
  ASSUME BuilderOK, Sealable, image = ImageOf, elf \in Elfs, FromElfOnly, WellLaid(elf)
  PROVE  image.size = EndOfSegment("data") /\ nro_size = EndOfSegment("data") /\ EndOfSegment("data") \in Nat
<1>0. BuildError = "none"
  BY DEF Sealable
<1>1. EndOfSegment("data") \in Nat /\ EndOfSegment("data") < U32
  <2>. DEFINE g == LoadSegments(elf)[3]
  <2>1. 3 \in 1..3 /\ SEGMENTS[3] = "data" /\ 3 \in 1..Cardinality(Loads(elf))
    BY WellLaidSegments DEF SEGMENTS
  <2>2. /\ EndOfSegment("data") = g.addr + RoundUp(Len(g.bytes))
        /\ RoundUp(Len(g.bytes)) \in Len(g.bytes)..(Len(g.bytes) + PAGE - 1)
    BY <1>0, <2>1, ElfLayout
  <2>3. g.addr \in Nat /\ g.memsz \in Nat /\ Len(g.bytes) \in 0..g.memsz /\ g.addr + g.memsz + PAGE =< U32
    BY <2>1, WellLaidSegments DEF LaidInOrder
  <2>. HIDE DEF g
  <2>. QED
    BY <2>2, <2>3, ElfUnits, SMTT(60)
<1>2. nro_size = EndOfSegment("data")
  <2>1. ~NroSizeOverflows
    BY <1>1, ElfUnits DEF NroSizeOverflows
  <2>. QED
    BY <1>0, <2>1, Sizes
<1>3. image.size = nro_size
  BY <1>0, ImageFields
<1>. QED
  BY <1>1, <1>2, <1>3

\* The image holds at address a what the segments, written in their order, leave.
LEMMA ElfByte ==
  ASSUME BuilderOK, Sealable, image = ImageOf, elf \in Elfs, FromElfOnly, WellLaid(elf),
         NEW a \in Nat, a \notin START..(HDR_END - 1)
  PROVE  Memory(a) = IF a < EndOfSegment("data") THEN SegByte(a + 1) ELSE 0
<1>0. BuildError = "none"
  BY DEF Sealable
<1>1. image.size = nro_size /\ nro_size = EndOfSegment("data") /\ nro_size \in Nat
  BY ElfSize
<1>2. ASSUME a < nro_size PROVE image.bytes[a + 1] = SegByte(a + 1)
  <2>1. a + 1 \in 1..nro_size
    BY <1>1, <1>2
  <2>2. image.bytes[a + 1] = HeadByte(a + 1)
    BY <1>0, <2>1, ImageBytes
  <2>3. a + 1 \notin (START + 1)..HDR_END
    BY NroUnits
  <2>. QED
    BY <2>2, <2>3 DEF HeadByte
<1>. QED
  BY <1>1, <1>2 DEF Memory

\* What the ELF's k-th segment has at address a, and what its memory ends with.
LEMMA ElfLoads ==
  ASSUME BuilderOK, Sealable, image = ImageOf, elf \in Elfs, FromElfOnly, WellLaid(elf),
         NEW k \in 1..Cardinality(Loads(elf)),
         NEW a \in LoadSegments(elf)[k].addr..(LoadSegments(elf)[k].addr + LoadSegments(elf)[k].memsz - 1)
  PROVE  LET g == LoadSegments(elf)[k]
         IN  /\ a < image.size + image.bss_size
             /\ \/ a \in START..(HDR_END - 1)
                \/ Memory(a) = IF a - g.addr < Len(g.bytes) THEN g.bytes[a - g.addr + 1] ELSE 0
<1>. DEFINE L == LoadSegments(elf)
            n == Cardinality(Loads(elf))
            A(j) == L[j].addr
            M(j) == L[j].memsz
            N(j) == Len(L[j].bytes)
            rounded(x) == RoundedUp(x, PAGE, U64)
            R(j) == rounded(N(j))
            C(j) == a \in A(j)..(A(j) + R(j) - 1)
            P(j) == PagePadded(L[j].bytes, PAGE)[a - A(j) + 1]
            bss == BssAfter(L, n, PAGE, U32, U64)
            want == IF a - A(k) < N(k) THEN L[k].bytes[a - A(k) + 1] ELSE 0
<1>0. BuildError = "none" /\ PAGE \in Nat \ {0} /\ U32 \in Nat \ {0}
  BY ElfUnits DEF Sealable
<1>1. n \in {3, 4} /\ Len(L) = n /\ LaidInOrder(L, n, PAGE, U32, U64)
  BY WellLaidSegments
<1>2. /\ a \in Nat /\ a < DataEnd(L, PAGE, U64) + BssAfter(L, n, PAGE, U32, U64)
      /\ LoadedByte(L, PAGE, U64, a) = OwnByte(L, k, a)
  <2>1. InSegment(L, k, a)
    BY DEF InSegment
  <2>2. PAGE \in Nat \ {0} /\ U32 \in Nat \ {0} /\ U64 \in Nat \ {0} /\ U32 =< U64 /\ k \in 1..n
    BY ElfUnits
  <2>. HIDE DEF L, n
  <2>. QED
    BY <1>1, <2>1, <2>2, LoadedInOrder
<1>3. /\ A(1) \in Nat /\ A(2) \in Nat /\ A(3) \in Nat /\ A(1) < A(2) /\ A(2) < A(3)
      /\ A(1) + N(1) =< A(2) /\ A(2) + N(2) =< A(3) /\ N(1) \in Nat /\ N(2) \in Nat /\ N(3) \in Nat
  <2>. HIDE DEF L, n
  <2>1. /\ \A j \in 1..n : A(j) \in Nat /\ M(j) \in Nat /\ N(j) \in 0..M(j)
        /\ \A i, j \in 1..n : i < j => A(i) < A(j) /\ A(i) + M(i) =< A(j)
    BY <1>1 DEF LaidInOrder
  <2>. HIDE DEF A, M, N
  <2>. QED
    BY <1>1, <2>1, SMTT(60)
<1>4. \A x : RoundUp(x) = rounded(x) /\ \A u : Padded(u) = PagePadded(u, PAGE)
  BY DEF RoundUp, RoundedUp, Padded, PagePadded
<1>5. /\ At("text") = A(1) /\ EndOfSegment("text") = A(1) + R(1) /\ R(1) \in N(1)..(N(1) + PAGE - 1) /\ b["text"] = L[1].bytes
      /\ At("rodata") = A(2) /\ EndOfSegment("rodata") = A(2) + R(2) /\ R(2) \in N(2)..(N(2) + PAGE - 1) /\ b["rodata"] = L[2].bytes
      /\ At("data") = A(3) /\ EndOfSegment("data") = A(3) + R(3) /\ R(3) \in N(3)..(N(3) + PAGE - 1) /\ b["data"] = L[3].bytes
  <2>1. SEGMENTS[1] = "text" /\ SEGMENTS[2] = "rodata" /\ SEGMENTS[3] = "data" /\ 1 \in 1..3 /\ 2 \in 1..3 /\ 3 \in 1..3
    BY DEF SEGMENTS
  <2>2. RoundUp(N(1)) = R(1) /\ RoundUp(N(2)) = R(2) /\ RoundUp(N(3)) = R(3)
    BY <1>4
  <2>. QED
    BY <1>0, <2>1, <2>2, ElfLayout
<1>6. image.bss_size = bss
  <2>1. "bss_size" \in DOMAIN BuilderFields(elf) /\ BuilderFields(elf)["bss_size"] = BssSize(elf) % U32
    BY DEF BuilderFields
  <2>2. BssSize(elf) % U32 = bss
    BY <1>1, <1>4 DEF BssSize, BssAfter
  <2>. QED
    BY <1>0, <2>1, <2>2, ImageFields DEF FromElfOnly
<1>7. a \notin START..(HDR_END - 1) => Memory(a) = IF a < A(3) + R(3) THEN SegByte(a + 1) ELSE 0
  BY <1>2, <1>5, ElfByte
<1>8. image.size = A(3) + R(3)
  BY <1>0, <1>5, ElfSize
<1>9. SegByte(a + 1) =
         IF a + 1 > A(3) /\ a + 1 =< A(3) + R(3) THEN PagePadded(L[3].bytes, PAGE)[(a + 1) - A(3)]
         ELSE IF a + 1 > A(2) /\ a + 1 =< A(2) + R(2) THEN PagePadded(L[2].bytes, PAGE)[(a + 1) - A(2)]
         ELSE IF a + 1 > A(1) /\ a + 1 =< A(1) + R(1) THEN PagePadded(L[1].bytes, PAGE)[(a + 1) - A(1)]
         ELSE 0
  <2>1. /\ Padded(b.text) = PagePadded(L[1].bytes, PAGE) /\ Padded(b.rodata) = PagePadded(L[2].bytes, PAGE)
        /\ Padded(b.data) = PagePadded(L[3].bytes, PAGE)
    BY <1>4, <1>5
  <2>2. /\ At("text") = A(1) /\ EndOfSegment("text") = A(1) + R(1)
        /\ At("rodata") = A(2) /\ EndOfSegment("rodata") = A(2) + R(2)
        /\ At("data") = A(3) /\ EndOfSegment("data") = A(3) + R(3)
    BY <1>5
  <2>. HIDE DEF L, A, R
  <2>. QED
    BY <2>1, <2>2 DEF SegByte
<1>10. a \in Nat /\ R(1) \in N(1)..(N(1) + PAGE - 1) /\ R(2) \in N(2)..(N(2) + PAGE - 1) /\ R(3) \in N(3)..(N(3) + PAGE - 1)
  BY <1>2, <1>5
<1>. HIDE DEF L, n, A, N, R
<1>11. ASSUME NEW j \in 1..3
       PROVE  /\ C(j) <=> a + 1 > A(j) /\ a + 1 =< A(j) + R(j)
              /\ a - A(j) + 1 = (a + 1) - A(j)
  BY <1>0, <1>3, <1>10
<1>12. ~(a < A(3) + R(3)) => want = 0
  <2>1. /\ A(k) =< a /\ a < A(k) + M(k) /\ A(k) \in Nat /\ M(k) \in Nat /\ N(k) \in Nat
        /\ k < 3 => A(k) + M(k) =< A(3)
        /\ k > 3 => N(k) = 0
    BY <1>1, SMTT(60) DEF LaidInOrder, InSegment, L, n, A, N
  <2>2. ~(a < A(3) + R(3)) => ~(a - A(k) < N(k))
    <3>. HIDE DEF M
    <3>1. k < 3 \/ k = 3 \/ k > 3
      BY <1>1 DEF n
    <3>2. CASE k < 3
      BY <1>0, <1>3, <1>10, <2>1, <3>2
    <3>3. CASE k = 3
      BY <1>0, <1>3, <1>10, <2>1, <3>3
    <3>4. CASE k > 3
      BY <1>0, <1>3, <1>10, <2>1, <3>4
    <3>. QED
      BY <3>1, <3>2, <3>3, <3>4
  <2>. QED
    BY <2>2
<1>13. a < A(3) + R(3) => SegByte(a + 1) = want
  <2>1. SegByte(a + 1) = IF C(3) THEN P(3) ELSE IF C(2) THEN P(2) ELSE IF C(1) THEN P(1) ELSE 0
    BY <1>9, <1>11
  <2>2. LoadedByte(L, PAGE, U64, a) = IF C(3) THEN P(3) ELSE IF C(2) THEN P(2) ELSE IF C(1) THEN P(1) ELSE 0
    BY DEF LoadedByte, A, R, N
  <2>3. OwnByte(L, k, a) = want
    BY DEF OwnByte, A, N
  <2>. QED
    BY <1>2, <2>1, <2>2, <2>3
<1>14. a < image.size + image.bss_size
  BY <1>2, <1>6, <1>8 DEF DataEnd, A, R, N
<1>15. a \in START..(HDR_END - 1) \/ Memory(a) = want
  BY <1>2, <1>7, <1>12, <1>13
<1>. QED
  BY <1>14, <1>15 DEF L, A, N

\* For every well laid out ELF, its PT_LOAD headers before any other and in any
\* order among themselves: the built program has in memory what the ELF's segments say.
THEOREM NroLoadsLikeElf == Spec => []LoadsLikeElf
<1>1. IInv => LoadsLikeElf
  <2>. SUFFICES ASSUME IInv, phase = "built", FromElfOnly, WellLaid(elf),
                       NEW i \in PtLoads(elf),
                       NEW a \in elf.segments[i].addr..(elf.segments[i].addr + elf.segments[i].memsz - 1)
                PROVE  /\ a < image.size + image.bss_size
                       /\ \/ a \in START..(HDR_END - 1)
                          \/ Memory(a) = IF a - elf.segments[i].addr < Len(elf.segments[i].bytes)
                                         THEN elf.segments[i].bytes[a - elf.segments[i].addr + 1] ELSE 0
    BY DEF LoadsLikeElf
  <2>1. BuilderOK /\ Sealable /\ image = ImageOf /\ elf \in Elfs
    BY DEF IInv, FromElfOnly
  <2>2. PICK k \in 1..Cardinality(Loads(elf)) : elf.segments[i] = LoadSegments(elf)[k]
    BY <2>1, AllTaken, WellLaidSegments
  <2>. QED
    BY <2>1, <2>2, ElfLoads
<1>. QED
  BY <1>1, NroInvariant, PTL

(***************************************************************************)
(* The MOD0 header of a program built from an ELF                          *)
(***************************************************************************)
\* A MOD0 answer is what the bytes at mod_offset of the file being read spell.
Mod0Inv ==
  /\ rpc = "none" => result = NoResult
  /\ phase = "built" /\ result.status \in {"mod0", "no_mod0"} =>
       result = Mod0Of(SubSeq(nro.bytes, mod_offset + 1, Len(nro.bytes)))

\* No other accessor answers with a MOD0 header.
LEMMA SliceNoMod0 ==
  ASSUME NEW key, NEW first, NEW last
  PROVE  Slice(key, first, last).status \notin {"mod0", "no_mod0"}
  BY DEF Slice, Ok

LEMMA NextMod0Inv == Mod0Inv /\ [Next]_vars => Mod0Inv'
<1>. SUFFICES ASSUME Mod0Inv, [Next]_vars PROVE Mod0Inv'
  OBVIOUS
<1>0. NoResult.status \notin {"mod0", "no_mod0"}
  BY DEF NoResult
<1>1. ASSUME UNCHANGED rVars, rpc = "none" \/ UNCHANGED bVars PROVE Mod0Inv'
  <2>1. rpc' = rpc /\ nro' = nro /\ result' = result
    BY <1>1 DEF rVars
  <2>2. CASE rpc = "none"
    BY <1>0, <2>1, <2>2 DEF Mod0Inv
  <2>3. CASE UNCHANGED bVars
    BY <2>1, <2>3 DEF Mod0Inv, bVars, mod_offset
  <2>. QED
    BY <1>1, <2>2, <2>3
<1>2. ASSUME NEW n, TryFromBytes(n) PROVE Mod0Inv'
  <2>1. Err(HeaderError(n)).status = "err"
    BY DEF Err
  <2>. QED
    BY <1>0, <1>2, <2>1 DEF TryFromBytes, Mod0Inv
<1>3. ASSUME RNext, UNCHANGED bVars PROVE Mod0Inv'
  <2>0. phase' = phase
    BY <1>3 DEF bVars
  <2>1. ASSUME NEW v, Returns(v), v.status \notin {"mod0", "no_mod0"} PROVE Mod0Inv'
    BY <2>1 DEF Returns, Mod0Inv
  <2>2. ASSUME NEW k \in 1..3, Segment(k) PROVE Mod0Inv'
    BY <2>1, <2>2, SliceNoMod0 DEF Segment
  <2>3. ASSUME NEW k \in 1..3, Asset(k) PROVE Mod0Inv'
    <3>1. AbsentAsset(k).status = "absent"
      BY DEF AbsentAsset
    <3>. QED
      BY <2>1, <2>3, <3>1, SliceNoMod0 DEF Asset
  <2>4. ASSUME NEW k \in 1..3, AssetSumOverflows(k) PROVE Mod0Inv'
    BY <2>1, <2>4 DEF AssetSumOverflows
  <2>5. ASSUME ReadMod0 PROVE Mod0Inv'
    <3>1. nro' = nro /\ result' = Mod0Of(SubSeq(nro.bytes, mod_offset + 1, Len(nro.bytes))) /\ rpc' # "none"
      BY <2>5 DEF ReadMod0, Returns
    <3>2. mod_offset' = mod_offset
      BY <3>1 DEF mod_offset
    <3>. QED
      BY <3>1, <3>2 DEF Mod0Inv
  <2>. QED
    BY <1>3, <2>2, <2>3, <2>4, <2>5 DEF RNext
<1>4. CASE UNCHANGED vars
  BY <1>1, <1>4 DEF vars
<1>5. CASE Finished
  BY <1>1, <1>5 DEF Finished, vars
<1>. QED
  BY <1>1, <1>2, <1>3, <1>4, <1>5 DEF Next, ForeignBytes, ForeignPtr, TryFromPtr

\* Text at address 0 is, the header's place aside, the beginning of the file.
LEMMA TextBegins ==
  ASSUME BuilderOK, Sealable, image = ImageOf, elf \in Elfs, FromElfOnly, WellLaid(elf), b.text_vaddr = 0
  PROVE  /\ b.text = LoadSegments(elf)[1].bytes /\ b.text \in Seq(Int)
         /\ image.bytes \in Seq(Int) /\ Len(b.text) =< Len(image.bytes)
         /\ \A p \in 1..Len(b.text) : p \notin (START + 1)..HDR_END => image.bytes[p] = b.text[p]
<1>. DEFINE L == LoadSegments(elf)
            N == Len(L[1].bytes)
<1>0. BuildError = "none" /\ START \in Nat /\ HDR_END \in Nat
  BY NroUnits DEF Sealable
<1>1. /\ L[1].addr \in Nat /\ L[1].memsz \in Nat /\ L[1].bytes \in Seq(Int) /\ N \in 0..L[1].memsz
      /\ L[1].addr + L[1].memsz =< L[3].addr /\ L[3].addr \in Nat
  <2>. DEFINE n == Cardinality(Loads(elf))
  <2>1. n \in {3, 4}
    BY WellLaidSegments
  <2>. HIDE DEF n
  <2>2. 1 \in 1..n /\ 3 \in 1..n /\ 1 < 3
    BY <2>1
  <2>. QED
    BY <2>2, WellLaidSegments DEF n, LaidInOrder
<1>2. b.text = L[1].bytes /\ L[1].addr = 0 /\ EndOfSegment("data") >= L[3].addr
  <2>1. SEGMENTS[1] = "text" /\ SEGMENTS[3] = "data" /\ 1 \in 1..3 /\ 3 \in 1..3
    BY DEF SEGMENTS
  <2>2. b["text"] = L[1].bytes /\ At("text") = L[1].addr
    BY <1>0, <2>1, ElfLayout
  <2>3. /\ EndOfSegment("data") = L[3].addr + RoundUp(Len(L[3].bytes))
        /\ RoundUp(Len(L[3].bytes)) \in Len(L[3].bytes)..(Len(L[3].bytes) + PAGE - 1)
    BY <1>0, <2>1, ElfLayout
  <2>4. Len(L[3].bytes) \in Nat
    BY WellLaidSegments
  <2>5. At("text") = b["text_vaddr"]
    BY Addresses DEF At
  <2>. HIDE DEF L
  <2>6. EndOfSegment("data") >= L[3].addr
    BY <1>1, <2>3, <2>4, ElfUnits
  <2>. QED
    BY <2>2, <2>5, <2>6
<1>3. image.size = EndOfSegment("data") /\ nro_size = EndOfSegment("data") /\ EndOfSegment("data") \in Nat
  BY ElfSize
<1>4. image.bytes \in [1..total_size -> Int] /\ total_size \in Nat /\ nro_size =< total_size
  BY <1>0, <1>3, ImageBytes, Sizes
<1>5. image.bytes \in Seq(Int) /\ Len(image.bytes) = total_size
  BY <1>4, LenProperties
<1>6. Len(b.text) = N /\ N \in Nat /\ N =< image.size
  <2>. HIDE DEF L
  <2>. QED
    BY <1>1, <1>2, <1>3
<1>7. ASSUME NEW p \in 1..Len(b.text), p \notin (START + 1)..HDR_END PROVE image.bytes[p] = b.text[p]
  <2>. DEFINE a == p - 1
  <2>1. /\ a \in L[1].addr..(L[1].addr + L[1].memsz - 1) /\ 1 \in 1..Cardinality(Loads(elf))
        /\ a \notin START..(HDR_END - 1) /\ a < image.size /\ a + 1 = p /\ a - L[1].addr < N
        /\ a - L[1].addr + 1 = p
    <3>1. 1 \in 1..Cardinality(Loads(elf))
      BY WellLaidSegments
    <3>. HIDE DEF L
    <3>. QED
      BY <1>0, <1>1, <1>2, <1>3, <1>6, <1>7, <3>1, SMTT(60)
  <2>. HIDE DEF a
  <2>2. Memory(a) = IF a - L[1].addr < Len(L[1].bytes) THEN L[1].bytes[a - L[1].addr + 1] ELSE 0
    BY <2>1, ElfLoads
  <2>. HIDE DEF L
  <2>. QED
    BY <1>2, <2>1, <2>2 DEF Memory
<1>. QED
  BY <1>1, <1>2, <1>3, <1>4, <1>5, <1>6, <1>7

\* Bytes past the header that a file shares with text: the same MOD0 header.
LEMMA SameMod0 ==
  ASSUME NEW T \in Seq(Int), NEW B \in Seq(Int), Len(T) =< Len(B),
         \A p \in 1..Len(T) : p \notin (START + 1)..HDR_END => B[p] = T[p],
         NEW at \in Nat, at >= HDR_END, at + MOD0_SIZE =< Len(T)
  PROVE  Mod0Of(SubSeq(B, at + 1, Len(B))) =
           IF T[at + 1] # MOD0_MAGIC THEN [status |-> "no_mod0", error |-> "InvalidMagic"]
           ELSE [status |-> "mod0", header |-> SubSeq(T, at + 1, at + MOD0_SIZE)]
<1>. DEFINE W == SubSeq(B, at + 1, Len(B))
            H == SubSeq(T, at + 1, at + MOD0_SIZE)
            V == SubSeq(W, 1, MOD0_SIZE)
<1>1. HDR_END \in Nat /\ START \in Nat /\ MOD0_SIZE \in Nat \ {0} /\ Len(T) \in Nat /\ Len(B) \in Nat
  BY NroUnits, StubHoldsOffset, LenProperties
<1>2. W \in Seq(Int) /\ Len(W) = Len(B) - at /\ \A i \in 1..(Len(B) - at) : W[i] = B[at + i]
  BY <1>1, SMTT(60)
<1>3. H \in Seq(Int) /\ Len(H) = MOD0_SIZE /\ \A i \in 1..MOD0_SIZE : H[i] = T[at + i]
  BY <1>1
<1>. HIDE DEF W, H
<1>4. Len(W) >= MOD0_SIZE /\ Len(W) \in Nat
  BY <1>1, <1>2, SMTT(60)
<1>5. ASSUME NEW i \in 1..MOD0_SIZE PROVE W[i] = T[at + i]
  <2>1. at + i \in 1..Len(T) /\ at + i \notin (START + 1)..HDR_END /\ i \in 1..(Len(B) - at)
    BY <1>1
  <2>. QED
    BY <1>2, <2>1
<1>6. V \in Seq(Int) /\ Len(V) = MOD0_SIZE /\ \A i \in 1..MOD0_SIZE : V[i] = W[i]
  <2>1. \A i \in 1..MOD0_SIZE : W[i] \in Int
    <3>. SUFFICES ASSUME NEW i \in 1..MOD0_SIZE PROVE W[i] \in Int
      OBVIOUS
    <3>1. i \in 1..Len(W) /\ W \in Seq(Int)
      BY <1>1, <1>2, <1>4
    <3>. QED
      BY ONLY <3>1, ElementOfSeq
  <2>2. W \in Seq(Int) /\ 1 \in Int /\ MOD0_SIZE \in Nat
    BY <1>1, <1>2
  <2>3. /\ V \in Seq(Int) /\ Len(V) = IF 1 =< MOD0_SIZE THEN MOD0_SIZE - 1 + 1 ELSE 0
        /\ \A i \in 1..(MOD0_SIZE - 1 + 1) : V[i] = W[1 + i - 1]
    BY ONLY <2>1, <2>2, SubSeqProperties
  <2>. HIDE DEF V
  <2>4. \A i \in 1..MOD0_SIZE : i \in 1..(MOD0_SIZE - 1 + 1) /\ 1 + i - 1 = i
    BY ONLY <1>1
  <2>. QED
    BY ONLY <1>1, <2>3, <2>4
<1>. HIDE DEF V
<1>7. V = H
  BY <1>1, <1>3, <1>5, <1>6, SeqEqual
<1>8. W[1] = T[at + 1] /\ ~(Len(W) < MOD0_SIZE)
  BY <1>1, <1>4, <1>5
<1>. QED
  BY <1>7, <1>8 DEF Mod0Of, W, H, V

\* The second word of a built file.
LEMMA BuiltWord ==
  ASSUME nro = image
  PROVE  mod_offset = Word(image.bytes, 4)
<1>1. 4 + 1 = 5 /\ 4 + 2 = 6 /\ 4 + 3 = 7 /\ 4 + 4 = 8
  OBVIOUS
<1>. QED
  BY <1>1 DEF mod_offset, Word

LEMMA Mod0Answer ==
  ASSUME IInv, Mod0Inv, phase = "built", result.status \in {"mod0", "no_mod0"}
  PROVE  nro = image /\ result = Mod0Of(SubSeq(image.bytes, mod_offset + 1, Len(image.bytes)))
<1>1. rpc # "none"
  <2>1. NoResult.status \notin {"mod0", "no_mod0"}
    BY DEF NoResult
  <2>2. rpc = "none" => result = NoResult
    BY DEF Mod0Inv
  <2>. QED
    BY <2>1, <2>2
<1>2. nro = image
  BY <1>1 DEF IInv
<1>. QED
  BY <1>2 DEF Mod0Inv

LEMMA SameWord ==
  ASSUME NEW T \in Seq(Int), NEW B \in Seq(Int), Len(T) =< Len(B), Len(T) >= 8,
         \A p \in 1..Len(T) : p \notin (START + 1)..HDR_END => B[p] = T[p],
         Word(T, 4) >= HDR_END
  PROVE  Word(T, 4) \in Nat /\ Word(B, 4) = Word(T, 4)
<1>1. HDR_END \in Nat /\ START \in Nat /\ START >= 8 /\ Len(T) \in Nat /\ Len(B) \in Nat
  BY NroUnits, StubHoldsOffset, LenProperties
<1>2. /\ 5 \in 1..Len(T) /\ 6 \in 1..Len(T) /\ 7 \in 1..Len(T) /\ 8 \in 1..Len(T)
      /\ 5 \notin (START + 1)..HDR_END /\ 6 \notin (START + 1)..HDR_END
      /\ 7 \notin (START + 1)..HDR_END /\ 8 \notin (START + 1)..HDR_END
  BY <1>1, SMTT(60)
<1>3. B[5] = T[5] /\ B[6] = T[6] /\ B[7] = T[7] /\ B[8] = T[8]
  BY <1>2
<1>4. T[5] \in Int /\ T[6] \in Int /\ T[7] \in Int /\ T[8] \in Int
  BY <1>2, ElementOfSeq
<1>5. Word(T, 4) = T[5] + 256 * (T[6] + 256 * (T[7] + 256 * T[8]))
  BY DEF Word
<1>6. Word(T, 4) \in Int
  <2>1. \A x, y \in Int : x + 256 * y \in Int
    OBVIOUS
  <2>2. T[7] + 256 * T[8] \in Int
    BY <1>4, <2>1, ZenonT(60)
  <2>3. T[6] + 256 * (T[7] + 256 * T[8]) \in Int
    BY <1>4, <2>1, <2>2, ZenonT(60)
  <2>4. T[5] + 256 * (T[6] + 256 * (T[7] + 256 * T[8])) \in Int
    BY <1>4, <2>1, <2>3, ZenonT(60)
  <2>. QED
    BY <1>5, <2>4, ZenonT(60)
<1>7. Word(B, 4) = B[5] + 256 * (B[6] + 256 * (B[7] + 256 * B[8]))
  BY DEF Word
<1>8. Word(T, 4) \in Nat
  BY <1>1, <1>6
<1>. QED
  BY <1>3, <1>5, <1>7, <1>8, ZenonT(60)

\* For every well laid out ELF, its PT_LOAD headers before any other, whose text is
\* at 0: a reader that follows the second word of a built file finds the MOD0 header
\* the ELF's text has there.
THEOREM NroMod0Found == Spec => []Mod0Found
<1>1. Init => Mod0Inv
  BY DEF Init, RInit, NoResult, Mod0Inv
<1>2. IInv /\ Mod0Inv => Mod0Found
  <2>. DEFINE at == Mod0Offset(elf)
              B == image.bytes
              T == b.text
  <2>. SUFFICES ASSUME IInv, Mod0Inv, phase = "built", FromElfOnly, WellLaid(elf), b.text_vaddr = 0,
                       result.status \in {"mod0", "no_mod0"},
                       at # None, at >= HDR_END, at + MOD0_SIZE =< Len(T)
                PROVE  /\ result.status = "mod0" <=> T[at + 1] = MOD0_MAGIC
                       /\ result.status = "mod0" => result.header = SubSeq(T, at + 1, at + MOD0_SIZE)
    BY DEF Mod0Found
  <2>1. BuilderOK /\ Sealable /\ image = ImageOf /\ elf \in Elfs
    BY DEF IInv, FromElfOnly
  <2>2. nro = image /\ result = Mod0Of(SubSeq(B, mod_offset + 1, Len(B)))
    BY Mod0Answer
  <2>3. /\ T = LoadSegments(elf)[1].bytes /\ T \in Seq(Int) /\ B \in Seq(Int) /\ Len(T) =< Len(B)
        /\ \A p \in 1..Len(T) : p \notin (START + 1)..HDR_END => B[p] = T[p]
    BY <2>1, TextBegins
  <2>4. Len(T) >= 8 /\ at = Word(T, 4)
    BY <2>3 DEF Mod0Offset
  <2>5. at \in Nat /\ mod_offset = at
    <3>1. mod_offset = Word(B, 4)
      BY <2>2, BuiltWord
    <3>2. Word(T, 4) >= HDR_END
      BY <2>4
    <3>. HIDE DEF at, T, B
    <3>3. Word(T, 4) \in Nat /\ Word(B, 4) = Word(T, 4)
      BY <2>3, <2>4, <3>2, SameWord
    <3>. QED
      BY <2>4, <3>1, <3>3, Zenon
  <2>. HIDE DEF at, T, B
  <2>6. result = IF T[at + 1] # MOD0_MAGIC THEN [status |-> "no_mod0", error |-> "InvalidMagic"]
                 ELSE [status |-> "mod0", header |-> SubSeq(T, at + 1, at + MOD0_SIZE)]
    <3>1. result = Mod0Of(SubSeq(B, at + 1, Len(B)))
      BY <2>2, <2>5, Zenon
    <3>. QED
      BY <2>3, <2>5, <3>1, SameMod0, Zenon
  <2>. QED
    BY <2>6
<1>. QED
  BY <1>1, <1>2, NextMod0Inv, NroInvariant, PTL DEF Spec
=============================================================================
