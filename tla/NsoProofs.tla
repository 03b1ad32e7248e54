------------------------------ MODULE NsoProofs ------------------------------
(***************************************************************************)
(* Why the NSO accessors may slice without checking: what try_from_bytes   *)
(* proves of a header is an invariant of the reader, for every buffer, for *)
(* every usize, and for images build wrote whatever its offsets became.    *)
(* And why an image that fits in 32 bits gives its segments back: the file *)
(* offsets are the lengths of what was appended, so every stored extent is *)
(* exactly a segment.                                                      *)
(***************************************************************************)
EXTENDS Nso, LayoutLemmas, TLAPS

\* NoPanic is not inductive: an accessor relies on the bounds checked when the
\* reader was made.
IInv ==
  /\ NoPanic
  /\ rpc = "ready" => \A s \in Segments : ~(EndOf(nso, s) > nso.len)

\* A header that try_from_bytes accepts has every stored extent in the buffer.
LEMMA AcceptedInBounds ==
  ASSUME NEW n, HeaderError(n) = "none", NEW s \in Segments
  PROVE  ~(EndOf(n, s) > n.len)
BY DEF HeaderError, OutOfBounds, Segments

\* try_from_bytes establishes the bounds or returns an error.
LEMMA TryFromBytesIInv ==
  ASSUME IInv, NEW n, TryFromBytes(n)
  PROVE  IInv'
<1>1. CASE HeaderError(n) = "none"
  <2>1. nso' = n /\ result' = result
    BY <1>1 DEF TryFromBytes
  <2>2. \A s \in Segments : ~(EndOf(n, s) > n.len)
    BY <1>1, AcceptedInBounds
  <2>. QED
    BY <2>1, <2>2 DEF IInv, NoPanic, EndOf
<1>2. CASE HeaderError(n) # "none"
  <2>1. rpc' = "done" /\ result'.status = "err"
    BY <1>2 DEF TryFromBytes, Err
  <2>. QED
    BY <2>1 DEF IInv, NoPanic
<1>. QED
  BY <1>1, <1>2

\* An accessor that finds its segment in bounds leaves the reader as it was.
LEMMA SliceIInv ==
  ASSUME IInv, NEW s \in Segments, NEW outcome, outcome.status # "panic", Slice(s, outcome)
  PROVE  IInv'
<1>1. ~(EndOf(nso, s) > nso.len)
  BY DEF IInv, Slice
<1>2. result' = outcome /\ rpc' = rpc /\ nso' = nso
  BY <1>1 DEF Slice
<1>. QED
  BY <1>2 DEF IInv, NoPanic, EndOf

\* Steps that are not the reader's leave the invariant alone.
LEMMA UnchangedIInv ==
  ASSUME IInv, UNCHANGED rVars
  PROVE  IInv'
BY DEF IInv, NoPanic, rVars, EndOf

\* Every step of the composition preserves the invariant.
LEMMA NextIInv ==
  ASSUME IInv, [Next]_vars
  PROVE  IInv'
<1>1. CASE rpc = "none" /\ BNext /\ UNCHANGED rVars
  BY <1>1, UnchangedIInv
<1>2. CASE TryFromBytes(image)
  BY <1>2, TryFromBytesIInv
<1>3. CASE ForeignBytes
  BY <1>3, TryFromBytesIInv DEF ForeignBytes
<1>4. CASE ForeignPtr
  BY <1>4, TryFromBytesIInv DEF ForeignPtr, TryFromPtr
<1>5. CASE RNext
  <2>1. PICK s \in Segments : SegmentCompressed(s) \/ SegmentExpanded(s)
    BY <1>5 DEF RNext
  <2>2. CASE SegmentCompressed(s)
    <3>1. Ok(s, FALSE, StoredBytes(s)).status # "panic"
      BY DEF Ok
    <3>. QED
      BY <2>2, <3>1, SliceIInv DEF SegmentCompressed
  <2>3. CASE SegmentExpanded(s)
    <3>. DEFINE outcome == IF Expand(s).status = "ok" THEN Ok(s, TRUE, Expand(s).data) ELSE Err(s)
    <3>1. outcome.status # "panic"
      BY DEF Ok, Err
    <3>2. Slice(s, outcome)
      BY <2>3 DEF SegmentExpanded
    <3>. HIDE DEF outcome
    <3>. QED
      BY <3>1, <3>2, SliceIInv
  <2>. QED
    BY <2>1, <2>2, <2>3
<1>6. CASE UNCHANGED vars
  BY <1>6, UnchangedIInv DEF vars
<1>. QED
  BY <1>1, <1>2, <1>3, <1>4, <1>5, <1>6 DEF Next, Finished

\* For every set of foreign buffers, every codec, every width of u32 and usize:
\* the bounds checked by try_from_bytes hold for as long as the reader lives.
THEOREM NsoInvariant == Spec => []IInv
<1>1. Init => IInv
  BY DEF Init, RInit, NoResult, IInv, NoPanic
<1>2. IInv /\ [Next]_vars => IInv'
  BY NextIInv
<1>. QED
  BY <1>1, <1>2, PTL DEF Spec

\* No accessor of an Nso that exists panics.
THEOREM NsoNoPanic == Spec => []NoPanic
<1>1. IInv => NoPanic
  BY DEF IInv
<1>. QED
  BY <1>1, NsoInvariant, PTL

(***************************************************************************)
(* What build writes, and where                                            *)
(***************************************************************************)
BuilderOK ==
  /\ DOMAIN b = DOMAIN NewBuilder
  /\ b["compress"] \in BOOLEAN
  /\ \A s \in SEGMENTS : b[s] = None \/ b[s] \in Given

\* What a segment is made of: the bytes given, padded, and what is stored of them.
LEMMA SegmentIs ==
  ASSUME BuilderOK, BuildError = "none", NEW s \in SEGMENTS
  PROVE  /\ b[s] \in Given /\ b[s] \in Seq(Int)
         /\ Padded(b[s]) \in Seq(Int) /\ Len(Padded(b[s])) \in Nat
         /\ SegmentBytes(s) \in Seq(Int) /\ Len(SegmentBytes(s)) \in Nat
<1>1. b[s] # None
  BY DEF BuildError, SEGMENTS
<1>2. b[s] \in Given /\ b[s] \in Seq(Int)
  BY <1>1, NsoSettings DEF BuilderOK
<1>3. Padded(b[s]) \in Seq(Int)
  <2>1. Padded(b[s]) = PagePadded(b[s], PAGE)
    BY DEF Padded, PagePadded
  <2>. QED
    BY <1>2, <2>1, PagePaddedIs, ElfUnits
<1>4. SegmentBytes(s) \in Seq(Int)
  BY <1>2, <1>3, Lz4RoundTrip DEF SegmentBytes, BuilderOK
<1>. QED
  BY <1>2, <1>3, <1>4, LenProperties

\* The offset of a segment in the payload.
Skip(s) ==
  CASE s = "text"   -> 0
    [] s = "rodata" -> Len(SegmentBytes("text"))
    [] s = "data"   -> Len(SegmentBytes("text")) + Len(SegmentBytes("rodata"))

LEMMA PayloadIs ==
  ASSUME BuilderOK, BuildError = "none"
  PROVE  /\ Payload \in Seq(Int) /\ Len(Payload) \in Nat
         /\ \A s \in SEGMENTS : LiesAt(Payload, Skip(s), SegmentBytes(s))
<1>. DEFINE t == SegmentBytes("text")
            r == SegmentBytes("rodata")
            d == SegmentBytes("data")
            tr == t \o r
<1>1. t \in Seq(Int) /\ r \in Seq(Int) /\ d \in Seq(Int)
  BY SegmentIs DEF SEGMENTS
<1>2. Payload = tr \o d
  BY DEF Payload
<1>3. Skip("text") = 0 /\ Skip("rodata") = Len(t) /\ Skip("data") = Len(t) + Len(r)
  BY DEF Skip
<1>. HIDE DEF t, r, d
<1>4. tr \in Seq(Int) /\ Len(tr) = Len(t) + Len(r) /\ LiesAt(tr, 0, t) /\ LiesAt(tr, Len(t), r)
  BY <1>1, LiesAppended
<1>. HIDE DEF tr
<1>5. Payload \in Seq(Int) /\ LiesAt(Payload, 0, tr) /\ LiesAt(Payload, Len(tr), d)
  BY <1>1, <1>2, <1>4, LiesAppended
<1>6. LiesAt(Payload, 0, t) /\ LiesAt(Payload, Len(t), r)
  BY <1>1, <1>4, <1>5, LiesInPrefix
<1>7. LiesAt(Payload, Len(t) + Len(r), d)
  BY <1>4, <1>5
<1>8. Len(Payload) \in Nat
  BY <1>5, LenProperties
<1>. QED
  BY <1>3, <1>5, <1>6, <1>7, <1>8 DEF SEGMENTS, t, r, d

\* In an image that fits no field wraps: each names its segment's extent.
LEMMA ExtentIs ==
  ASSUME BuilderOK, BuildError = "none", image = ImageOf, Fits, NEW s \in SEGMENTS
  PROVE  /\ image.len = HEADER_SIZE + Len(Payload) /\ image.len \in Nat
         /\ image.segments[s].file_offset = HEADER_SIZE + Skip(s) /\ Skip(s) \in Nat
         /\ image.segments[s].file_size = Len(SegmentBytes(s))
         /\ image.segments[s].size = Len(Padded(b[s]))
         /\ ~(EndOf(image, s) > image.len) /\ ~OutOfBounds(image, s)
<1>. DEFINE lt == Len(SegmentBytes("text"))
            lr == Len(SegmentBytes("rodata"))
            ld == Len(SegmentBytes("data"))
            p == Len(Payload)
<1>1. U32 \in Nat \ {0} /\ USIZE_MAX \in Nat /\ U32 =< USIZE_MAX
  BY ElfUnits, NsoSettings
<1>2. image.len = HEADER_SIZE + p /\ p \in Nat /\ HEADER_SIZE + p < U32
  BY PayloadIs DEF Fits, ImageOf
<1>3. lt \in Nat /\ lr \in Nat /\ ld \in Nat
  BY SegmentIs DEF SEGMENTS
<1>4. lt + lr + ld =< p
  <2>1. LiesAt(Payload, Skip("data"), SegmentBytes("data"))
    BY PayloadIs DEF SEGMENTS
  <2>. QED
    BY <2>1 DEF LiesAt, Skip
<1>. HIDE DEF lt, lr, ld, p
<1>5. \A x \in 0..(U32 - 1) : x % U32 = x
  <2>. SUFFICES ASSUME NEW x \in 0..(U32 - 1) PROVE x % U32 = x
    OBVIOUS
  <2>1. 0 \in Nat /\ 0 * U32 + x = x
    BY <1>1
  <2>. QED
    BY <1>1, <2>1, DivModUnique
<1>6. HEADER_SIZE \in Nat
  BY DEF HEADER_SIZE
<1>7. /\ lt \in 0..(U32 - 1) /\ lr \in 0..(U32 - 1) /\ ld \in 0..(U32 - 1)
      /\ HEADER_SIZE \in 0..(U32 - 1) /\ HEADER_SIZE + lt \in 0..(U32 - 1) /\ (HEADER_SIZE + lt) + lr \in 0..(U32 - 1)
  BY <1>1, <1>2, <1>3, <1>4, <1>6
<1>8. StoredLen("text") = lt /\ StoredLen("rodata") = lr /\ StoredLen("data") = ld
  BY <1>5, <1>7 DEF StoredLen, lt, lr, ld
<1>9. /\ FileOffset("text") = HEADER_SIZE /\ FileOffset("rodata") = HEADER_SIZE + lt
      /\ FileOffset("data") = (HEADER_SIZE + lt) + lr
  <2>1. (HEADER_SIZE + lt) % U32 = HEADER_SIZE + lt
    BY <1>5, <1>7
  <2>. QED
    BY <1>8, <2>1 DEF FileOffset
<1>10. Skip("text") = 0 /\ Skip("rodata") = lt /\ Skip("data") = lt + lr
  BY DEF Skip, lt, lr
<1>11. image.segments[s].file_offset = FileOffset(s) % U32 /\ image.segments[s].file_size = StoredLen(s)
       /\ image.segments[s].size = Len(Padded(b[s])) % U32
  BY DEF ImageOf
<1>12. Len(Padded(b[s])) % U32 = Len(Padded(b[s]))
  <2>1. Len(Padded(b[s])) \in 0..(U32 - 1)
    BY <1>1, SegmentIs DEF Fits
  <2>. QED
    BY <1>5, <2>1
<1>13. /\ FileOffset(s) % U32 = HEADER_SIZE + Skip(s) /\ Skip(s) \in Nat /\ StoredLen(s) = Len(SegmentBytes(s))
       /\ (HEADER_SIZE + Skip(s)) + StoredLen(s) =< HEADER_SIZE + p
  <2>1. CASE s = "text"
    BY <1>2, <1>3, <1>4, <1>5, <1>6, <1>7, <1>8, <1>9, <1>10, <2>1, SMTT(60) DEF lt
  <2>2. CASE s = "rodata"
    BY <1>2, <1>3, <1>4, <1>5, <1>6, <1>7, <1>8, <1>9, <1>10, <2>2, SMTT(60) DEF lr
  <2>3. CASE s = "data"
    <3>1. Skip(s) \in Nat /\ HEADER_SIZE + Skip(s) = (HEADER_SIZE + lt) + lr
      BY <1>3, <1>6, <1>10, <2>3
    <3>2. FileOffset(s) % U32 = (HEADER_SIZE + lt) + lr
      BY <1>5, <1>7, <1>9, <2>3
    <3>3. StoredLen(s) = ld
      BY <1>8, <2>3
    <3>4. ld = Len(SegmentBytes(s))
      BY <2>3 DEF ld
    <3>. QED
      BY <1>2, <1>3, <1>4, <1>6, <3>1, <3>2, <3>3, <3>4
  <2>. QED
    BY <2>1, <2>2, <2>3 DEF SEGMENTS
<1>14. EndOf(image, s) = (HEADER_SIZE + Skip(s)) + StoredLen(s)
  BY <1>11, <1>13 DEF EndOf
<1>15. StoredLen(s) \in Nat
  BY <1>13, SegmentIs
<1>16. ~(EndOf(image, s) > image.len) /\ ~(EndOf(image, s) > USIZE_MAX) /\ image.len \in Nat
  BY <1>1, <1>2, <1>6, <1>13, <1>14, <1>15
<1>. QED
  BY <1>2, <1>11, <1>12, <1>13, <1>16 DEF p, OutOfBounds

\* try_from_bytes accepts it.
LEMMA BuiltAccepted ==
  ASSUME BuilderOK, BuildError = "none", image = ImageOf, Fits
  PROVE  HeaderError(image) = "none"
<1>1. ~OutOfBounds(image, "text") /\ ~OutOfBounds(image, "rodata") /\ ~OutOfBounds(image, "data")
  BY ExtentIs DEF SEGMENTS
<1>2. image.magic = HEADER_MAGIC
  BY DEF ImageOf, NSO_MAGIC, HEADER_MAGIC
<1>3. ~(image.len < NSO_HEADER_SIZE)
  BY PayloadIs DEF ImageOf, HEADER_SIZE, NSO_HEADER_SIZE
<1>. QED
  BY <1>1, <1>2, <1>3 DEF HeaderError

\* The accessors slice what was stored, and expand it to what was padded.
LEMMA StoredComesBack ==
  ASSUME BuilderOK, BuildError = "none", image = ImageOf, Fits, nso = image, NEW s \in SEGMENTS
  PROVE  StoredBytes(s) = SegmentBytes(s)
<1>. DEFINE m == Len(SegmentBytes(s))
            o == Skip(s)
<1>1. /\ image.segments[s].file_offset = HEADER_SIZE + o /\ o \in Nat /\ image.segments[s].file_size = m
  BY ExtentIs
<1>2. SegmentBytes(s) \in Seq(Int) /\ m \in Nat
  BY SegmentIs
<1>3. \A k \in 1..m : Payload[o + k] = SegmentBytes(s)[k]
  BY PayloadIs DEF LiesAt
<1>4. image.payload = Payload
  BY DEF ImageOf
<1>. HIDE DEF m, o
<1>5. ASSUME NEW k \in 1..m PROVE ByteAt((HEADER_SIZE + o) + k - 1) = SegmentBytes(s)[k]
  <2>. DEFINE i == (HEADER_SIZE + o) + k - 1
  <2>1. i = 256 + o + k - 1 /\ ~(i < 256) /\ (i - 256) + 1 = o + k
    BY <1>1, <1>2 DEF HEADER_SIZE
  <2>. HIDE DEF i
  <2>2. ByteAt(i) = Payload[o + k]
    BY <1>4, <2>1 DEF ByteAt, NSO_HEADER_SIZE
  <2>. QED
    BY <1>3, <2>2 DEF i
<1>6. StoredBytes(s) = [k \in 1..m |-> ByteAt((HEADER_SIZE + o) + k - 1)]
  BY <1>1 DEF StoredBytes
<1>7. StoredBytes(s) = [k \in 1..m |-> SegmentBytes(s)[k]]
  BY <1>5, <1>6
<1>8. SegmentBytes(s) = [k \in 1..m |-> SegmentBytes(s)[k]]
  BY <1>2 DEF m
<1>. QED
  BY <1>7, <1>8

LEMMA ExpandComesBack ==
  ASSUME BuilderOK, BuildError = "none", image = ImageOf, Fits, nso = image, NEW s \in SEGMENTS
  PROVE  Expand(s) = [status |-> "ok", data |-> Padded(b[s])]
<1>1. StoredBytes(s) = SegmentBytes(s) /\ nso.segments[s].size = Len(Padded(b[s]))
  BY StoredComesBack, ExtentIs
<1>2. s \in nso.flags.compressed <=> b["compress"]
  BY DEF ImageOf, BuilderOK
<1>3. CASE b["compress"]
  BY <1>1, <1>2, <1>3, SegmentIs, Lz4RoundTrip DEF Expand, SegmentBytes
<1>4. CASE ~b["compress"]
  BY <1>1, <1>2, <1>4 DEF Expand, SegmentBytes
<1>. QED
  BY <1>3, <1>4

(***************************************************************************)
(* The invariant behind SegmentsComeBack                                   *)
(***************************************************************************)
\* Accepted, and every answer so far is the segment it names.
Answers ==
  /\ result.status \notin {"err", "panic"}
  /\ result.status = "ok" =>
       /\ result.expanded => result.data = Padded(b[result.segment])
       /\ result.expanded => Hash(result.data) = nso.segments[result.segment].hash
       /\ ~result.expanded => result.data = SegmentBytes(result.segment)

\* What was answered depends on the image being the builder's, and on the reader
\* reading that image.
BuiltInv ==
  /\ BuilderOK
  /\ elf = None \/ elf \in Elfs
  /\ phase = "built" => BuildError = "none" /\ image = ImageOf
  /\ rpc = "none" => result = NoResult
  /\ phase = "built" /\ rpc # "none" => nso = image
  /\ phase = "built" /\ Fits => Answers

LEMMA NoAnswer ==
  ASSUME result = NoResult PROVE Answers
  BY DEF Answers, NoResult

\* A setter or an ELF fills the builder with what it may be given.
LEMMA SetFieldOK ==
  ASSUME BuilderOK, NEW f \in DOMAIN Settings, NEW v \in Settings[f], SetField(f, v)
  PROVE  BuilderOK'
<1>1. b' = [b EXCEPT ![f] = v] /\ f \in DOMAIN b /\ DOMAIN b = DOMAIN NewBuilder
  BY NsoSettings DEF SetField, BuilderOK
<1>2. DOMAIN b' = DOMAIN NewBuilder
  BY <1>1
<1>3. "compress" \in DOMAIN NewBuilder /\ \A s \in SEGMENTS : s \in DOMAIN NewBuilder
  BY DEF NewBuilder, SEGMENTS
<1>4. b'["compress"] \in BOOLEAN
  BY <1>1, <1>3, NsoSettings DEF BuilderOK
<1>5. ASSUME NEW s \in SEGMENTS PROVE b'[s] = None \/ b'[s] \in Given
  <2>1. CASE f = s
    BY <1>1, <1>3, <2>1 DEF Given
  <2>2. CASE f # s
    BY <1>1, <1>3, <2>2 DEF BuilderOK
  <2>. QED
    BY <2>1, <2>2
<1>. QED
  BY <1>2, <1>4, <1>5 DEF BuilderOK

ElfSegment == [load : BOOLEAN, readable : BOOLEAN, addr : 0..(U64 - 1), bytes : Seq(Int), memsz : 0..(U64 - 1)]

\* What an ELF that parses has as its first three segments.
LEMMA ElfBytes ==
  ASSUME NEW e \in Elfs, ParseError(e) = "none"
  PROVE  \A k \in 1..3 : LoadSegments(e)[k].bytes \in Given
<1>. DEFINE S == Loads(e)
            n == Cardinality(S)
            segs == e.segments
<1>1. segs \in Seq(ElfSegment) /\ S \in SUBSET DOMAIN segs /\ \A t \in ElfSegment : t.addr \in Nat
  <2>1. \A t \in ElfSegment : t.addr \in 0..(U64 - 1)
    BY DEF ElfSegment
  <2>2. segs \in Seq(ElfSegment)
    BY ElfsSupplied DEF ElfSegment
  <2>3. S \in SUBSET DOMAIN segs
    BY DEF Loads, PtLoads
  <2>. QED
    BY <2>1, <2>2, <2>3, ElfUnits
<1>2. LoadSegments(e) = [k \in 1..n |-> segs[PlaceIn(segs, S, k)]]
  BY DEF LoadSegments, PlaceIn, Before, Precedes
<1>. HIDE DEF S, segs
<1>3. n \in Nat /\ \A k \in 1..n : PlaceIn(segs, S, k) \in S
  BY <1>1, AddressOrder
<1>4. n >= 3
  <2>1. Len(LoadSegments(e)) # 0 /\ Len(LoadSegments(e)) # 1 /\ Len(LoadSegments(e)) # 2
    BY DEF ParseError
  <2>. HIDE DEF n
  <2>2. Len(LoadSegments(e)) = n
    BY <1>2, <1>3
  <2>. QED
    BY <1>3, <2>1, <2>2
<1>5. ASSUME NEW k \in 1..3 PROVE LoadSegments(e)[k].bytes \in Given
  <2>1. k \in 1..n
    BY <1>3, <1>4
  <2>2. LoadSegments(e)[k] = segs[PlaceIn(segs, S, k)] /\ PlaceIn(segs, S, k) \in DOMAIN segs
    BY <1>1, <1>2, <1>3, <2>1
  <2>. DEFINE x == PlaceIn(segs, S, k)
  <2>. HIDE DEF x
  <2>3. x \in DOMAIN e.segments /\ LoadSegments(e)[k] = e.segments[x]
    BY <2>2 DEF segs, x
  <2>4. e.segments[x].bytes \in {e.segments[i].bytes : i \in DOMAIN e.segments}
    BY <2>3, Zenon
  <2>5. e.segments[x].bytes \in ElfBytesGiven
    BY <2>4, Zenon DEF ElfBytesGiven
  <2>6. e.segments[x].bytes \in Given
    BY <2>5, Zenon DEF Given
  <2>. QED
    BY <2>3, <2>6, Zenon
<1>. QED
  BY <1>5

LEMMA FromElfOK ==
  ASSUME BuilderOK, NEW e \in Elfs, FromElf(e)
  PROVE  BuilderOK' /\ (elf' = elf \/ elf' \in Elfs)
<1>1. CASE ParseError(e) # "none"
  BY <1>1 DEF FromElf, BuilderOK
<1>2. CASE ParseError(e) = "none"
  <2>1. /\ elf' = e
        /\ b' = [f \in DOMAIN NewBuilder |->
                   IF f \in DOMAIN BuilderFields(e) THEN BuilderFields(e)[f]
                   ELSE IF f = "module_id" THEN BuildIdOf(e) ELSE NewBuilder[f]]
    BY <1>2 DEF FromElf
  <2>2. /\ DOMAIN BuilderFields(e) = {"text", "text_vaddr", "rodata", "rodata_vaddr", "data", "data_vaddr", "bss_size"}
        /\ BuilderFields(e)["text"] = LoadSegments(e)[1].bytes
        /\ BuilderFields(e)["rodata"] = LoadSegments(e)[2].bytes
        /\ BuilderFields(e)["data"] = LoadSegments(e)[3].bytes
    BY DEF BuilderFields
  <2>3. /\ "compress" \in DOMAIN NewBuilder /\ NewBuilder["compress"] = TRUE
        /\ \A s \in SEGMENTS : s \in DOMAIN NewBuilder
    BY DEF NewBuilder, SEGMENTS
  <2>4. DOMAIN b' = DOMAIN NewBuilder
    BY <2>1
  <2>5. b'["compress"] = TRUE
    BY <2>1, <2>2, <2>3
  <2>6. \A s \in SEGMENTS : b'[s] = BuilderFields(e)[s]
    BY <2>1, <2>2, <2>3 DEF SEGMENTS
  <2>7. \A s \in SEGMENTS : b'[s] \in Given
    <3>1. /\ LoadSegments(e)[1].bytes \in Given /\ LoadSegments(e)[2].bytes \in Given
          /\ LoadSegments(e)[3].bytes \in Given
      BY <1>2, ElfBytes
    <3>. QED
      BY <2>2, <2>6, <3>1 DEF SEGMENTS
  <2>. QED
    BY <2>1, <2>4, <2>5, <2>7 DEF BuilderOK
<1>. QED
  BY <1>1, <1>2

LEMMA InitBuiltInv == Init => BuiltInv
<1>. SUFFICES ASSUME Init PROVE BuiltInv
  OBVIOUS
<1>1. BuilderOK
  BY DEF Init, BInit, BuilderOK, NewBuilder, SEGMENTS
<1>. QED
  BY <1>1 DEF Init, BInit, RInit, BuiltInv

LEMMA BNextBuiltInv ==
  ASSUME BuiltInv, rpc = "none", BNext, UNCHANGED rVars
  PROVE  BuiltInv'
<1>1. rpc' = rpc /\ result' = NoResult /\ nso' = nso
  BY DEF BuiltInv, rVars
<1>2. Answers'
  BY <1>1, NoAnswer DEF Answers, NoResult
<1>3. ASSUME BuilderOK', elf' = None \/ elf' \in Elfs, phase' # "built" PROVE BuiltInv'
  BY <1>1, <1>3 DEF BuiltInv
<1>4. ASSUME NEW f \in DOMAIN Settings, NEW v \in Settings[f], SetField(f, v) PROVE BuiltInv'
  BY <1>3, <1>4, SetFieldOK DEF BuiltInv, SetField
<1>5. ASSUME NEW e \in Elfs, FromElf(e) PROVE BuiltInv'
  <2>1. phase' # "built"
    BY <1>5 DEF FromElf, ParseError
  <2>. QED
    BY <1>3, <1>5, <2>1, FromElfOK DEF BuiltInv
<1>6. CASE Build
  <2>1. phase' = "built" /\ image' = ImageOf /\ b' = b /\ elf' = elf /\ BuildError = "none"
    BY <1>6 DEF Build
  <2>2. BuilderOK' /\ BuildError' = "none" /\ ImageOf' = ImageOf
    BY <2>1 DEF BuiltInv, BuilderOK, BuildError, ImageOf, Payload, FileOffset, StoredLen, SegmentBytes
  <2>. QED
    BY <1>1, <1>2, <2>1, <2>2 DEF BuiltInv
<1>7. CASE BuildFails \/ BuildOverflows
  <2>1. phase' # "built" /\ b' = b /\ elf' = elf
    BY <1>7 DEF BuildFails, BuildOverflows, BuildError
  <2>2. BuilderOK'
    BY <2>1 DEF BuiltInv, BuilderOK
  <2>. QED
    BY <1>3, <2>1, <2>2 DEF BuiltInv
<1>. QED
  BY <1>4, <1>5, <1>6, <1>7 DEF BNext

\* While the builder rests, what it holds and describes stays.
LEMMA SameBuilder ==
  ASSUME BuiltInv, UNCHANGED bVars
  PROVE  /\ phase' = phase /\ b' = b /\ image' = image /\ elf' = elf
         /\ BuilderOK' /\ (Fits' <=> Fits)
         /\ phase' = "built" => BuildError' = "none" /\ image' = ImageOf'
         /\ \A s : SegmentBytes(s)' = SegmentBytes(s)
<1>1. phase' = phase /\ b' = b /\ image' = image /\ elf' = elf
  BY DEF bVars
<1>. QED
  BY <1>1, ZenonT(60) DEF BuiltInv, BuilderOK, Fits, BuildError, ImageOf, Payload, FileOffset, StoredLen, SegmentBytes

LEMMA TryBuiltInv ==
  ASSUME BuiltInv, UNCHANGED bVars, NEW n, TryFromBytes(n), phase = "built" => n = image
  PROVE  BuiltInv'
<1>1. result = NoResult /\ nso' = n /\ rpc' # "none"
  BY DEF BuiltInv, TryFromBytes
<1>2. ASSUME phase = "built", Fits PROVE Answers'
  <2>1. HeaderError(n) = "none"
    BY <1>2, BuiltAccepted DEF BuiltInv
  <2>2. result' = NoResult
    BY <1>1, <2>1 DEF TryFromBytes
  <2>. QED
    BY <2>2 DEF Answers, NoResult
<1>. QED
  BY <1>1, <1>2, SameBuilder DEF BuiltInv

LEMMA ReadBuiltInv ==
  ASSUME BuiltInv, UNCHANGED bVars, RNext
  PROVE  BuiltInv'
<1>1. rpc # "none" /\ nso' = nso /\ rpc' # "none"
  BY DEF RNext, SegmentCompressed, SegmentExpanded, Slice
<1>2. ASSUME phase = "built", Fits PROVE Answers'
  <2>0. BuilderOK /\ BuildError = "none" /\ image = ImageOf /\ nso = image /\ SEGMENTS = Segments
    BY <1>1, <1>2 DEF BuiltInv, SEGMENTS, Segments
  <2>1. PICK s \in SEGMENTS : SegmentCompressed(s) \/ SegmentExpanded(s)
    BY <2>0 DEF RNext
  <2>2. ~(EndOf(nso, s) > nso.len)
    BY <1>2, <2>0, ExtentIs
  <2>3. b' = b /\ SegmentBytes(s)' = SegmentBytes(s)
    BY SameBuilder
  <2>4. CASE SegmentCompressed(s)
    <3>1. result' = Ok(s, FALSE, SegmentBytes(s))
      BY <1>2, <2>0, <2>2, <2>4, StoredComesBack DEF SegmentCompressed, Slice
    <3>2. result'.status = "ok" /\ result'.segment = s /\ ~result'.expanded /\ result'.data = SegmentBytes(s)
      BY <3>1 DEF Ok
    <3>. QED
      BY <2>3, <3>2 DEF Answers
  <2>5. CASE SegmentExpanded(s)
    <3>1. Expand(s).status = "ok" /\ Expand(s).data = Padded(b[s])
      BY <1>2, <2>0, ExpandComesBack
    <3>2. result' = Ok(s, TRUE, Padded(b[s]))
      BY <2>2, <2>5, <3>1 DEF SegmentExpanded, Slice
    <3>3. result'.status = "ok" /\ result'.segment = s /\ result'.expanded /\ result'.data = Padded(b[s])
      BY <3>2 DEF Ok
    <3>4. nso'.segments[s].hash = Hash(Padded(b[s]))
      BY <1>1, <2>0 DEF ImageOf
    <3>. QED
      BY <2>3, <3>3, <3>4 DEF Answers
  <2>. QED
    BY <2>1, <2>4, <2>5
<1>. QED
  BY <1>1, <1>2, SameBuilder DEF BuiltInv

LEMMA NextBuiltInv == BuiltInv /\ [Next]_vars => BuiltInv'
<1>. SUFFICES ASSUME BuiltInv, [Next]_vars PROVE BuiltInv'
  OBVIOUS
<1>1. CASE rpc = "none" /\ BNext /\ UNCHANGED rVars
  BY <1>1, BNextBuiltInv
<1>2. CASE phase = "built" /\ TryFromBytes(image) /\ UNCHANGED bVars
  BY <1>2, TryBuiltInv
<1>3. CASE phase = "set" /\ (ForeignBytes \/ ForeignPtr) /\ UNCHANGED bVars
  <2>1. phase # "built"
    BY <1>3
  <2>. QED
    BY <1>3, <2>1, TryBuiltInv DEF ForeignBytes, ForeignPtr, TryFromPtr
<1>4. CASE RNext /\ UNCHANGED bVars
  BY <1>4, ReadBuiltInv
<1>5. CASE UNCHANGED vars
  <2>1. UNCHANGED bVars /\ UNCHANGED rVars
    BY <1>5 DEF vars
  <2>2. rpc' = rpc /\ nso' = nso /\ result' = result
    BY <2>1 DEF rVars
  <2>3. Answers => Answers'
    BY <2>1, <2>2, SameBuilder DEF Answers
  <2>. QED
    BY <2>1, <2>2, <2>3, SameBuilder DEF BuiltInv
<1>. QED
  BY <1>1, <1>2, <1>3, <1>4, <1>5 DEF Next, Finished

(***************************************************************************)
(* An image built from an ELF                                              *)
(***************************************************************************)
\* While no other header comes before a PT_LOAD one, every segment is taken.
LEMMA AllTaken ==
  ASSUME NEW e \in Elfs, WellLaid(e)
  PROVE  Loads(e) = PtLoads(e)
<1>1. PtLoads(e) \in SUBSET (Nat \ {0})
  <2>1. e.segments \in Seq(ElfSegment)
    BY ElfsSupplied DEF ElfSegment
  <2>2. DOMAIN e.segments \in SUBSET (Nat \ {0})
    BY <2>1
  <2>. QED
    BY <2>2, Zenon DEF PtLoads
<1>2. ASSUME NEW i \in PtLoads(e) PROVE e.segments[Turn(e, i)].load
  <2>1. \A j \in 1..i : e.segments[j].load
    BY DEF WellLaid
  <2>2. i \in Nat \ {0} /\ i \in DOMAIN e.segments
    BY <1>1 DEF PtLoads
  <2>3. 1..i \in SUBSET PtLoads(e)
    <3>1. e.segments \in Seq(ElfSegment)
      BY ElfsSupplied DEF ElfSegment
    <3>2. 1..i \in SUBSET DOMAIN e.segments
      BY <2>2, <3>1
    <3>. QED
      BY <2>1, <3>2, Zenon DEF PtLoads
  <2>4. Turn(e, i) = i
    BY <1>1, <2>2, <2>3, LeadingTurn, Zenon DEF Turn
  <2>. QED
    BY <2>4 DEF PtLoads
<1>. QED
  BY <1>2, Zenon DEF Loads

\* The segments of an ELF that is laid out well, in order of address.
LEMMA WellLaidSegments ==
  ASSUME NEW e \in Elfs, WellLaid(e)
  PROVE  LET n == Cardinality(Loads(e))
             L == LoadSegments(e)
         IN  /\ n \in {3, 4} /\ DOMAIN L = 1..n /\ Len(L) = n
             /\ LaidInOrder(L, n, PAGE, U32, U64)
             /\ \A i \in Loads(e) : \E k \in 1..n : e.segments[i] = L[k]
<1>. DEFINE S == Loads(e)
            n == Cardinality(S)
            segs == e.segments
            L == [k \in 1..n |-> segs[PlaceIn(segs, S, k)]]
<1>1. LoadSegments(e) = L
  BY DEF LoadSegments, PlaceIn, Before, Precedes
<1>2. /\ segs \in Seq(ElfSegment) /\ S \in SUBSET DOMAIN segs
      /\ \A t \in ElfSegment : t.addr \in Nat /\ t.memsz \in Nat /\ t.bytes \in Seq(Int)
  <2>1. \A t \in ElfSegment : t.addr \in 0..(U64 - 1) /\ t.memsz \in 0..(U64 - 1) /\ t.bytes \in Seq(Int)
    BY DEF ElfSegment
  <2>2. segs \in Seq(ElfSegment)
    BY ElfsSupplied DEF ElfSegment
  <2>3. S \in SUBSET DOMAIN segs
    BY DEF Loads, PtLoads
  <2>4. \A x \in 0..(U64 - 1) : x \in Nat
    BY ElfUnits
  <2>. QED
    BY <2>1, <2>2, <2>3, <2>4
<1>3. /\ \A i \in S : Len(segs[i].bytes) =< segs[i].memsz /\ segs[i].addr + segs[i].memsz + PAGE =< U32
      /\ \A i, j \in S : i # j => (segs[i].addr < segs[j].addr /\ segs[i].addr + segs[i].memsz =< segs[j].addr)
                                  \/ (segs[j].addr < segs[i].addr /\ segs[j].addr + segs[j].memsz =< segs[i].addr)
      /\ n = 3 \/ n = 4
      /\ n # 3 =>
           \E bss, data \in S :
             /\ data # bss /\ \A i \in S \ {bss} : segs[i].addr =< segs[data].addr /\ segs[i].addr < segs[bss].addr
             /\ segs[bss].bytes = <<>>
             /\ segs[bss].addr =< segs[data].addr + RoundedUp(Len(segs[data].bytes), PAGE, U64)
  BY AllTaken, SMTT(30) DEF WellLaid, RoundUp, RoundedUp
<1>. HIDE DEF S, segs
<1>4. /\ n \in {3, 4} /\ DOMAIN L = 1..n /\ Len(L) = n
      /\ LaidInOrder(L, n, PAGE, U32, U64)
      /\ \A i \in S : \E k \in 1..n : segs[i] = L[k]
  BY <1>2, <1>3, ApartInOrder, ZenonT(60) DEF LaidInOrder
<1>. HIDE DEF L
<1>. QED
  BY <1>1, <1>4 DEF S, segs

\* A builder an ELF filled describes every segment by its own address and size.
LEMMA ElfLayout ==
  ASSUME BuilderOK, BuildError = "none", image = ImageOf, Fits, elf \in Elfs, FromElfOnly, WellLaid(elf)
  PROVE  LET L == LoadSegments(elf)
             rounded(k) == RoundedUp(Len(L[k].bytes), PAGE, U64)
             seg(s) == image.segments[s]
         IN  /\ seg("text").memory_offset = L[1].addr /\ seg("text").size = rounded(1)
             /\ Padded(b["text"]) = PagePadded(L[1].bytes, PAGE)
             /\ seg("rodata").memory_offset = L[2].addr /\ seg("rodata").size = rounded(2)
             /\ Padded(b["rodata"]) = PagePadded(L[2].bytes, PAGE)
             /\ seg("data").memory_offset = L[3].addr /\ seg("data").size = rounded(3)
             /\ Padded(b["data"]) = PagePadded(L[3].bytes, PAGE)
             /\ image.bss_size = BssSize(elf) % U32
<1>. DEFINE L == LoadSegments(elf)
            n == Cardinality(Loads(elf))
<1>1. /\ DOMAIN BuilderFields(elf) = {"text", "text_vaddr", "rodata", "rodata_vaddr", "data", "data_vaddr", "bss_size"}
      /\ BuilderFields(elf)["text"] = L[1].bytes /\ BuilderFields(elf)["text_vaddr"] = L[1].addr % U32
      /\ BuilderFields(elf)["rodata"] = L[2].bytes /\ BuilderFields(elf)["rodata_vaddr"] = L[2].addr % U32
      /\ BuilderFields(elf)["data"] = L[3].bytes /\ BuilderFields(elf)["data_vaddr"] = L[3].addr % U32
      /\ BuilderFields(elf)["bss_size"] = BssSize(elf) % U32
  BY DEF BuilderFields
<1>2. n \in {3, 4} /\ LaidInOrder(L, n, PAGE, U32, U64)
  BY WellLaidSegments
<1>. HIDE DEF L, n
<1>3. /\ b["text"] = L[1].bytes /\ b["text_vaddr"] = L[1].addr % U32
      /\ b["rodata"] = L[2].bytes /\ b["rodata_vaddr"] = L[2].addr % U32
      /\ b["data"] = L[3].bytes /\ b["data_vaddr"] = L[3].addr % U32
      /\ b["bss_size"] = BssSize(elf) % U32
  BY <1>1 DEF FromElfOnly
<1>4. ASSUME NEW k \in 1..3
      PROVE  /\ L[k].addr % U32 = L[k].addr
             /\ Padded(L[k].bytes) = PagePadded(L[k].bytes, PAGE)
             /\ Len(Padded(L[k].bytes)) % U32 = RoundedUp(Len(L[k].bytes), PAGE, U64)
  <2>. DEFINE u == L[k].bytes
              v == L[k].addr
  <2>1. u \in Seq(Int) /\ Len(u) \in 0..L[k].memsz /\ v \in Nat /\ L[k].memsz \in Nat /\ v + L[k].memsz + PAGE =< U32
    BY <1>2 DEF LaidInOrder
  <2>. HIDE DEF u, v
  <2>2. PAGE \in Nat \ {0} /\ U32 \in Nat \ {0} /\ U64 \in Nat \ {0} /\ U32 =< U64 /\ Len(u) \in Nat /\ Len(u) + PAGE =< U32
    BY <2>1, ElfUnits, SMTT(60)
  <2>3. v \in 0..(U32 - 1) /\ 0 * U32 + v = v /\ 0 \in Nat
    BY <2>1, <2>2
  <2>4. v % U32 = v
    BY <2>2, <2>3, DivModUnique
  <2>5. Padded(u) = PagePadded(u, PAGE)
    BY DEF Padded, PagePadded
  <2>6. Len(PagePadded(u, PAGE)) = ((Len(u) + PAGE - 1) \div PAGE) * PAGE
    BY <2>1, <2>2, PagePaddedIs
  <2>7. /\ RoundedUp(Len(u), PAGE, U64) = ((Len(u) + PAGE - 1) \div PAGE) * PAGE
        /\ RoundedUp(Len(u), PAGE, U64) % U32 = RoundedUp(Len(u), PAGE, U64)
    BY <2>2, RoundedUpIs, ZenonT(60)
  <2>. QED
    BY <2>4, <2>5, <2>6, <2>7 DEF u, v
<1>5. /\ image.segments["text"].memory_offset = b["text_vaddr"] /\ image.segments["text"].size = Len(Padded(b["text"])) % U32
      /\ image.segments["rodata"].memory_offset = b["rodata_vaddr"] /\ image.segments["rodata"].size = Len(Padded(b["rodata"])) % U32
      /\ image.segments["data"].memory_offset = b["data_vaddr"] /\ image.segments["data"].size = Len(Padded(b["data"])) % U32
      /\ image.bss_size = b["bss_size"]
  <2>1. "text" \in SEGMENTS /\ "rodata" \in SEGMENTS /\ "data" \in SEGMENTS
    BY DEF SEGMENTS
  <2>. QED
    BY <2>1 DEF ImageOf
<1>6. 1 \in 1..3 /\ 2 \in 1..3 /\ 3 \in 1..3
  OBVIOUS
<1>. QED
  BY <1>3, <1>4, <1>5, <1>6 DEF L

\* A loader finds at an address what the last of the segments written over it has.
LEMMA MemoryIs ==
  ASSUME BuilderOK, BuildError = "none", image = ImageOf, Fits, elf \in Elfs, FromElfOnly, WellLaid(elf),
         NEW a \in Nat
  PROVE  Memory(a) = LoadedByte(LoadSegments(elf), PAGE, U64, a)
<1>. DEFINE L == LoadSegments(elf)
            n == Cardinality(Loads(elf))
            off(s) == image.segments[s].memory_offset
            size(s) == image.segments[s].size
            pad(s) == Padded(b[s])
            R(k) == RoundedUp(Len(L[k].bytes), PAGE, U64)
            C(k) == a \in L[k].addr..(L[k].addr + R(k) - 1)
            P(k) == PagePadded(L[k].bytes, PAGE)[a - L[k].addr + 1]
            covers(s) == a \in off(s)..(off(s) + size(s) - 1)
            over == {s \in SEGMENTS : covers(s)}
            top == CHOOSE s \in over : \A t \in over : off(t) =< off(s)
<1>1. SEGMENTS = {"text", "rodata", "data"}
  BY DEF SEGMENTS
<1>2. /\ off("text") = L[1].addr /\ off("rodata") = L[2].addr /\ off("data") = L[3].addr
      /\ size("text") = R(1) /\ size("rodata") = R(2) /\ size("data") = R(3)
      /\ pad("text") = PagePadded(L[1].bytes, PAGE) /\ pad("rodata") = PagePadded(L[2].bytes, PAGE)
      /\ pad("data") = PagePadded(L[3].bytes, PAGE)
  BY ElfLayout
<1>3. L[1].addr \in Nat /\ L[2].addr \in Nat /\ L[3].addr \in Nat /\ L[1].addr < L[2].addr /\ L[2].addr < L[3].addr
  <2>1. n \in {3, 4} /\ LaidInOrder(L, n, PAGE, U32, U64)
    BY WellLaidSegments
  <2>. HIDE DEF L, n
  <2>. QED
    BY <2>1 DEF LaidInOrder
<1>4. Memory(a) = IF over = {} THEN 0 ELSE pad(top)[a - off(top) + 1]
  BY DEF Memory
<1>5. ("text" \in over <=> C(1)) /\ ("rodata" \in over <=> C(2)) /\ ("data" \in over <=> C(3))
  BY <1>1, <1>2
<1>6. over \subseteq SEGMENTS
  OBVIOUS
<1>7. LoadedByte(L, PAGE, U64, a) = IF C(3) THEN P(3) ELSE IF C(2) THEN P(2) ELSE IF C(1) THEN P(1) ELSE 0
  BY DEF LoadedByte
<1>. HIDE DEF off, size, pad, over, L, C, P
<1>8. CASE C(3)
  <2>1. "data" \in over /\ \A t \in over : off(t) =< off("data")
    BY <1>1, <1>2, <1>3, <1>5, <1>6, <1>8
  <2>2. top \in over /\ off("data") =< off(top)
    BY <2>1
  <2>3. top = "data"
    <3>. HIDE DEF top
    <3>. QED
      BY <1>1, <1>2, <1>3, <1>6, <2>2, SMTT(60)
  <2>. QED
    BY <1>2, <1>4, <1>7, <1>8, <2>1, <2>3 DEF P, L
<1>9. CASE ~C(3) /\ C(2)
  <2>1. "rodata" \in over /\ "data" \notin over /\ \A t \in over : off(t) =< off("rodata")
    BY <1>1, <1>2, <1>3, <1>5, <1>6, <1>9
  <2>2. top \in over /\ off("rodata") =< off(top)
    BY <2>1
  <2>3. top = "rodata"
    <3>. HIDE DEF top
    <3>. QED
      BY <1>1, <1>2, <1>3, <1>6, <2>1, <2>2, SMTT(60)
  <2>. QED
    BY <1>2, <1>4, <1>7, <1>9, <2>1, <2>3 DEF P, L
<1>10. CASE ~C(3) /\ ~C(2) /\ C(1)
  <2>1. "text" \in over /\ \A t \in over : t = "text"
    BY <1>1, <1>5, <1>6, <1>10
  <2>2. top = "text"
    <3>1. off("text") =< off("text")
      BY <1>2, <1>3
    <3>. QED
      BY <2>1, <3>1
  <2>. QED
    BY <1>2, <1>4, <1>7, <1>10, <2>1, <2>2 DEF P, L
<1>11. CASE ~C(3) /\ ~C(2) /\ ~C(1)
  <2>1. over = {}
    BY <1>1, <1>5, <1>6, <1>11
  <2>. QED
    BY <1>4, <1>7, <1>11, <2>1 DEF L
<1>. QED
  BY <1>8, <1>9, <1>10, <1>11 DEF L

LEMMA BuiltLoads ==
  ASSUME BuilderOK, BuildError = "none", image = ImageOf, Fits, elf \in Elfs, FromElfOnly, WellLaid(elf)
  PROVE  LoadsLikeElf
<1>. DEFINE L == LoadSegments(elf)
            n == Cardinality(Loads(elf))
            data == image.segments["data"]
<1>1. n \in {3, 4} /\ Len(L) = n /\ LaidInOrder(L, n, PAGE, U32, U64) /\ \A i \in Loads(elf) : \E k \in 1..n : elf.segments[i] = L[k]
  BY WellLaidSegments
<1>2. data.memory_offset + data.size = DataEnd(L, PAGE, U64)
  BY ElfLayout DEF DataEnd
<1>3. image.bss_size = BssAfter(L, n, PAGE, U32, U64)
  <2>1. \A x : RoundUp(x) = RoundedUp(x, PAGE, U64)
    BY DEF RoundUp, RoundedUp
  <2>2. BssSize(elf) % U32 = BssAfter(L, n, PAGE, U32, U64)
    BY <1>1, <2>1 DEF BssSize, BssAfter
  <2>. QED
    BY <2>2, ElfLayout
<1>4. ASSUME NEW k \in 1..n, NEW a, InSegment(L, k, a)
      PROVE  a < DataEnd(L, PAGE, U64) + BssAfter(L, n, PAGE, U32, U64) /\ Memory(a) = OwnByte(L, k, a)
  <2>1. PAGE \in Nat \ {0} /\ U32 \in Nat \ {0} /\ U64 \in Nat \ {0} /\ U32 =< U64
    BY ElfUnits
  <2>. HIDE DEF L, n
  <2>2. /\ a \in Nat /\ a < DataEnd(L, PAGE, U64) + BssAfter(L, n, PAGE, U32, U64)
        /\ LoadedByte(L, PAGE, U64, a) = OwnByte(L, k, a)
    BY <1>1, <1>4, <2>1, LoadedInOrder
  <2>3. Memory(a) = LoadedByte(L, PAGE, U64, a)
    BY <2>2, MemoryIs DEF L
  <2>. QED
    BY <2>2, <2>3
<1>5. ASSUME NEW i \in Loads(elf),
             NEW a \in elf.segments[i].addr..(elf.segments[i].addr + elf.segments[i].memsz - 1)
      PROVE  /\ a < data.memory_offset + data.size + image.bss_size
             /\ Memory(a) = IF a - elf.segments[i].addr < Len(elf.segments[i].bytes)
                            THEN elf.segments[i].bytes[a - elf.segments[i].addr + 1] ELSE 0
  <2>1. PICK k \in 1..n : elf.segments[i] = L[k]
    BY <1>1
  <2>. DEFINE want == IF a - elf.segments[i].addr < Len(elf.segments[i].bytes)
                      THEN elf.segments[i].bytes[a - elf.segments[i].addr + 1] ELSE 0
  <2>2. InSegment(L, k, a) /\ OwnByte(L, k, a) = want
    BY <2>1 DEF InSegment, OwnByte
  <2>. HIDE DEF want, data, L
  <2>3. Memory(a) = want
    BY <1>4, <2>2
  <2>4. a < DataEnd(L, PAGE, U64) + BssAfter(L, n, PAGE, U32, U64)
    BY <1>4, <2>2
  <2>. QED
    BY <1>2, <1>3, <2>3, <2>4 DEF want
<1>. QED
  BY <1>5, AllTaken DEF LoadsLikeElf

\* For every sequence of setter calls, every ELF and every LZ4 that undoes itself:
\* try_from_bytes accepts what build wrote while it fits in 32 bits, the accessors
\* give back the padded segments and the stored bytes, the header's hashes are of
\* exactly those bytes, and a program built from a well laid out ELF, its PT_LOAD
\* headers before any other, loads like it.
THEOREM NsoSegmentsComeBack == Spec => []SegmentsComeBack
<1>1. BuiltInv => SegmentsComeBack
  <2>. SUFFICES ASSUME BuiltInv, phase = "built", Fits
                PROVE  Answers /\ (FromElfOnly /\ WellLaid(elf) => LoadsLikeElf)
    BY DEF SegmentsComeBack, Answers
  <2>1. FromElfOnly => elf \in Elfs
    BY DEF BuiltInv, FromElfOnly
  <2>. QED
    BY <2>1, BuiltLoads DEF BuiltInv
<1>. QED
  BY <1>1, InitBuiltInv, NextBuiltInv, PTL DEF Spec
=============================================================================
