------------------------------ MODULE BlzProofs ------------------------------
(***************************************************************************)
(* BLZ for every input, hash, window and match length: the hash-chain      *)
(* search returns the exhaustive scan's answer; the encoder never outgrows *)
(* its buffer, can move the packed region in place and never makes a       *)
(* stream longer than its stored form; what compress returns decompresses  *)
(* to the input, for inputs whose lengths fit the trailer, and the read    *)
(* and write cursors of that call never cross; decompress keeps its        *)
(* cursors inside the buffer on any stream, and a successful call returns  *)
(* as many bytes as were asked for.                                        *)
(***************************************************************************)
EXTENDS BlzMatchFinder, BlzCodec, BlzDecompress, LayoutLemmas, TLAPS

(***************************************************************************)
(* Runs and the oracle                                                     *)
(***************************************************************************)
\* A non-empty bounded set of naturals has a greatest element, and Max is it.
LEMMA MaxIs ==
  ASSUME NEW b \in Nat, NEW S \in SUBSET (0..b), S # {}
  PROVE  Max(S) \in S /\ \A y \in S : y =< Max(S)
<1>. DEFINE T == {b - x : x \in S}
<1>1. T \in SUBSET Nat /\ T # {}
  <2>1. PICK x \in S : TRUE
    OBVIOUS
  <2>2. b - x \in T
    OBVIOUS
  <2>3. \A y \in S : b - y \in Nat
    OBVIOUS
  <2>. QED
    BY <2>2, <2>3
<1>2. PICK t \in T : \A y \in T : t =< y
  BY <1>1, MinIs
<1>3. PICK x \in S : t = b - x
  BY <1>2
<1>4. \A y \in S : x >= y
  <2>. SUFFICES ASSUME NEW y \in S PROVE x >= y
    OBVIOUS
  <2>1. b - y \in T
    OBVIOUS
  <2>2. b - x =< b - y
    BY <1>2, <1>3, <2>1
  <2>. QED
    BY <2>2
<1>5. Max(S) \in S /\ \A y \in S : Max(S) >= y
  BY <1>4 DEF Max
<1>. QED
  BY <1>5

\* RunCap is the least of its three bounds.
LEMMA RunCapIs ==
  ASSUME NEW d \in Seq(Byte), NEW p \in 0..Len(d), NEW o \in Nat
  PROVE  /\ RunCap(d, p, o) \in Nat
         /\ RunCap(d, p, o) =< MAX_MATCH
         /\ RunCap(d, p, o) =< Len(d) - p
         /\ RunCap(d, p, o) =< o
         /\ RunCap(d, p, o) \in {MAX_MATCH, Len(d) - p, o}
<1>. DEFINE S == {MAX_MATCH, Len(d) - p, o}
<1>1. S \in SUBSET Nat /\ S # {}
  BY MatchAssumption
<1>2. Min(S) \in S /\ \A y \in S : Min(S) =< y
  BY <1>1, MinIs
<1>. QED
  BY <1>1, <1>2 DEF RunCap

\* RunLen stops at the cap or at the first byte that differs.
LEMMA RunLenIs ==
  ASSUME NEW d \in Seq(Byte), NEW p \in 0..Len(d), NEW o \in Nat
  PROVE  /\ RunLen(d, p, o) \in 0..RunCap(d, p, o)
         /\ \A n \in 0..(RunLen(d, p, o) - 1) : At(d, p + n) = At(d, p + n - o)
<1>. DEFINE cap == RunCap(d, p, o)
            S == {n \in 0..cap : n = cap \/ At(d, p + n) # At(d, p + n - o)}
<1>1. cap \in Nat
  BY RunCapIs
<1>. HIDE DEF cap
<1>2. S \in SUBSET Nat /\ cap \in S
  BY <1>1
<1>3. Min(S) \in S /\ \A y \in S : Min(S) =< y
  BY <1>2, MinIs
<1>4. RunLen(d, p, o) = Min(S)
  BY DEF RunLen, cap
<1>5. \A n \in 0..(Min(S) - 1) : At(d, p + n) = At(d, p + n - o)
  <2>. SUFFICES ASSUME NEW n \in 0..(Min(S) - 1) PROVE At(d, p + n) = At(d, p + n - o)
    OBVIOUS
  <2>1. n \in 0..cap /\ n < Min(S)
    BY <1>1, <1>3
  <2>. QED
    BY <1>1, <1>3, <2>1, SMTT(60)
<1>. QED
  BY <1>3, <1>4, <1>5 DEF cap

\* A run worth a back-reference repeats its first three bytes.
LEMMA LongRunSharesPrefix ==
  ASSUME NEW d \in Seq(Byte), NEW p \in 0..Len(d), NEW o \in 0..p,
         RunLen(d, p, o) > MATCH_THRESHOLD
  PROVE  /\ At(d, p) = At(d, p - o)
         /\ At(d, p + 1) = At(d, p - o + 1)
         /\ At(d, p + 2) = At(d, p - o + 2)
<1>. DEFINE n == RunLen(d, p, o)
<1>1. /\ n \in Nat /\ \A i \in 0..(n - 1) : At(d, p + i) = At(d, p + i - o)
  BY RunCapIs, RunLenIs
<1>. HIDE DEF n
<1>2. 0 \in 0..(n - 1) /\ 1 \in 0..(n - 1) /\ 2 \in 0..(n - 1)
  BY <1>1 DEF n, MATCH_THRESHOLD
<1>3. /\ At(d, p + 0) = At(d, p + 0 - o)
      /\ At(d, p + 1) = At(d, p + 1 - o)
      /\ At(d, p + 2) = At(d, p + 2 - o)
  BY <1>1, <1>2
<1>4. /\ p + 0 = p /\ p + 0 - o = p - o
      /\ p + 1 - o = p - o + 1 /\ p + 2 - o = p - o + 2
  OBVIOUS
<1>. QED
  BY <1>3, <1>4

\* The offsets the oracle scans.
LEMMA OffsetsAre ==
  ASSUME NEW p \in Nat, NEW o
  PROVE  o \in Offsets(p) <=> o \in Nat /\ MIN_MATCH =< o /\ o =< p /\ o =< MAX_OFFSET
<1>. DEFINE S == {p, MAX_OFFSET}
<1>1. S \in SUBSET Nat /\ S # {}
  BY MatchAssumption
<1>2. Min(S) \in S /\ \A y \in S : Min(S) =< y
  BY <1>1, MinIs
<1>. QED
  BY <1>1, <1>2 DEF Offsets, MIN_MATCH, MATCH_THRESHOLD

\* What a search has to establish to have found nothing, as the oracle does.
LEMMA OracleFindsNothing ==
  ASSUME NEW d \in Seq(Byte), NEW p \in 0..Len(d),
         \A o \in Offsets(p) : RunLen(d, p, o) =< MATCH_THRESHOLD
  PROVE  LongestMatch(d, p) = <<MATCH_THRESHOLD, 0>>
<1>1. \A o \in Offsets(p) : RunLen(d, p, o) \in Nat
  BY OffsetsAre, RunLenIs, RunCapIs
<1>2. Worthwhile(d, p) = {}
  BY <1>1 DEF Worthwhile, MATCH_THRESHOLD
<1>. QED
  BY <1>2 DEF LongestMatch

\* What a search has to establish to have found the oracle's answer.
LEMMA OracleFinds ==
  ASSUME NEW d \in Seq(Byte), NEW p \in 0..Len(d), NEW best \in Offsets(p),
         RunLen(d, p, best) > MATCH_THRESHOLD,
         \A o \in Offsets(p) : /\ RunLen(d, p, o) =< RunLen(d, p, best)
                               /\ RunLen(d, p, o) = RunLen(d, p, best) => best =< o
  PROVE  LongestMatch(d, p) = <<RunLen(d, p, best), best>>
<1>. DEFINE W == Worthwhile(d, p)
            Lens == {RunLen(d, p, o) : o \in W}
            top == Max(Lens)
            Tops == {o \in W : RunLen(d, p, o) = top}
<1>1. \A o \in Offsets(p) : o \in Nat /\ RunLen(d, p, o) \in Nat /\ RunLen(d, p, o) =< MAX_MATCH
  <2>. SUFFICES ASSUME NEW o \in Offsets(p)
                PROVE  o \in Nat /\ RunLen(d, p, o) \in Nat /\ RunLen(d, p, o) =< MAX_MATCH
    OBVIOUS
  <2>1. o \in Nat /\ MAX_MATCH \in Nat
    BY OffsetsAre, MatchAssumption
  <2>2. RunCap(d, p, o) \in Nat /\ RunCap(d, p, o) =< MAX_MATCH
    BY <2>1, RunCapIs
  <2>3. RunLen(d, p, o) \in 0..RunCap(d, p, o)
    BY <2>1, RunLenIs
  <2>. QED
    BY <2>1, <2>2, <2>3
<1>2. best \in W /\ W \subseteq Offsets(p)
  BY DEF Worthwhile
<1>3. Lens \in SUBSET (0..MAX_MATCH) /\ Lens # {} /\ RunLen(d, p, best) \in Lens
  BY <1>1, <1>2, MatchAssumption
<1>4. top \in Lens /\ \A y \in Lens : y =< top
  <2>1. MAX_MATCH \in Nat
    BY MatchAssumption
  <2>. HIDE DEF Lens
  <2>. QED
    BY <1>3, <2>1, MaxIs
<1>5. top = RunLen(d, p, best)
  <2>1. RunLen(d, p, best) =< top
    BY <1>3, <1>4
  <2>2. PICK o \in W : top = RunLen(d, p, o)
    BY <1>4
  <2>. QED
    BY <1>1, <1>2, <2>1, <2>2
<1>6. best \in Tops /\ Tops \in SUBSET Nat
  BY <1>1, <1>2, <1>5
<1>7. Min(Tops) \in Tops /\ \A y \in Tops : Min(Tops) =< y
  <2>. HIDE DEF Tops
  <2>. QED
    BY <1>6, MinIs
<1>8. Min(Tops) = best
  <2>1. Min(Tops) =< best
    BY <1>6, <1>7
  <2>2. best =< Min(Tops)
    BY <1>2, <1>5, <1>7
  <2>. QED
    BY <1>1, <1>2, <1>6, <1>7, <2>1, <2>2
<1>9. LongestMatch(d, p) = <<top, Min(Tops)>>
  BY <1>2 DEF LongestMatch
<1>. QED
  BY <1>5, <1>8, <1>9

\* The oracle's answer can be encoded and stays inside the buffer.
LEMMA LongestMatchBounds ==
  ASSUME NEW d \in Seq(Byte), NEW p \in 0..Len(d)
  PROVE  LET m == LongestMatch(d, p)
         IN  /\ m[1] \in MATCH_THRESHOLD..MAX_MATCH
             /\ m[1] > MATCH_THRESHOLD => p + m[1] =< Len(d) /\ m[2] \in MIN_MATCH..MAX_OFFSET
<1>. DEFINE W == Worthwhile(d, p)
            Lens == {RunLen(d, p, o) : o \in W}
            top == Max(Lens)
            Tops == {o \in W : RunLen(d, p, o) = top}
<1>0. MAX_MATCH \in Nat /\ MAX_MATCH >= 3 /\ MAX_OFFSET \in Nat /\ Len(d) \in Nat
  BY MatchAssumption
<1>1. CASE W = {}
  BY <1>0, <1>1 DEF LongestMatch, MATCH_THRESHOLD
<1>2. CASE W # {}
  <2>1. ASSUME NEW o \in W
        PROVE  /\ o \in Nat /\ o \in MIN_MATCH..MAX_OFFSET
               /\ RunLen(d, p, o) \in MATCH_THRESHOLD..MAX_MATCH /\ p + RunLen(d, p, o) =< Len(d)
    <3>1. o \in Offsets(p) /\ RunLen(d, p, o) > MATCH_THRESHOLD
      BY DEF Worthwhile
    <3>2. o \in Nat /\ MIN_MATCH =< o /\ o =< MAX_OFFSET
      BY <3>1, OffsetsAre
    <3>3. /\ RunCap(d, p, o) \in Nat /\ RunCap(d, p, o) =< MAX_MATCH
          /\ RunCap(d, p, o) =< Len(d) - p
      BY <3>2, RunCapIs
    <3>4. RunLen(d, p, o) \in 0..RunCap(d, p, o)
      BY <3>2, RunLenIs
    <3>. QED
      BY <1>0, <3>1, <3>2, <3>3, <3>4 DEF MIN_MATCH, MATCH_THRESHOLD
  <2>2. Lens \in SUBSET (0..MAX_MATCH) /\ Lens # {}
    BY <1>0, <1>2, <2>1 DEF MATCH_THRESHOLD
  <2>3. top \in Lens
    <3>. HIDE DEF Lens
    <3>. QED
      BY <1>0, <2>2, MaxIs
  <2>4. Tops # {} /\ Tops \in SUBSET Nat
    BY <2>1, <2>3
  <2>5. Min(Tops) \in Tops
    <3>. HIDE DEF Tops
    <3>. QED
      BY <2>4, MinIs
  <2>6. LongestMatch(d, p) = <<top, Min(Tops)>>
    BY <1>2 DEF LongestMatch
  <2>7. Min(Tops) \in W /\ RunLen(d, p, Min(Tops)) = top
    BY <2>5
  <2>. HIDE DEF W, Tops, top
  <2>. QED
    BY <2>1, <2>6, <2>7
<1>. QED
  BY <1>1, <1>2
-----------------------------------------------------------------------------
(***************************************************************************)
(* The search                                                              *)
(***************************************************************************)
(***************************************************************************)
(* The inductive invariant.                                                *)
(***************************************************************************)
\* While linking, no query has been made.
NoQueryYet == phase = "new" => query = 0 /\ answer = NoMatch

\* Linking has passed every hashable position once it is over.
LinkedUpTo ==
  /\ pos = 0 \/ pos =< Len(indexed) - 2
  /\ phase # "new" => pos \notin Hashable

\* head holds the latest linked position of every bucket.
LatestOf(b, q) ==
  IF q = NONE
  THEN \A r \in 0..(pos - 1) : BucketOf(r) # b
  ELSE /\ q \in 0..(pos - 1)
       /\ BucketOf(q) = b
       /\ \A r \in (q + 1)..(pos - 1) : BucketOf(r) # b

HeadsLatest == \A b \in Buckets : LatestOf(b, head[b])

\* The candidate is on the chain of the query, below it.
OnChain ==
  candidate # NONE =>
    candidate \in 0..(query - 1) /\ BucketOf(candidate) = BucketOf(query)

\* The walk has passed the position `o` back from the query.
Passed(o) == candidate = NONE \/ query - o > candidate

\* What the walk holds is the best of what it has passed, the nearest of equals.
BestOfPassed ==
  /\ best_len >= MATCH_THRESHOLD
  /\ \/ best_len = MATCH_THRESHOLD /\ best_offset = 0
     \/ /\ best_offset \in Offsets(query) /\ Passed(best_offset)
        /\ RunLen(indexed, query, best_offset) = best_len
        /\ best_len > MATCH_THRESHOLD
  /\ \A o \in Offsets(query) : Passed(o) =>
       /\ RunLen(indexed, query, o) =< best_len
       /\ RunLen(indexed, query, o) = best_len => best_offset =< o

WalkOK == phase = "walk" => query \in Hashable /\ OnChain /\ BestOfPassed

FinderInv == FinderTypeOK /\ NoQueryYet /\ LinkedUpTo /\ HeadsLatest /\ ChainsComplete /\ WalkOK /\ MatchesOracle

(***************************************************************************)
(* Facts about positions and runs of the indexed buffer.                   *)
(***************************************************************************)
\* A hashable position has a bucket.
LEMMA BucketIs ==
  ASSUME indexed \in Seq(Byte), NEW p \in Hashable
  PROVE  BucketOf(p) \in Buckets /\ p \in Position
<1>1. Len(indexed) \in Nat /\ p \in Nat /\ p + 3 =< Len(indexed)
  BY DEF Hashable, MIN_MATCH, MATCH_THRESHOLD
<1>2. p + 1 \in 1..Len(indexed) /\ p + 2 \in 1..Len(indexed) /\ p + 3 \in 1..Len(indexed)
  BY <1>1
<1>3. indexed[p + 1] \in Byte /\ indexed[p + 2] \in Byte /\ indexed[p + 3] \in Byte
  BY <1>2
<1>4. At(indexed, p) = indexed[p + 1] /\ At(indexed, p + 1) = indexed[p + 2] /\ At(indexed, p + 2) = indexed[p + 3]
  BY <1>1 DEF At
<1>. QED
  BY <1>1, <1>3, <1>4, HashAssumption DEF BucketOf, Position

\* A position that is not in the query's bucket repeats at most two bytes.
LEMMA OtherBucketShortRun ==
  ASSUME indexed \in Seq(Byte), NEW p \in 0..Len(indexed), NEW o \in 0..p,
         BucketOf(p - o) # BucketOf(p)
  PROVE  RunLen(indexed, p, o) =< MATCH_THRESHOLD
<1>1. RunLen(indexed, p, o) \in Nat
  <2>1. o \in Nat
    OBVIOUS
  <2>2. RunCap(indexed, p, o) \in Nat /\ RunLen(indexed, p, o) \in 0..RunCap(indexed, p, o)
    BY <2>1, RunLenIs, RunCapIs
  <2>. QED
    BY <2>2
<1>2. CASE RunLen(indexed, p, o) > MATCH_THRESHOLD
  BY <1>2, LongRunSharesPrefix DEF BucketOf
<1>. QED
  BY <1>1, <1>2 DEF MATCH_THRESHOLD

\* The types of runs and offsets of a query.
LEMMA RunTypes ==
  ASSUME indexed \in Seq(Byte), NEW p \in 0..Len(indexed), NEW o \in Offsets(p)
  PROVE  /\ o \in Nat /\ MIN_MATCH =< o /\ o =< p /\ o =< MAX_OFFSET
         /\ RunLen(indexed, p, o) \in Nat /\ RunLen(indexed, p, o) =< MAX_MATCH
         /\ RunLen(indexed, p, o) =< Len(indexed) - p
<1>1. o \in Nat /\ MIN_MATCH =< o /\ o =< p /\ o =< MAX_OFFSET
  BY OffsetsAre
<1>2. /\ RunCap(indexed, p, o) \in Nat /\ RunCap(indexed, p, o) =< MAX_MATCH
      /\ RunCap(indexed, p, o) =< Len(indexed) - p
  BY <1>1, RunCapIs
<1>3. RunLen(indexed, p, o) \in 0..RunCap(indexed, p, o)
  BY <1>1, RunLenIs
<1>4. MAX_MATCH \in Nat
  BY MatchAssumption
<1>. QED
  BY <1>1, <1>2, <1>3, <1>4

(***************************************************************************)
(* Preservation.                                                           *)
(***************************************************************************)
\* Before anything is linked every chain is empty.
LEMMA FinderInitInv == FinderInit => FinderInv
<1>. SUFFICES ASSUME FinderInit PROVE FinderInv
  OBVIOUS
<1>1. indexed \in Seq(Byte) /\ Len(indexed) \in Nat
  BY InputsAssumption DEF FinderInit
<1>2. FinderTypeOK
  BY <1>1, MatchAssumption DEF FinderInit, FinderTypeOK, Position, NoMatch, MATCH_THRESHOLD
<1>3. HeadsLatest /\ ChainsComplete /\ LinkedUpTo /\ NoQueryYet
  BY <1>1 DEF FinderInit, HeadsLatest, LatestOf, ChainsComplete, LinkedUpTo, NoQueryYet, Hashable
<1>. QED
  BY <1>2, <1>3 DEF FinderInv, FinderInit, WalkOK, MatchesOracle

\* MatchFinder::new links a position: the chains and heads stay exact.
LEMMA LinkIInv == FinderInv /\ Link => FinderInv'
<1>. SUFFICES ASSUME FinderInv, Link PROVE FinderInv'
  OBVIOUS
<1>. DEFINE b == BucketOf(pos)
<1>1. /\ phase = "new" /\ pos \in Hashable /\ pos' = pos + 1
      /\ prev' = [prev EXCEPT ![pos] = head[b]]
      /\ head' = [head EXCEPT ![b] = pos]
      /\ UNCHANGED <<phase, indexed, query, candidate, best_len, best_offset, answer>>
  BY DEF Link
<1>2. /\ indexed \in Seq(Byte) /\ Len(indexed) \in Nat /\ pos \in Nat /\ pos + 3 =< Len(indexed)
      /\ head \in [Buckets -> Position \union {NONE}]
      /\ prev \in [Position -> Position \union {NONE}]
  BY <1>1 DEF FinderInv, FinderTypeOK, Hashable, MIN_MATCH, MATCH_THRESHOLD
<1>3. b \in Buckets /\ pos \in Position
  BY <1>1, <1>2, BucketIs
<1>4. \A r : BucketOf(r)' = BucketOf(r)
  BY <1>1 DEF BucketOf
<1>5. Hashable' = Hashable /\ Position' = Position
  BY <1>1 DEF Hashable, Position
<1>6. FinderTypeOK'
  BY <1>1, <1>2, <1>3, <1>5 DEF FinderInv, FinderTypeOK
<1>7. NoQueryYet' /\ LinkedUpTo' /\ WalkOK' /\ MatchesOracle'
  BY <1>1, <1>2, <1>5 DEF FinderInv, NoQueryYet, LinkedUpTo, WalkOK, MatchesOracle
<1>8. LatestOf(b, head[b])
  BY <1>3 DEF FinderInv, HeadsLatest
<1>9. HeadsLatest'
  <2>. SUFFICES ASSUME NEW c \in Buckets PROVE LatestOf(c, head[c])'
    BY DEF HeadsLatest
  <2>1. CASE c = b
    <3>1. head'[c] = pos
      BY <1>1, <1>2, <1>3, <2>1
    <3>. QED
      BY <1>1, <1>2, <1>4, <2>1, <3>1, NoneAssumption DEF LatestOf
  <2>2. CASE c # b
    <3>1. head'[c] = head[c] /\ LatestOf(c, head[c])
      BY <1>1, <1>2, <2>2 DEF FinderInv, HeadsLatest
    <3>2. \A r \in 0..pos : r \in 0..(pos - 1) \/ r = pos
      BY <1>2
    <3>3. CASE head[c] = NONE
      BY <1>1, <1>2, <1>4, <2>2, <3>1, <3>2, <3>3 DEF LatestOf
    <3>4. CASE head[c] # NONE
      <4>1. /\ head[c] \in 0..(pos - 1) /\ BucketOf(head[c]) = c
            /\ \A r \in (head[c] + 1)..(pos - 1) : BucketOf(r) # c
        BY <3>1, <3>4 DEF LatestOf
      <4>2. \A r \in (head[c] + 1)..pos : BucketOf(r) # c
        BY <1>2, <2>2, <4>1
      <4>. QED
        BY <1>1, <1>2, <1>4, <3>1, <3>4, <4>1, <4>2 DEF LatestOf
    <3>. QED
      BY <3>3, <3>4
  <2>. QED
    BY <2>1, <2>2
<1>10. ChainsComplete'
  <2>. SUFFICES ASSUME NEW p \in Hashable, p < pos + 1 PROVE NearestEarlier(p, prev[p])'
    BY <1>1, <1>5 DEF ChainsComplete
  <2>0. p \in Nat /\ p \in Position
    BY <1>2, BucketIs DEF Hashable
  <2>1. CASE p = pos
    <3>1. prev'[p] = head[b]
      BY <1>1, <1>2, <2>0, <2>1
    <3>. QED
      BY <1>4, <1>8, <2>1, <3>1 DEF LatestOf, NearestEarlier
  <2>2. CASE p # pos
    <3>1. prev'[p] = prev[p] /\ NearestEarlier(p, prev[p])
      BY <1>1, <1>2, <2>0, <2>2 DEF FinderInv, ChainsComplete
    <3>. QED
      BY <1>4, <3>1 DEF NearestEarlier
  <2>. QED
    BY <2>1, <2>2
<1>. QED
  BY <1>6, <1>7, <1>9, <1>10 DEF FinderInv

\* Steps that leave the index alone keep what is known of it.
LEMMA IndexKept ==
  ASSUME FinderInv, UNCHANGED <<indexed, head, prev, pos>>, phase' = "new" <=> phase = "new"
  PROVE  HeadsLatest' /\ ChainsComplete' /\ LinkedUpTo'
BY DEF FinderInv, HeadsLatest, LatestOf, ChainsComplete, NearestEarlier, LinkedUpTo, Hashable, BucketOf

\* The index is built: no query has been made, and the oracle finds nothing at 0.
LEMMA BuiltIInv == FinderInv /\ Built => FinderInv'
<1>. SUFFICES ASSUME FinderInv, Built PROVE FinderInv'
  OBVIOUS
<1>1. /\ phase = "new" /\ phase' = "idle" /\ pos \notin Hashable
      /\ UNCHANGED <<indexed, head, prev, pos, query, candidate, best_len, best_offset, answer>>
  BY DEF Built
<1>2. FinderTypeOK' /\ NoQueryYet' /\ WalkOK'
  BY <1>1 DEF FinderInv, FinderTypeOK, NoQueryYet, WalkOK, Position
<1>3. LinkedUpTo'
  BY <1>1 DEF FinderInv, LinkedUpTo, Hashable
<1>4. HeadsLatest' /\ ChainsComplete'
  BY <1>1 DEF FinderInv, HeadsLatest, LatestOf, ChainsComplete, NearestEarlier, Hashable, BucketOf
<1>5. indexed \in Seq(Byte) /\ 0 \in 0..Len(indexed)
  BY DEF FinderInv, FinderTypeOK
<1>6. \A o \in Offsets(0) : FALSE
  BY OffsetsAre DEF MIN_MATCH, MATCH_THRESHOLD
<1>7. LongestMatch(indexed, 0) = NoMatch
  BY <1>5, <1>6, OracleFindsNothing DEF NoMatch
<1>8. MatchesOracle'
  BY <1>1, <1>7 DEF FinderInv, NoQueryYet, MatchesOracle
<1>. QED
  BY <1>2, <1>3, <1>4, <1>8 DEF FinderInv

\* A query with fewer than MIN_MATCH bytes left.
LEMMA QueryTailIInv ==
  ASSUME FinderInv, NEW p \in 0..Len(indexed), QueryTail(p)
  PROVE  FinderInv'
<1>1. /\ phase = "idle" /\ Len(indexed) < p + MIN_MATCH /\ query' = p /\ answer' = NoMatch
      /\ UNCHANGED <<phase, indexed, head, prev, pos, candidate, best_len, best_offset>>
  BY DEF QueryTail
<1>2. indexed \in Seq(Byte) /\ Len(indexed) \in Nat /\ p \in Nat
  BY DEF FinderInv, FinderTypeOK
<1>3. FinderTypeOK'
  BY <1>1, <1>2, MatchAssumption DEF FinderInv, FinderTypeOK, Position, NoMatch, MATCH_THRESHOLD
<1>4. NoQueryYet' /\ WalkOK'
  BY <1>1 DEF NoQueryYet, WalkOK
<1>5. HeadsLatest' /\ ChainsComplete' /\ LinkedUpTo'
  BY <1>1, IndexKept
<1>6. \A o \in Offsets(p) : RunLen(indexed, p, o) =< MATCH_THRESHOLD
  <2>. SUFFICES ASSUME NEW o \in Offsets(p) PROVE RunLen(indexed, p, o) =< MATCH_THRESHOLD
    OBVIOUS
  <2>1. RunLen(indexed, p, o) \in Nat /\ RunLen(indexed, p, o) =< Len(indexed) - p
    BY <1>2, RunTypes
  <2>. QED
    BY <1>1, <1>2, <2>1 DEF MIN_MATCH, MATCH_THRESHOLD
<1>7. LongestMatch(indexed, p) = NoMatch
  BY <1>2, <1>6, OracleFindsNothing DEF NoMatch
<1>8. MatchesOracle'
  BY <1>1, <1>7 DEF MatchesOracle
<1>. QED
  BY <1>3, <1>4, <1>5, <1>8 DEF FinderInv

\* What following a link passes over: positions of other buckets only.
LEMMA SkippedRunsAreShort ==
  ASSUME FinderInv, phase # "new", NEW p \in Hashable, NEW c \in Hashable,
         BucketOf(c) = BucketOf(p), NEW o \in 0..p, p - o < c,
         prev[c] = NONE \/ p - o > prev[c]
  PROVE  RunLen(indexed, p, o) =< MATCH_THRESHOLD
<1>1. indexed \in Seq(Byte) /\ Len(indexed) \in Nat /\ p \in 0..Len(indexed) /\ c \in Nat /\ pos \in Nat
      /\ p + 3 =< Len(indexed) /\ c + 3 =< Len(indexed)
  BY DEF FinderInv, FinderTypeOK, Hashable, MIN_MATCH, MATCH_THRESHOLD
<1>2. c < pos
  BY <1>1 DEF FinderInv, LinkedUpTo, Hashable, MIN_MATCH, MATCH_THRESHOLD
<1>3. NearestEarlier(c, prev[c])
  BY <1>2 DEF FinderInv, ChainsComplete
<1>4. BucketOf(p - o) # BucketOf(c)
  BY <1>1, <1>3 DEF NearestEarlier
<1>. QED
  BY <1>1, <1>4, OtherBucketShortRun

\* Where a link leads: nowhere, or to an earlier position of the same bucket.
LEMMA LinkLeads ==
  ASSUME FinderInv, phase # "new", NEW c \in Hashable, prev[c] # NONE
  PROVE  prev[c] \in 0..(c - 1) /\ BucketOf(prev[c]) = BucketOf(c) /\ prev[c] \in Hashable
<1>1. c \in Nat /\ pos \in Nat /\ Len(indexed) \in Nat /\ c + 3 =< Len(indexed)
  BY DEF FinderInv, FinderTypeOK, Hashable, MIN_MATCH, MATCH_THRESHOLD
<1>2. c < pos
  BY <1>1 DEF FinderInv, LinkedUpTo, Hashable, MIN_MATCH, MATCH_THRESHOLD
<1>3. NearestEarlier(c, prev[c])
  BY <1>2 DEF FinderInv, ChainsComplete
<1>. QED
  BY <1>1, <1>3 DEF NearestEarlier, Hashable, MIN_MATCH, MATCH_THRESHOLD

\* longest_match begins: everything above the first candidate is too short.
LEMMA QueryIInv ==
  ASSUME FinderInv, NEW p \in 0..Len(indexed), Query(p)
  PROVE  FinderInv'
<1>1. /\ phase = "idle" /\ phase' = "walk" /\ p + MIN_MATCH =< Len(indexed) /\ query' = p
      /\ candidate' = prev[p] /\ best_len' = MATCH_THRESHOLD /\ best_offset' = 0
      /\ UNCHANGED <<indexed, head, prev, pos, answer>>
  BY DEF Query
<1>2. indexed \in Seq(Byte) /\ Len(indexed) \in Nat /\ p \in Nat
  BY DEF FinderInv, FinderTypeOK
<1>3. p \in Hashable /\ p \in Position
  BY <1>1, <1>2 DEF Hashable, MIN_MATCH, MATCH_THRESHOLD, Position
<1>4. FinderTypeOK'
  <2>1. prev[p] \in Position \union {NONE}
    BY <1>3 DEF FinderInv, FinderTypeOK
  <2>. QED
    BY <1>1, <1>2, <2>1, MatchAssumption DEF FinderInv, FinderTypeOK, Position, MATCH_THRESHOLD
<1>5. NoQueryYet' /\ MatchesOracle'
  BY <1>1 DEF NoQueryYet, MatchesOracle
<1>6. HeadsLatest' /\ ChainsComplete' /\ LinkedUpTo'
  BY <1>1, IndexKept
<1>7. OnChain'
  BY <1>1, <1>3, LinkLeads DEF OnChain, BucketOf
<1>8. BestOfPassed'
  <2>. SUFFICES ASSUME NEW o \in Offsets(p), prev[p] = NONE \/ p - o > prev[p]
                PROVE  /\ RunLen(indexed, p, o) =< MATCH_THRESHOLD
                       /\ 0 =< o
    BY <1>1 DEF BestOfPassed, Passed, MATCH_THRESHOLD
  <2>1. o \in 0..p /\ p - o < p
    BY <1>2, RunTypes DEF MIN_MATCH, MATCH_THRESHOLD
  <2>. QED
    BY <1>1, <1>3, <2>1, SkippedRunsAreShort
<1>9. WalkOK'
  BY <1>1, <1>3, <1>7, <1>8 DEF WalkOK, Hashable
<1>. QED
  BY <1>4, <1>5, <1>6, <1>9 DEF FinderInv

\* The pair is the best of the positions from c up to the query.
BestDownTo(c, l, off) ==
  /\ l >= MATCH_THRESHOLD
  /\ \/ l = MATCH_THRESHOLD /\ off = 0
     \/ /\ off \in Offsets(query) /\ query - off >= c
        /\ RunLen(indexed, query, off) = l
        /\ l > MATCH_THRESHOLD
  /\ \A o \in Offsets(query) : query - o >= c =>
       /\ RunLen(indexed, query, o) =< l
       /\ RunLen(indexed, query, o) = l => off =< o

\* What holds of the walk when it looks at a candidate inside the window.
LEMMA WalkFacts ==
  ASSUME FinderInv, phase = "walk"
  PROVE  /\ indexed \in Seq(Byte) /\ Len(indexed) \in Nat
         /\ query \in Nat /\ query + 3 =< Len(indexed) /\ query \in 0..Len(indexed)
         /\ query \in Hashable /\ OnChain /\ BestOfPassed
         /\ best_len \in Nat /\ best_len =< MAX_MATCH /\ best_offset \in Nat
         /\ MAX_MATCH \in Nat /\ MAX_MATCH >= 3
         /\ candidate # NONE => candidate \in Nat /\ candidate < query /\ candidate \in Hashable
<1>1. /\ indexed \in Seq(Byte) /\ Len(indexed) \in Nat /\ query \in Hashable /\ OnChain /\ BestOfPassed
      /\ best_len \in 0..MAX_MATCH /\ best_offset \in Nat
  BY DEF FinderInv, FinderTypeOK, WalkOK
<1>2. query \in Nat /\ query + 3 =< Len(indexed) /\ query \in 0..Len(indexed)
  BY <1>1 DEF Hashable, MIN_MATCH, MATCH_THRESHOLD
<1>3. MAX_MATCH \in Nat /\ MAX_MATCH >= 3
  BY MatchAssumption
<1>4. candidate # NONE => candidate \in Nat /\ candidate < query /\ candidate \in Hashable
  BY <1>1, <1>2 DEF OnChain, Hashable, MIN_MATCH, MATCH_THRESHOLD
<1>. QED
  BY <1>1, <1>2, <1>3, <1>4

\* After a candidate, the walk holds the best of everything down to it.
LEMMA ImproveIsBest ==
  ASSUME FinderInv, phase = "walk", InWindow,
         NEW found, found = Improve(query - candidate)
  PROVE  /\ BestDownTo(candidate, found[1], found[2])
         /\ found = <<found[1], found[2]>>
         /\ found[1] \in 0..MAX_MATCH /\ found[2] \in Nat
<1>. DEFINE oc == query - candidate
            run == RunLen(indexed, query, oc)
<1>1. /\ candidate # NONE /\ candidate \in Nat /\ candidate < query /\ oc =< MAX_OFFSET
      /\ oc \in Nat /\ oc =< query /\ query \in Nat
  BY WalkFacts DEF InWindow
<1>2. oc \in Offsets(query) <=> oc >= MIN_MATCH
  BY <1>1, OffsetsAre DEF MIN_MATCH, MATCH_THRESHOLD
<1>3. ASSUME NEW o \in Offsets(query)
      PROVE  /\ o \in Nat /\ RunLen(indexed, query, o) \in Nat /\ RunLen(indexed, query, o) =< MAX_MATCH
             /\ query - o >= candidate => Passed(o) \/ o = oc
             /\ Passed(o) => query - o >= candidate /\ o < oc
             /\ Passed(o) => /\ RunLen(indexed, query, o) =< best_len
                             /\ RunLen(indexed, query, o) = best_len => best_offset =< o
  <2>1. o \in Nat /\ RunLen(indexed, query, o) \in Nat /\ RunLen(indexed, query, o) =< MAX_MATCH
    BY WalkFacts, RunTypes
  <2>2. Passed(o) => /\ RunLen(indexed, query, o) =< best_len
                     /\ RunLen(indexed, query, o) = best_len => best_offset =< o
    BY WalkFacts DEF BestOfPassed
  <2>3. query - o >= candidate => Passed(o) \/ o = oc
    BY <1>1, <2>1 DEF Passed
  <2>4. Passed(o) => query - o >= candidate /\ o < oc
    BY <1>1, <2>1 DEF Passed
  <2>. QED
    BY <2>1, <2>2, <2>3, <2>4
<1>4. /\ best_len \in Nat /\ best_len =< MAX_MATCH /\ best_offset \in Nat
      /\ best_len >= MATCH_THRESHOLD /\ MAX_MATCH \in Nat
      /\ \/ best_len = MATCH_THRESHOLD /\ best_offset = 0
         \/ /\ best_offset \in Offsets(query) /\ Passed(best_offset)
            /\ RunLen(indexed, query, best_offset) = best_len
            /\ best_len > MATCH_THRESHOLD
  BY WalkFacts DEF BestOfPassed
<1>. HIDE DEF oc, run
<1>5. CASE oc >= MIN_MATCH /\ run > best_len
  <2>1. found = <<run, oc>>
    BY <1>5 DEF Improve, oc, run
  <2>2. oc \in Offsets(query) /\ run \in Nat /\ run =< MAX_MATCH /\ oc \in Nat
    BY <1>1, <1>2, <1>3, <1>5 DEF run
  <2>3. query - oc >= candidate
    BY <1>1 DEF oc
  <2>4. ASSUME NEW o \in Offsets(query), query - o >= candidate
        PROVE  RunLen(indexed, query, o) =< run /\ (RunLen(indexed, query, o) = run => oc =< o)
    <3>1. CASE o = oc
      BY <2>2, <3>1 DEF run
    <3>2. CASE Passed(o)
      BY <1>3, <1>4, <1>5, <2>2, <3>2
    <3>. QED
      BY <1>3, <2>4, <3>1, <3>2
  <2>5. run > MATCH_THRESHOLD
    BY <1>4, <1>5, <2>2 DEF MATCH_THRESHOLD
  <2>6. BestDownTo(candidate, run, oc)
    BY <2>2, <2>3, <2>4, <2>5 DEF BestDownTo, run, MATCH_THRESHOLD
  <2>. QED
    BY <1>4, <2>1, <2>2, <2>6
<1>6. CASE ~(oc >= MIN_MATCH /\ run > best_len)
  <2>1. found = <<best_len, best_offset>>
    BY <1>6 DEF Improve, oc, run
  <2>2. ASSUME NEW o \in Offsets(query), query - o >= candidate
        PROVE  /\ RunLen(indexed, query, o) =< best_len
               /\ RunLen(indexed, query, o) = best_len => best_offset =< o
    <3>1. CASE Passed(o)
      BY <1>3, <3>1
    <3>2. CASE o = oc
      <4>1. run \in Nat /\ oc \in Nat /\ oc \in Offsets(query) /\ ~(run > best_len)
        BY <1>1, <1>2, <1>3, <1>6, <3>2 DEF run
      <4>2. best_offset =< oc
        BY <1>3, <1>4, <4>1
      <4>. QED
        BY <1>4, <3>2, <4>1, <4>2 DEF run
    <3>. QED
      BY <1>3, <2>2, <3>1, <3>2
  <2>3. BestDownTo(candidate, best_len, best_offset)
    BY <1>3, <1>4, <2>2 DEF BestDownTo
  <2>. QED
    BY <1>4, <2>1, <2>3
<1>. QED
  BY <1>5, <1>6

\* One candidate of the walk.
LEMMA VisitIInv == FinderInv /\ Visit => FinderInv'
<1>. SUFFICES ASSUME FinderInv, Visit PROVE FinderInv'
  OBVIOUS
<1>. DEFINE found == Improve(query - candidate)
            l == found[1]
            off == found[2]
<1>1. /\ phase = "walk" /\ InWindow /\ best_len' = l /\ best_offset' = off
      /\ UNCHANGED <<indexed, head, prev, pos, query>>
      /\ IF l = MAX_MATCH
         THEN phase' = "idle" /\ answer' = found /\ UNCHANGED candidate
         ELSE candidate' = prev[candidate] /\ UNCHANGED <<phase, answer>>
  BY DEF Visit
<1>2. /\ BestDownTo(candidate, l, off) /\ found = <<l, off>>
      /\ l \in 0..MAX_MATCH /\ off \in Nat
  BY <1>1, ImproveIsBest
<1>. HIDE DEF found, l, off
<1>3. /\ candidate # NONE /\ candidate \in Nat /\ candidate < query /\ candidate \in Hashable
      /\ BucketOf(candidate) = BucketOf(query) /\ query \in Hashable
      /\ indexed \in Seq(Byte) /\ query \in 0..Len(indexed) /\ query \in Nat
      /\ MAX_MATCH \in Nat /\ MAX_MATCH >= 3
  BY <1>1, WalkFacts DEF InWindow, OnChain
<1>4. FinderTypeOK'
  <2>1. prev[candidate] \in Position \union {NONE}
    BY <1>3, BucketIs DEF FinderInv, FinderTypeOK
  <2>2. found \in (0..MAX_MATCH) \X Nat
    BY <1>2
  <2>. QED
    BY <1>1, <1>2, <2>1, <2>2 DEF FinderInv, FinderTypeOK, Position
<1>5. HeadsLatest' /\ ChainsComplete' /\ LinkedUpTo' /\ NoQueryYet'
  <2>1. phase # "new" /\ phase' # "new"
    BY <1>1
  <2>. QED
    BY <1>1, <2>1, IndexKept DEF NoQueryYet
<1>6. ASSUME NEW o \in Offsets(query)
      PROVE  o \in Nat /\ o \in 0..query /\ RunLen(indexed, query, o) \in Nat
             /\ RunLen(indexed, query, o) =< MAX_MATCH
  <2>1. o \in Nat /\ o =< query /\ RunLen(indexed, query, o) \in Nat /\ RunLen(indexed, query, o) =< MAX_MATCH
    BY <1>3, RunTypes
  <2>. QED
    BY <1>3, <2>1
<1>7. CASE l = MAX_MATCH
  <2>1. l > MATCH_THRESHOLD
    BY <1>3, <1>7 DEF MATCH_THRESHOLD
  <2>2. off \in Offsets(query) /\ query - off >= candidate /\ RunLen(indexed, query, off) = l
    BY <1>2, <2>1 DEF BestDownTo, MATCH_THRESHOLD
  <2>3. ASSUME NEW o \in Offsets(query)
        PROVE  RunLen(indexed, query, o) =< l /\ (RunLen(indexed, query, o) = l => off =< o)
    <3>1. CASE query - o >= candidate
      BY <1>2, <3>1 DEF BestDownTo
    <3>2. CASE ~(query - o >= candidate)
      BY <1>2, <1>3, <1>6, <1>7, <2>2, <3>2
    <3>. QED
      BY <3>1, <3>2
  <2>4. LongestMatch(indexed, query) = <<l, off>>
    BY <1>3, <2>1, <2>2, <2>3, OracleFinds
  <2>5. MatchesOracle' /\ WalkOK'
    BY <1>1, <1>2, <1>7, <2>4 DEF MatchesOracle, WalkOK
  <2>. QED
    BY <1>4, <1>5, <2>5 DEF FinderInv
<1>8. CASE l # MAX_MATCH
  <2>1. candidate' = prev[candidate] /\ phase' = "walk"
    BY <1>1, <1>8
  <2>2. prev[candidate] # NONE => /\ prev[candidate] \in 0..(candidate - 1)
                                  /\ BucketOf(prev[candidate]) = BucketOf(candidate)
    BY <1>1, <1>3, LinkLeads
  <2>3. OnChain'
    BY <1>1, <1>3, <2>1, <2>2, SMTT(60) DEF OnChain, BucketOf
  <2>4. ASSUME NEW o \in Offsets(query), prev[candidate] = NONE \/ query - o > prev[candidate]
        PROVE  RunLen(indexed, query, o) =< l /\ (RunLen(indexed, query, o) = l => off =< o)
    <3>1. CASE query - o >= candidate
      BY <1>2, <3>1 DEF BestDownTo
    <3>2. CASE ~(query - o >= candidate)
      <4>1. query - o < candidate
        BY <1>3, <1>6, <3>2
      <4>2. RunLen(indexed, query, o) =< MATCH_THRESHOLD
        BY <1>1, <1>3, <1>6, <2>4, <4>1, SkippedRunsAreShort
      <4>3. l >= MATCH_THRESHOLD /\ (l = MATCH_THRESHOLD => off = 0)
        BY <1>2 DEF BestDownTo, MATCH_THRESHOLD
      <4>. QED
        BY <1>2, <1>6, <4>2, <4>3 DEF MATCH_THRESHOLD
    <3>. QED
      BY <3>1, <3>2
  <2>5. ASSUME off \in Offsets(query), query - off >= candidate
        PROVE  prev[candidate] = NONE \/ query - off > prev[candidate]
    BY <1>3, <1>6, <2>2, <2>5
  <2>6. /\ l >= MATCH_THRESHOLD
        /\ \/ l = MATCH_THRESHOLD /\ off = 0
           \/ /\ off \in Offsets(query) /\ (prev[candidate] = NONE \/ query - off > prev[candidate])
              /\ RunLen(indexed, query, off) = l
              /\ l > MATCH_THRESHOLD
    BY <1>2, <2>5 DEF BestDownTo
  <2>7. BestOfPassed'
    BY <1>1, <2>1, <2>4, <2>6 DEF BestOfPassed, Passed
  <2>8. WalkOK' /\ MatchesOracle'
    BY <1>1, <1>3, <2>1, <2>3, <2>7 DEF WalkOK, MatchesOracle, Hashable
  <2>. QED
    BY <1>4, <1>5, <2>8 DEF FinderInv
<1>. QED
  BY <1>7, <1>8

\* The walk ends where the chain ends or leaves the window.
LEMMA LeaveIInv == FinderInv /\ Leave => FinderInv'
<1>. SUFFICES ASSUME FinderInv, Leave PROVE FinderInv'
  OBVIOUS
<1>1. /\ phase = "walk" /\ ~InWindow /\ phase' = "idle" /\ answer' = <<best_len, best_offset>>
      /\ UNCHANGED <<indexed, head, prev, pos, query, candidate, best_len, best_offset>>
  BY DEF Leave
<1>2. FinderTypeOK' /\ NoQueryYet' /\ WalkOK'
  BY <1>1 DEF FinderInv, FinderTypeOK, Position, NoQueryYet, WalkOK
<1>3. HeadsLatest' /\ ChainsComplete' /\ LinkedUpTo'
  <2>1. phase # "new" /\ phase' # "new"
    BY <1>1
  <2>. QED
    BY <1>1, <2>1, IndexKept
<1>4. /\ indexed \in Seq(Byte) /\ query \in 0..Len(indexed) /\ query \in Nat /\ BestOfPassed
      /\ candidate # NONE => candidate \in Nat
  BY <1>1, WalkFacts
<1>5. ASSUME NEW o \in Offsets(query) PROVE Passed(o)
  <2>1. o \in Nat /\ o =< MAX_OFFSET
    BY <1>4, RunTypes
  <2>2. MAX_OFFSET \in Nat
    BY MatchAssumption
  <2>. QED
    BY <1>1, <1>4, <2>1, <2>2 DEF InWindow, Passed
<1>6. \A o \in Offsets(query) : /\ RunLen(indexed, query, o) =< best_len
                                /\ RunLen(indexed, query, o) = best_len => best_offset =< o
  BY <1>4, <1>5 DEF BestOfPassed
<1>7. LongestMatch(indexed, query) = <<best_len, best_offset>>
  <2>1. CASE best_len = MATCH_THRESHOLD /\ best_offset = 0
    BY <1>4, <1>6, <2>1, OracleFindsNothing
  <2>2. CASE /\ best_offset \in Offsets(query)
             /\ RunLen(indexed, query, best_offset) = best_len /\ best_len > MATCH_THRESHOLD
    BY <1>4, <1>6, <2>2, OracleFinds
  <2>. QED
    BY <1>4, <2>1, <2>2 DEF BestOfPassed
<1>8. MatchesOracle'
  BY <1>1, <1>7 DEF MatchesOracle
<1>. QED
  BY <1>2, <1>3, <1>8 DEF FinderInv

\* Every step of the finder preserves the invariant.
LEMMA FinderNextInv == FinderInv /\ [FinderNext]_finderVars => FinderInv'
<1>. SUFFICES ASSUME FinderInv, [FinderNext]_finderVars PROVE FinderInv'
  OBVIOUS
<1>1. CASE UNCHANGED finderVars
  <2>1. HeadsLatest' /\ ChainsComplete' /\ LinkedUpTo'
    BY <1>1, IndexKept DEF finderVars
  <2>2. FinderTypeOK' /\ NoQueryYet' /\ MatchesOracle'
    BY <1>1 DEF finderVars, FinderInv, FinderTypeOK, Position, NoQueryYet, MatchesOracle
  <2>3. WalkOK'
    BY <1>1 DEF finderVars, FinderInv, WalkOK, Hashable, OnChain, BestOfPassed, Passed, BucketOf
  <2>. QED
    BY <2>1, <2>2, <2>3 DEF FinderInv
<1>. QED
  BY <1>1, LinkIInv, BuiltIInv, QueryTailIInv, QueryIInv, VisitIInv, LeaveIInv DEF FinderNext

(***************************************************************************)
(* The inductive invariant holds in every reachable state.                 *)
(***************************************************************************)
THEOREM FinderInvariant == FinderSpec => []FinderInv
BY FinderInitInv, FinderNextInv, PTL DEF FinderSpec

\* The fields of MatchFinder and the locals of longest_match keep their types.
THEOREM FinderTypes == FinderSpec => []FinderTypeOK
BY FinderInvariant, PTL DEF FinderInv

\* The chains MatchFinder::new builds skip no position of their bucket.
THEOREM FinderChainsComplete == FinderSpec => []ChainsComplete
BY FinderInvariant, PTL DEF FinderInv

\* longest_match returns what the exhaustive scan of every offset returns.
THEOREM FinderMatchesOracle == FinderSpec => []MatchesOracle
BY FinderInvariant, PTL DEF FinderInv
-----------------------------------------------------------------------------
(***************************************************************************)
(* The encoder                                                             *)
(***************************************************************************)
Masks == {0, 1, 2, 4, 8, 16, 32, 64, 128}

\* Bits of the current flag byte no code has claimed.
Unused(m) ==
  IF m = 128 THEN 7 ELSE IF m = 64 THEN 6 ELSE IF m = 32 THEN 5 ELSE IF m = 16 THEN 4
  ELSE IF m = 8 THEN 3 ELSE IF m = 4 THEN 2 ELSE IF m = 2 THEN 1 ELSE 0

\* What the finder answers can be encoded and stays inside the input.
FinderBounded ==
  \A p \in 0..(len - 1) :
    /\ finder[p][1] \in MATCH_THRESHOLD..MAX_MATCH
    /\ finder[p][1] > MATCH_THRESHOLD =>
         p + finder[p][1] =< len /\ finder[p][2] \in MIN_MATCH..MAX_OFFSET

EncTypeOK ==
  /\ pc \in {"encode", "flush", "relocate", "done"}
  /\ data \in Seq(Byte) /\ input \in Seq(Byte) /\ Len(input) = len
  /\ output \in [0..(worst_case_len(len) - 1) -> Byte]
  /\ read_pos \in 0..len /\ write_pos \in Nat /\ flag_pos \in Nat
  /\ mask \in Masks
  /\ best_packed \in Nat /\ best_remaining \in 0..len
  /\ moved \in 0..best_packed /\ written \in Nat

\* Every code costs at most the bytes it consumes, plus its share of a flag
\* byte: one bit, paid for eight at a time.
FlagBytesPaid ==
  /\ pc = "encode" => 8 * (write_pos - read_pos) =< read_pos + Unused(mask)
  /\ 8 * write_pos =< 9 * read_pos + 7

\* The flag byte being filled has been reserved.
FlagReserved == mask # 0 => flag_pos < write_pos

\* The split kept is no worse than the boundary the encoder stands at.
BestSplit == split =< write_pos + len - read_pos

\* The layout chosen at the end.
LayoutChosen ==
  /\ pc # "encode" => read_pos = len
  /\ pc \in {"encode", "flush"} => moved = 0
  /\ pc = "relocate" => ~StoreRaw
  /\ written =< len + PadTo4(len) + 4

EInv == EncTypeOK /\ FinderBounded /\ FlagBytesPaid /\ FlagReserved /\ BestSplit /\ LayoutChosen

\* Reversing a buffer keeps its length and its bytes.
LEMMA ReverseIs ==
  ASSUME NEW s \in Seq(Byte)
  PROVE  Reverse(s) \in Seq(Byte) /\ Len(Reverse(s)) = Len(s)
BY DEF Reverse

\* Padding is at most three bytes, and aligns.
LEMMA PadIs ==
  ASSUME NEW n \in Nat
  PROVE  PadTo4(n) \in 0..3
BY DEF PadTo4

\* The buffer holds every stream: len + ceil(len / 8) packed bytes, or the
\* stored form.
LEMMA WorstCase ==
  ASSUME NEW n \in Nat, NEW w \in Nat
  PROVE  /\ worst_case_len(n) \in Nat
         /\ 8 * w =< 9 * n + 7 => w =< worst_case_len(n)
         /\ w =< n + 7 => w =< worst_case_len(n)
BY DEF worst_case_len

\* compress starts with nothing written and the whole input raw.
LEMMA EncInitEInv == Init => EInv
<1>. SUFFICES ASSUME Init PROVE EInv
  OBVIOUS
<1>. USE DEF Init, EncInit
<1>1. data \in Seq(Byte) /\ len \in Nat
  BY InputsAssumption DEF len
<1>2. input \in Seq(Byte) /\ Len(input) = len
  BY <1>1, ReverseIs DEF len
<1>3. EncTypeOK
  <2>1. output \in [0..(worst_case_len(len) - 1) -> Byte]
    BY DEF Byte, len
  <2>2. /\ pc = "encode" /\ read_pos = 0 /\ write_pos = 0 /\ flag_pos = 0 /\ mask = 0
        /\ best_packed = 0 /\ best_remaining = len /\ moved = 0 /\ written = 0
    BY DEF len
  <2>. QED
    BY ONLY <1>1, <1>2, <2>1, <2>2 DEF EncTypeOK, Masks
<1>4. FinderBounded
  <2>. SUFFICES ASSUME NEW p \in 0..(len - 1)
                PROVE  /\ finder[p][1] \in MATCH_THRESHOLD..MAX_MATCH
                       /\ finder[p][1] > MATCH_THRESHOLD =>
                            p + finder[p][1] =< len /\ finder[p][2] \in MIN_MATCH..MAX_OFFSET
    BY DEF FinderBounded
  <2>1. finder[p] = LongestMatch(input, p)
    BY DEF len
  <2>2. p \in 0..Len(input)
    BY <1>1, <1>2
  <2>. QED
    BY <1>2, <2>1, <2>2, LongestMatchBounds
<1>5. FlagBytesPaid /\ BestSplit
  BY <1>1 DEF FlagBytesPaid, BestSplit, split, Unused, len
<1>6. FlagReserved
  BY DEF FlagReserved
<1>7. LayoutChosen
  BY <1>1, PadIs DEF LayoutChosen, len
<1>. QED
  BY <1>3, <1>4, <1>5, <1>6, <1>7 DEF EInv

\* Shifting the mask claims a bit of the flag byte, or opens a new one.
LEMMA MaskStep ==
  ASSUME mask \in Masks
  PROVE  /\ mask1 \in Masks \ {0}
         /\ Unused(mask) \in 0..7 /\ Unused(mask1) \in 0..7
         /\ NewGroup => Unused(mask) = 0 /\ Unused(mask1) = 7
         /\ ~NewGroup => Unused(mask1) = Unused(mask) - 1
BY DEF Masks, mask1, NewGroup, Unused, FLAG_MASK_INIT

\* One code: n bytes written for l bytes read.
LEMMA CodeEInv ==
  ASSUME EInv, NextCode, NEW n \in 1..2, NEW l \in Nat, l >= 2 * n - 1, read_pos + l =< len,
         TrackSplit(write1 + n, read_pos + l),
         output' \in [0..(worst_case_len(len) - 1) -> Byte]
  PROVE  EInv'
<1>1. /\ pc = "encode" /\ read_pos < len /\ mask' = mask1 /\ flag_pos' = flag1
      /\ UNCHANGED <<pc, data, input, finder, moved, stored, written>>
      /\ write_pos' = write1 + n /\ read_pos' = read_pos + l
      /\ IF write1 + n + len - (read_pos + l) < best_packed + best_remaining
         THEN best_packed' = write1 + n /\ best_remaining' = len - (read_pos + l)
         ELSE UNCHANGED <<best_packed, best_remaining>>
  BY DEF NextCode, TrackSplit
<1>2. /\ len \in Nat /\ read_pos \in 0..len /\ write_pos \in Nat /\ flag_pos \in Nat
      /\ mask \in Masks /\ best_packed \in Nat /\ best_remaining \in 0..len
      /\ len' = len
  BY <1>1 DEF EInv, EncTypeOK, len
<1>3. write1 \in Nat /\ flag1 \in Nat /\ write1 = write_pos + (IF NewGroup THEN 1 ELSE 0)
  BY <1>2 DEF write1, flag1
<1>4. /\ mask1 \in Masks /\ Unused(mask) \in 0..7 /\ Unused(mask1) \in 0..7
      /\ NewGroup => Unused(mask) = 0 /\ Unused(mask1) = 7
      /\ ~NewGroup => Unused(mask1) = Unused(mask) - 1
  BY <1>2, MaskStep
<1>5. best_packed' \in Nat /\ best_remaining' \in 0..len /\ moved' \in 0..best_packed'
  <2>1. pc = "encode" => moved = 0
    BY DEF EInv, LayoutChosen
  <2>. QED
    BY <1>1, <1>2, <1>3, <2>1
<1>6. EncTypeOK'
  BY <1>1, <1>2, <1>3, <1>4, <1>5 DEF EInv, EncTypeOK, worst_case_len
<1>7. FinderBounded'
  BY <1>1, <1>2 DEF EInv, FinderBounded
<1>8. FlagBytesPaid'
  <2>1. 8 * (write_pos - read_pos) =< read_pos + Unused(mask)
    BY <1>1 DEF EInv, FlagBytesPaid
  <2>2. 8 * (write1 + n - (read_pos + l)) =< read_pos + l + Unused(mask1)
    <3>1. 8 * n + 1 =< 9 * l
      OBVIOUS
    <3>2. read_pos \in Nat /\ write_pos \in Nat /\ n \in Nat /\ l \in Nat
      BY <1>2
    <3>3. CASE NewGroup
      <4>1. write1 = write_pos + 1 /\ Unused(mask) = 0 /\ Unused(mask1) = 7
        BY <1>3, <1>4, <3>3
      <4>. QED
        BY <2>1, <3>1, <3>2, <4>1
    <3>4. CASE ~NewGroup
      <4>1. write1 = write_pos /\ Unused(mask1) = Unused(mask) - 1 /\ Unused(mask) \in Int
        BY <1>2, <1>3, <1>4, <3>4
      <4>. QED
        BY <2>1, <3>1, <3>2, <4>1
    <3>. QED
      BY <3>3, <3>4
  <2>3. 8 * (write1 + n) =< 9 * (read_pos + l) + 7
    BY <1>2, <1>3, <1>4, <2>2
  <2>4. Unused(mask)' = Unused(mask1)
    BY <1>1 DEF Unused
  <2>. QED
    BY <1>1, <1>2, <1>3, <1>4, <2>2, <2>3, <2>4 DEF FlagBytesPaid
<1>9. BestSplit'
  BY <1>1, <1>2, <1>3 DEF BestSplit, split
<1>10. LayoutChosen'
  BY <1>1, <1>2 DEF EInv, LayoutChosen
<1>11. FlagReserved'
  <2>1. ~NewGroup => mask # 0
    BY DEF NewGroup
  <2>. QED
    BY <1>1, <1>2, <1>3, <2>1 DEF EInv, FlagReserved, flag1
<1>. QED
  BY <1>6, <1>7, <1>8, <1>9, <1>10, <1>11 DEF EInv

\* The flag byte stays a byte as bits are shifted in.
LEMMA FlaggedByte ==
  ASSUME EInv, NEW bit \in 0..1
  PROVE  Flagged(bit) \in Byte
<1>. DEFINE old == IF NewGroup THEN 0 ELSE output[flag1]
<1>1. old \in Byte
  <2>1. CASE NewGroup
    BY <2>1 DEF Byte
  <2>2. CASE ~NewGroup
    <3>1. mask # 0 /\ flag1 = flag_pos
      BY <2>2 DEF NewGroup, flag1
    <3>2. /\ flag_pos < write_pos /\ flag_pos \in Nat /\ write_pos \in Nat
          /\ read_pos \in 0..len /\ len \in Nat /\ 8 * write_pos =< 9 * read_pos + 7
      BY <3>1 DEF EInv, EncTypeOK, FlagReserved, FlagBytesPaid, len
    <3>3. write_pos =< worst_case_len(len) /\ worst_case_len(len) \in Nat
      BY <3>2, WorstCase
    <3>4. flag_pos \in 0..(worst_case_len(len) - 1)
      BY <3>2, <3>3
    <3>. QED
      BY <2>2, <3>1, <3>4 DEF EInv, EncTypeOK
  <2>. QED
    BY <2>1, <2>2
<1>. HIDE DEF old
<1>2. ((2 * old) % 256) + bit \in Byte
  BY <1>1 DEF Byte
<1>. QED
  BY <1>2 DEF Flagged, old

\* A back-reference: two bytes for at least three.
LEMMA EmitMatchEInv == EInv /\ EmitMatch => EInv'
<1>. SUFFICES ASSUME EInv, EmitMatch PROVE EInv'
  OBVIOUS
<1>. DEFINE l == finder[read_pos][1]
            back == finder[read_pos][2]
            span == back - MIN_MATCH
            high == (ChosenLen - MIN_MATCH) * 16 + span \div 256
            low == span % 256
<1>1. /\ NextCode /\ ChosenLen > MATCH_THRESHOLD
      /\ output' = [output EXCEPT ![flag1] = Flagged(1), ![write1] = high, ![write1 + 1] = low]
      /\ TrackSplit(write1 + 2, read_pos + ChosenLen)
  BY DEF EmitMatch
<1>2. read_pos \in 0..(len - 1) /\ len \in Nat
  BY <1>1 DEF EInv, EncTypeOK, NextCode, len
<1>3. ChosenLen = l
  BY <1>1 DEF ChosenLen, MATCH_THRESHOLD
<1>4. /\ l \in Nat /\ l > MATCH_THRESHOLD /\ l =< 18 /\ read_pos + l =< len
      /\ back \in Nat /\ back >= 3 /\ back =< 4098
  <2>1. /\ l \in MATCH_THRESHOLD..MAX_MATCH
        /\ l > MATCH_THRESHOLD =>
             read_pos + l =< len /\ back \in MIN_MATCH..MAX_OFFSET
    BY <1>2 DEF EInv, FinderBounded
  <2>2. /\ MAX_MATCH \in Nat /\ MAX_MATCH =< 18 /\ MAX_OFFSET \in Nat /\ MAX_OFFSET =< 4098
        /\ l > MATCH_THRESHOLD
    BY <1>1, <1>3, MatchAssumption
  <2>. HIDE DEF l, back
  <2>. QED
    BY <2>1, <2>2 DEF MIN_MATCH, MATCH_THRESHOLD
<1>. HIDE DEF l, back
<1>5. high \in Byte /\ low \in Byte
  <2>0. PICK far \in 0..4095 : far = span
    BY <1>4 DEF MIN_MATCH, MATCH_THRESHOLD
  <2>. HIDE DEF span
  <2>1. (l - 3) * 16 + far \div 256 \in Byte /\ far % 256 \in Byte
    BY <1>4, SMTT(60) DEF Byte, MATCH_THRESHOLD
  <2>. QED
    BY <1>3, <2>0, <2>1 DEF MIN_MATCH, MATCH_THRESHOLD
<1>. HIDE DEF span, high, low
<1>7. Flagged(1) \in Byte
  BY FlaggedByte
<1>8. output' \in [0..(worst_case_len(len) - 1) -> Byte]
  BY <1>1, <1>5, <1>7 DEF EInv, EncTypeOK
<1>. QED
  BY <1>1, <1>3, <1>4, <1>8, CodeEInv DEF MATCH_THRESHOLD

\* A literal: one byte for one.
LEMMA EmitLiteralEInv == EInv /\ EmitLiteral => EInv'
<1>. SUFFICES ASSUME EInv, EmitLiteral PROVE EInv'
  OBVIOUS
<1>1. /\ NextCode
      /\ output' = [output EXCEPT ![flag1] = Flagged(0), ![write1] = At(input, read_pos)]
      /\ TrackSplit(write1 + 1, read_pos + 1)
  BY DEF EmitLiteral
<1>2. read_pos \in 0..(len - 1) /\ len \in Nat
  BY <1>1 DEF EInv, EncTypeOK, NextCode, len
<1>3. At(input, read_pos) \in Byte
  BY <1>2 DEF At, EInv, EncTypeOK
<1>4. Flagged(0) \in Byte
  BY FlaggedByte
<1>5. output' \in [0..(worst_case_len(len) - 1) -> Byte]
  BY <1>1, <1>3, <1>4 DEF EInv, EncTypeOK
<1>6. read_pos + 1 =< len
  BY <1>2
<1>. QED
  BY <1>1, <1>5, <1>6, CodeEInv

\* What is known when the encoding loop is over.
LEMMA EncodedFacts ==
  ASSUME EInv
  PROVE  /\ data \in Seq(Byte) /\ len \in Nat /\ write_pos \in Nat /\ mask \in Masks
         /\ worst_case_len(len) \in Nat /\ write_pos =< worst_case_len(len)
         /\ output \in [0..(worst_case_len(len) - 1) -> Byte]
         /\ mask # 0 => flag_pos \in 0..(worst_case_len(len) - 1)
         /\ PadTo4(len) \in 0..3 /\ best_packed \in Nat /\ best_remaining \in 0..len
         /\ split \in Nat /\ PadTo4(split) \in 0..3
<1>1. /\ data \in Seq(Byte) /\ len \in Nat /\ write_pos \in Nat /\ mask \in Masks
      /\ flag_pos \in Nat /\ read_pos \in 0..len
      /\ best_packed \in Nat /\ best_remaining \in 0..len
      /\ output \in [0..(worst_case_len(len) - 1) -> Byte]
      /\ 8 * write_pos =< 9 * read_pos + 7
  BY DEF EInv, EncTypeOK, FlagBytesPaid, len
<1>2. worst_case_len(len) \in Nat /\ write_pos =< worst_case_len(len)
  BY <1>1, WorstCase
<1>3. mask # 0 => flag_pos < write_pos
  BY DEF EInv, FlagReserved
<1>4. split \in Nat
  BY <1>1 DEF split
<1>. QED
  BY <1>1, <1>2, <1>3, <1>4, PadIs

\* What output becomes once the flag byte is flushed.
Flushed == IF mask = 0 THEN output
           ELSE [output EXCEPT ![flag_pos] = (@ * mask) % 256]

\* Reversing the packed bytes stays in bytes.
LEMMA UnreversedBytes ==
  ASSUME EInv
  PROVE  Unreversed \in [0..(worst_case_len(len) - 1) -> Byte]
<1>. DEFINE D == 0..(worst_case_len(len) - 1)
<1>1. output \in [D -> Byte] /\ DOMAIN output = D
  BY EncodedFacts
<1>2. ASSUME NEW i \in D
      PROVE  (IF i < write_pos THEN output[write_pos - 1 - i] ELSE output[i]) \in Byte
  <2>1. CASE i < write_pos
    <3>1. write_pos - 1 - i \in D
      BY <2>1, EncodedFacts, SMTT(60)
    <3>. QED
      BY <1>1, <2>1, <3>1
  <2>2. CASE ~(i < write_pos)
    BY <1>1, <2>2
  <2>. QED
    BY <2>1, <2>2
<1>. QED
  BY <1>1, <1>2 DEF Unreversed

\* Leaving the loop changes nothing else.
LEMMA EndLoopEInv == EInv /\ EndLoop => EInv'
<1>. SUFFICES ASSUME EInv, EndLoop PROVE EInv'
  OBVIOUS
<1>1. /\ pc = "encode" /\ read_pos = len /\ pc' = "flush"
      /\ UNCHANGED <<data, input, finder, output, read_pos, write_pos, flag_pos, mask, best_packed,
                     best_remaining, moved, written>>
  BY DEF EndLoop
<1>2. len' = len /\ split' = split
  BY <1>1 DEF len, split
<1>3. EncTypeOK' /\ FinderBounded' /\ FlagReserved'
  BY <1>1, <1>2 DEF EInv, EncTypeOK, FinderBounded, FlagReserved
<1>4. FlagBytesPaid' /\ BestSplit' /\ LayoutChosen'
  BY <1>1, <1>2 DEF EInv, FlagBytesPaid, BestSplit, LayoutChosen
<1>. QED
  BY <1>3, <1>4 DEF EInv

\* A bit shifted out of the mask keeps it a mask, one that is set.
LEMMA MaskHalved ==
  ASSUME mask \in Masks, Unflushed
  PROVE  mask \div 2 \in Masks \ {0} /\ mask # 0
BY DEF Masks, Unflushed

\* One turn of the flush loop.
LEMMA FlushBitEInv == EInv /\ FlushBit => EInv'
<1>. SUFFICES ASSUME EInv, FlushBit PROVE EInv'
  OBVIOUS
<1>1. /\ pc = "flush" /\ pc' = "flush" /\ Unflushed /\ mask' = mask \div 2
      /\ output' = [output EXCEPT ![flag_pos] = (2 * output[flag_pos]) % 256]
      /\ UNCHANGED <<data, input, finder, read_pos, write_pos, flag_pos, best_packed, best_remaining, moved, written>>
  BY DEF FlushBit
<1>2. len' = len /\ split' = split
  BY <1>1 DEF len, split
<1>3. mask' \in Masks /\ mask # 0
  BY <1>1, MaskHalved DEF EInv, EncTypeOK
<1>4. output' \in [0..(worst_case_len(len) - 1) -> Byte]
  <2>1. output[flag_pos] \in Byte
    BY <1>3, EncodedFacts
  <2>2. (2 * output[flag_pos]) % 256 \in Byte
    BY <2>1 DEF Byte
  <2>. QED
    BY <1>1, <2>2, EncodedFacts
<1>5. EncTypeOK'
  BY <1>1, <1>2, <1>3, <1>4 DEF EInv, EncTypeOK
<1>6. FinderBounded' /\ FlagReserved'
  BY <1>1, <1>2, <1>3 DEF EInv, FinderBounded, FlagReserved
<1>7. FlagBytesPaid' /\ BestSplit' /\ LayoutChosen'
  BY <1>1, <1>2 DEF EInv, FlagBytesPaid, BestSplit, LayoutChosen
<1>. QED
  BY <1>5, <1>6, <1>7 DEF EInv

\* Each turn brings the bytes nearer to what they are once flushed.
LEMMA FlushBitKeeps == EInv /\ FlushBit => Flushed' = Flushed
<1>. SUFFICES ASSUME EInv, FlushBit PROVE Flushed' = Flushed
  OBVIOUS
<1>. DEFINE x == output[flag_pos]
<1>1. /\ Unflushed /\ mask' = mask \div 2 /\ flag_pos' = flag_pos
      /\ output' = [output EXCEPT ![flag_pos] = (2 * x) % 256]
  BY DEF FlushBit
<1>2. mask \in Masks /\ mask # 0 /\ mask # 1 /\ mask \div 2 # 0
  BY <1>1, MaskHalved DEF EInv, EncTypeOK, Unflushed
<1>3. x \in Byte /\ flag_pos \in DOMAIN output /\ output \in [0..(worst_case_len(len) - 1) -> Byte]
  BY <1>2, EncodedFacts
<1>4. Flushed = [output EXCEPT ![flag_pos] = (x * mask) % 256]
  BY <1>2 DEF Flushed
<1>5. Flushed' = [output' EXCEPT ![flag_pos] = (output'[flag_pos] * (mask \div 2)) % 256]
  BY <1>1, <1>2 DEF Flushed
<1>6. output'[flag_pos] = (2 * x) % 256
  BY <1>1, <1>3
<1>7. ASSUME NEW y \in Byte, NEW m \in Masks \ {0, 1} PROVE (((2 * y) % 256) * (m \div 2)) % 256 = (y * m) % 256
  <2>1. PICK k \in {1, 2, 4, 8, 16, 32, 64} : m = 2 * k /\ m \div 2 = k
    BY DEF Masks
  <2>2. y \in Nat /\ y < 256
    BY DEF Byte
  <2>3. (2 * y) % 256 = IF y < 128 THEN 2 * y ELSE 2 * y - 256
    BY <2>2
  <2>4. PICK d \in {0, 1} : (2 * y) % 256 = 2 * y - 256 * d
    BY <2>2, <2>3
  <2>5. ((2 * y - 256 * d) * k) % 256 = (y * (2 * k)) % 256
    BY <2>2
  <2>. QED
    BY <2>1, <2>4, <2>5
<1>8. (output'[flag_pos] * (mask \div 2)) % 256 = (x * mask) % 256
  BY <1>2, <1>3, <1>6, <1>7
<1>. HIDE DEF x
<1>. QED
  BY <1>1, <1>4, <1>5, <1>8, ZenonT(60)

\* Once the loop is left nothing is owed to the flag byte.
LEMMA FlushedDone ==
  ASSUME EInv, ~Unflushed
  PROVE  Flushed = output
<1>1. CASE mask = 0
  BY <1>1 DEF Flushed
<1>2. CASE mask = 1
  <2>1. output[flag_pos] \in Byte /\ output \in [0..(worst_case_len(len) - 1) -> Byte]
    BY <1>2, EncodedFacts
  <2>2. (output[flag_pos] * 1) % 256 = output[flag_pos]
    <3>1. ASSUME NEW y \in Byte PROVE (y * 1) % 256 = y
      BY DEF Byte
    <3>. QED
      BY <2>1, <3>1
  <2>. QED
    BY <1>2, <2>1, <2>2 DEF Flushed
<1>. QED
  BY <1>1, <1>2 DEF Unflushed

\* The step after the flush loop, whichever layout follows.
LEMMA AfterEncoding ==
  ASSUME EInv, read_pos = len, pc' \in {"relocate", "done"},
         UNCHANGED <<data, finder, read_pos, write_pos, flag_pos, mask, best_packed, best_remaining, moved>>,
         input' = Reverse(input), written' \in Nat, written' =< len + PadTo4(len) + 4,
         output' \in [0..(worst_case_len(len) - 1) -> Byte],
         pc' = "relocate" => ~StoreRaw
  PROVE  EInv'
<1>1. len' = len /\ StoreRaw' = StoreRaw /\ split' = split
  BY DEF len, StoreRaw, trailer_fits, split
<1>2. mask' \in Masks /\ (mask' # 0 => mask # 0)
  BY DEF EInv, EncTypeOK
<1>3. input' \in Seq(Byte) /\ Len(input') = len
  BY ReverseIs DEF EInv, EncTypeOK
<1>4. EncTypeOK'
  BY <1>1, <1>2, <1>3 DEF EInv, EncTypeOK
<1>5. FinderBounded' /\ BestSplit' /\ FlagReserved'
  BY <1>1, <1>2 DEF EInv, FinderBounded, BestSplit, FlagReserved
<1>6. FlagBytesPaid'
  BY DEF EInv, FlagBytesPaid
<1>7. LayoutChosen'
  BY <1>1 DEF EInv, LayoutChosen
<1>. QED
  BY <1>4, <1>5, <1>6, <1>7 DEF EInv

\* The stored form: padding, four bytes.
LEMMA StoreUncompressedEInv == EInv /\ StoreUncompressed => EInv'
<1>. SUFFICES ASSUME EInv, StoreUncompressed PROVE EInv'
  OBVIOUS
<1>. DEFINE end == len + PadTo4(len)
<1>1. /\ read_pos = len /\ input' = Reverse(input) /\ written' = end + 4 /\ pc' = "done"
      /\ output' = [i \in DOMAIN output |->
                      IF i < len THEN At(input', i) ELSE IF i < end + 4 THEN 0 ELSE Unreversed[i]]
      /\ UNCHANGED <<data, finder, read_pos, write_pos, flag_pos, mask, best_packed, best_remaining, moved>>
  BY DEF StoreUncompressed, EInv, LayoutChosen
<1>2. input' \in Seq(Byte) /\ Len(input') = len /\ len \in Nat
  BY <1>1, ReverseIs DEF EInv, EncTypeOK, len
<1>3. DOMAIN output = 0..(worst_case_len(len) - 1)
  BY EncodedFacts
<1>4. ASSUME NEW i \in 0..(worst_case_len(len) - 1)
      PROVE  (IF i < len THEN At(input', i) ELSE IF i < end + 4 THEN 0 ELSE Unreversed[i]) \in Byte
  <2>1. i < len => At(input', i) \in Byte
    BY <1>2 DEF At
  <2>2. Unreversed[i] \in Byte
    BY UnreversedBytes
  <2>3. 0 \in Byte
    BY DEF Byte
  <2>. QED
    BY <2>1, <2>2, <2>3
<1>5. output' \in [0..(worst_case_len(len) - 1) -> Byte]
  BY <1>1, <1>3, <1>4
<1>6. written' \in Nat /\ written' =< len + PadTo4(len) + 4
  BY <1>1, EncodedFacts, SMTT(60)
<1>. QED
  BY <1>1, <1>5, <1>6, AfterEncoding

\* The packed form is chosen.
LEMMA BeginStorePackedEInv == EInv /\ BeginStorePacked => EInv'
<1>. SUFFICES ASSUME EInv, BeginStorePacked PROVE EInv'
  OBVIOUS
<1>1. /\ read_pos = len /\ input' = Reverse(input) /\ pc' = "relocate" /\ ~StoreRaw
      /\ output' = Unreversed
      /\ UNCHANGED <<data, finder, read_pos, write_pos, flag_pos, mask, best_packed, best_remaining,
                     moved, written>>
  BY DEF BeginStorePacked, EInv, LayoutChosen
<1>2. output' \in [0..(worst_case_len(len) - 1) -> Byte]
  BY <1>1, UnreversedBytes
<1>3. written' \in Nat /\ written' =< len + PadTo4(len) + 4
  BY <1>1 DEF EInv, EncTypeOK, LayoutChosen
<1>. QED
  BY <1>1, <1>2, <1>3, AfterEncoding

\* Once the layout is chosen the packed bytes kept fit below those written.
LEMMA PackedFacts ==
  ASSUME EInv, pc = "relocate"
  PROVE  /\ best_remaining =< packed_start /\ packed_start \in Nat
         /\ packed_start + best_packed = write_pos
         /\ split + PadTo4(split) + FOOTER_SIZE < len
         /\ extra_len \in Nat /\ extra_len > 0
<1>1. /\ len \in Nat /\ write_pos \in Nat /\ best_packed \in Nat /\ best_remaining \in 0..len
      /\ split \in Nat /\ PadTo4(split) \in 0..3
  BY EncodedFacts
<1>2. best_packed + best_remaining =< write_pos
  BY <1>1 DEF EInv, BestSplit, LayoutChosen, split
<1>3. len - split > packed_header_size(split)
  BY DEF EInv, LayoutChosen, StoreRaw, trailer_fits
<1>. QED
  BY <1>1, <1>2, <1>3 DEF packed_start, packed_len, packed_header_size, FOOTER_SIZE, extra_len

\* A step of store_packed that only writes bytes.
LEMMA RelocatingEInv ==
  ASSUME EInv, pc = "relocate", pc' \in {"relocate", "done"},
         UNCHANGED <<data, input, finder, read_pos, write_pos, flag_pos, mask, best_packed, best_remaining>>,
         moved' \in 0..best_packed, written' \in Nat, written' =< len + PadTo4(len) + 4,
         output' \in [0..(worst_case_len(len) - 1) -> Byte]
  PROVE  EInv'
<1>1. len' = len /\ StoreRaw' = StoreRaw /\ split' = split
  BY DEF len, StoreRaw, trailer_fits, split
<1>2. EncTypeOK'
  BY <1>1 DEF EInv, EncTypeOK
<1>3. FinderBounded' /\ BestSplit' /\ FlagReserved'
  BY <1>1 DEF EInv, FinderBounded, BestSplit, FlagReserved
<1>4. FlagBytesPaid'
  BY DEF EInv, FlagBytesPaid
<1>5. LayoutChosen'
  BY <1>1 DEF EInv, LayoutChosen
<1>. QED
  BY <1>2, <1>3, <1>4, <1>5 DEF EInv

\* One byte of the packed region is moved.
LEMMA RelocateEInv == EInv /\ Relocate => EInv'
<1>. SUFFICES ASSUME EInv, Relocate PROVE EInv'
  OBVIOUS
<1>1. /\ pc = "relocate" /\ moved < best_packed /\ moved' = moved + 1
      /\ output' = [output EXCEPT ![best_remaining + moved] = output[packed_start + moved]]
      /\ UNCHANGED <<pc, data, input, finder, read_pos, write_pos, flag_pos, mask, best_packed,
                     best_remaining, written>>
  BY DEF Relocate
<1>2. moved \in 0..best_packed /\ written \in Nat /\ written =< len + PadTo4(len) + 4
  BY DEF EInv, EncTypeOK, LayoutChosen
<1>3. packed_start + moved \in 0..(worst_case_len(len) - 1)
  <2>1. packed_start \in Nat /\ packed_start + best_packed = write_pos
    BY <1>1, PackedFacts
  <2>2. /\ worst_case_len(len) \in Nat /\ write_pos \in Nat /\ best_packed \in Nat
        /\ write_pos =< worst_case_len(len)
    BY EncodedFacts
  <2>. QED
    BY <1>1, <1>2, <2>1, <2>2
<1>4. output[packed_start + moved] \in Byte
  BY <1>3, EncodedFacts
<1>5. output' \in [0..(worst_case_len(len) - 1) -> Byte]
  BY <1>1, <1>4, EncodedFacts
<1>6. moved' \in 0..best_packed
  BY <1>1, <1>2, EncodedFacts, SMTT(60)
<1>. QED
  BY <1>1, <1>2, <1>5, <1>6, RelocatingEInv

\* Copying bytes into a buffer leaves a buffer.
LEMMA CopyIntoBytes ==
  ASSUME NEW D \in SUBSET Nat, NEW f \in [D -> Byte], NEW at \in Nat, NEW n \in Nat, NEW b,
         \A i \in 0..(n - 1) : b[i] \in Byte
  PROVE  CopyInto(f, at, b, n) \in [D -> Byte]
<1>1. ASSUME NEW i \in D PROVE (IF i \in at..(at + n - 1) THEN b[i - at] ELSE f[i]) \in Byte
  <2>1. i \in at..(at + n - 1) => i - at \in 0..(n - 1)
    OBVIOUS
  <2>. QED
    BY <2>1
<1>. QED
  BY <1>1 DEF CopyInto

\* The bytes of a little-endian word are bytes.
LEMMA LE32Bytes ==
  ASSUME NEW x \in Nat
  PROVE  \A i \in 0..3 : LE32(x)[i] \in Byte
<1>. SUFFICES ASSUME NEW i \in 0..3 PROVE LE32(x)[i] \in Byte
  OBVIOUS
<1>1. i = 0 \/ i = 1 \/ i = 2 \/ i = 3
  OBVIOUS
<1>2. /\ x % 256 \in Byte /\ (x \div 1) % 256 \in Byte /\ (x \div 256) % 256 \in Byte
      /\ (x \div 65536) % 256 \in Byte /\ (x \div 16777216) % 256 \in Byte
  BY DEF Byte
<1>3. LE32(x)[i] = (x \div (IF i = 0 THEN 1 ELSE IF i = 1 THEN 256
                            ELSE IF i = 2 THEN 65536 ELSE 16777216)) % 256
  BY DEF LE32
<1>. QED
  BY <1>1, <1>2, <1>3

\* The prefix, the padding and the three words of the trailer.
LEMMA WriteTrailerEInv == EInv /\ WriteTrailer => EInv'
<1>. SUFFICES ASSUME EInv, WriteTrailer PROVE EInv'
  OBVIOUS
<1>. DEFINE D == 0..(worst_case_len(len) - 1)
            trailer == split + PadTo4(split)
            raw == [i \in 0..(best_remaining - 1) |-> At(input, i)]
            ff == [i \in 0..2 |-> 255]
            prefixed == CopyInto(output, 0, raw, best_remaining)
            padded == CopyInto(prefixed, split, ff, PadTo4(split))
            withEnc == CopyInto(padded, trailer, LE32(enc_len), 4)
            withHeader == CopyInto(withEnc, trailer + 4, LE32(packed_header_size(split)), 4)
            full == CopyInto(withHeader, trailer + 8, LE32(extra_len), 4)
<1>1. /\ pc = "relocate" /\ moved = best_packed /\ pc' = "done"
      /\ output' = full /\ written' = trailer + FOOTER_SIZE
      /\ UNCHANGED <<data, input, finder, read_pos, write_pos, flag_pos, mask, best_packed,
                     best_remaining, moved>>
  BY DEF WriteTrailer
<1>2. /\ split \in Nat /\ PadTo4(split) \in 0..3 /\ trailer \in Nat /\ trailer + FOOTER_SIZE < len
      /\ extra_len \in Nat /\ best_packed \in Nat /\ best_remaining \in 0..len /\ len \in Nat
      /\ D \in SUBSET Nat /\ output \in [D -> Byte] /\ PadTo4(len) \in 0..3
  <2>1. /\ split \in Nat /\ PadTo4(split) \in 0..3 /\ best_packed \in Nat
        /\ best_remaining \in 0..len /\ len \in Nat /\ PadTo4(len) \in 0..3
        /\ worst_case_len(len) \in Nat /\ output \in [D -> Byte]
    BY EncodedFacts
  <2>2. split + PadTo4(split) + FOOTER_SIZE < len /\ extra_len \in Nat
    BY <1>1, PackedFacts
  <2>3. trailer \in Nat /\ trailer + FOOTER_SIZE < len
    BY <2>1, <2>2
  <2>. QED
    BY <2>1, <2>2, <2>3
<1>3. packed_header_size(split) \in Nat /\ enc_len \in Nat
  <2>1. PadTo4(split) \in Nat /\ best_packed \in Nat
    BY <1>2
  <2>. QED
    BY ONLY <2>1 DEF packed_header_size, enc_len, FOOTER_SIZE
<1>. HIDE DEF D, trailer
<1>4. prefixed \in [D -> Byte]
  <2>1. \A i \in 0..(best_remaining - 1) : raw[i] \in Byte
    BY <1>2 DEF EInv, EncTypeOK, At
  <2>. HIDE DEF raw
  <2>. QED
    BY <1>2, <2>1, CopyIntoBytes
<1>5. padded \in [D -> Byte]
  <2>1. \A i \in 0..(PadTo4(split) - 1) : ff[i] \in Byte
    BY <1>2 DEF Byte
  <2>2. PadTo4(split) \in Nat /\ split \in Nat /\ D \in SUBSET Nat
    BY <1>2
  <2>. HIDE DEF ff, prefixed
  <2>. QED
    BY <1>4, <2>1, <2>2, CopyIntoBytes
<1>6. ASSUME NEW f \in [D -> Byte], NEW at \in Nat, NEW x \in Nat
      PROVE  CopyInto(f, at, LE32(x), 4) \in [D -> Byte]
  <2>1. \A i \in 0..(4 - 1) : LE32(x)[i] \in Byte
    BY LE32Bytes
  <2>. QED
    BY <1>2, <2>1, CopyIntoBytes
<1>. HIDE DEF padded
<1>7. withEnc \in [D -> Byte]
  BY <1>2, <1>3, <1>5, <1>6
<1>. HIDE DEF withEnc
<1>8. withHeader \in [D -> Byte]
  <2>1. trailer + 4 \in Nat
    BY <1>2
  <2>. QED
    BY <1>3, <1>6, <1>7, <2>1
<1>. HIDE DEF withHeader
<1>9. full \in [D -> Byte]
  <2>1. trailer + 8 \in Nat
    BY <1>2
  <2>. QED
    BY <1>2, <1>6, <1>8, <2>1
<1>. HIDE DEF full
<1>10. written' \in Nat /\ written' =< len + PadTo4(len) + 4 /\ moved' \in 0..best_packed
  BY <1>1, <1>2 DEF FOOTER_SIZE
<1>. QED
  BY <1>1, <1>9, <1>10, RelocatingEInv DEF D

\* Every step of the codec preserves the encoder's invariant.
LEMMA CodecNextEInv == EInv /\ [Next]_vars => EInv'
<1>. SUFFICES ASSUME EInv, [Next]_vars PROVE EInv'
  OBVIOUS
<1>1. CASE UNCHANGED encVars
  <2>1. len' = len /\ StoreRaw' = StoreRaw /\ split' = split
    BY <1>1 DEF encVars, len, StoreRaw, trailer_fits, split
  <2>2. EncTypeOK'
    BY <1>1, <2>1 DEF encVars, EInv, EncTypeOK
  <2>3. FinderBounded' /\ BestSplit' /\ FlagReserved'
    BY <1>1, <2>1 DEF encVars, EInv, FinderBounded, BestSplit, FlagReserved
  <2>4. FlagBytesPaid'
    BY <1>1 DEF encVars, EInv, FlagBytesPaid, Unused
  <2>5. LayoutChosen'
    BY <1>1, <2>1 DEF encVars, EInv, LayoutChosen
  <2>. QED
    BY <2>2, <2>3, <2>4, <2>5 DEF EInv
<1>2. CASE EncNext
  BY <1>2, EmitMatchEInv, EmitLiteralEInv, EndLoopEInv, FlushBitEInv, StoreUncompressedEInv, BeginStorePackedEInv,
     RelocateEInv, WriteTrailerEInv DEF EncNext
<1>3. CASE Hand \/ (DecNext /\ UNCHANGED encVars) \/ Finished \/ UNCHANGED vars
  BY <1>1, <1>3 DEF Hand, Finished, vars
<1>. QED
  BY <1>2, <1>3 DEF Next

(***************************************************************************)
(* The encoder's invariant holds in every reachable state.                 *)
(***************************************************************************)
THEOREM CodecInvariant == Spec => []EInv
BY EncInitEInv, CodecNextEInv, PTL DEF Spec

\* compress never writes past the worst_case_len bytes it allocated.
THEOREM CodecOutputFits == Spec => []OutputFits
<1>1. EInv => OutputFits
  <2>. SUFFICES ASSUME EInv PROVE OutputFits
    OBVIOUS
  <2>1. len \in Nat /\ written \in Nat /\ PadTo4(len) \in 0..3 /\ written =< len + PadTo4(len) + 4
    BY EncodedFacts DEF EInv, EncTypeOK, LayoutChosen
  <2>2. written =< len + 7
    BY <2>1
  <2>. QED
    BY <2>1, <2>2, EncodedFacts, WorstCase DEF OutputFits
<1>. QED
  BY <1>1, CodecInvariant, PTL

\* store_packed can move the packed region in place: it never reads a byte it
\* has overwritten.
THEOREM CodecRelocationReadsAhead == Spec => []RelocationReadsAhead
<1>1. EInv => RelocationReadsAhead
  BY PackedFacts DEF RelocationReadsAhead
<1>. QED
  BY <1>1, CodecInvariant, PTL

\* A stream is never longer than its stored form.
THEOREM CodecNeverLarger == Spec => []NeverLarger
<1>1. EInv => NeverLarger
  BY DEF EInv, LayoutChosen, NeverLarger
<1>. QED
  BY <1>1, CodecInvariant, PTL

\* The split is the cheapest of the boundaries passed, each a pair of positions.
SplitInv == SplitIsCheapest /\ boundaries \subseteq [w : Nat, r : Nat]

\* A code that ends at a new boundary keeps the split the cheapest one.
LEMMA TrackSplitCheapest ==
  ASSUME EInv, SplitInv, NEW w \in Nat, NEW r \in 0..len, TrackSplit(w, r), data' = data
  PROVE  SplitInv'
<1>1. /\ len \in Nat /\ best_packed \in Nat /\ best_remaining \in 0..len /\ len' = len
  BY DEF EInv, EncTypeOK, len
<1>2. /\ boundaries' = boundaries \union {[w |-> w, r |-> r]}
      /\ IF w + len - r < best_packed + best_remaining
         THEN best_packed' = w /\ best_remaining' = len - r
         ELSE UNCHANGED <<best_packed, best_remaining>>
  BY DEF TrackSplit
<1>3. /\ [w |-> best_packed, r |-> len - best_remaining] \in boundaries
      /\ \A at \in boundaries : best_packed + best_remaining =< at.w + len - at.r
  BY DEF SplitInv, SplitIsCheapest, split
<1>. HIDE DEF len
<1>6. boundaries \subseteq [w : Nat, r : Nat] /\ boundaries' \subseteq [w : Nat, r : Nat]
  BY <1>1, <1>2 DEF SplitInv
<1>7. \A at \in boundaries : at.w \in Nat /\ at.r \in Nat
  BY <1>6
<1>4. CASE w + len - r < best_packed + best_remaining
  <2>1. best_packed' = w /\ best_remaining' = len - r /\ len - (len - r) = r
    BY <1>1, <1>2, <1>4
  <2>2. [w |-> best_packed', r |-> len - best_remaining'] \in boundaries'
    BY <1>2, <2>1
  <2>. QED
    BY <1>1, <1>2, <1>3, <1>4, <1>6, <1>7, <2>1, <2>2 DEF SplitInv, SplitIsCheapest, split
<1>5. CASE ~(w + len - r < best_packed + best_remaining)
  <2>1. best_packed' = best_packed /\ best_remaining' = best_remaining
    BY <1>2, <1>5
  <2>. QED
    BY <1>1, <1>2, <1>3, <1>5, <1>6, <1>7, <2>1 DEF SplitInv, SplitIsCheapest, split
<1>. QED
  BY <1>4, <1>5

\* Every code of the encoder is followed by TrackSplit at its boundary; nothing
\* else touches the split.
LEMMA NextSplitCheapest == EInv /\ EInv' /\ SplitInv /\ [Next]_vars => SplitInv'
<1>. SUFFICES ASSUME EInv, EInv', SplitInv, [Next]_vars PROVE SplitInv'
  OBVIOUS
<1>1. ASSUME UNCHANGED <<data, best_packed, best_remaining, boundaries>> PROVE SplitInv'
  BY <1>1 DEF SplitInv, SplitIsCheapest, split, len
<1>2. ASSUME NEW w \in Int, NEW r \in Int, TrackSplit(w, r), data' = data PROVE SplitInv'
  <2>1. w \in Nat /\ r \in 0..len
    BY <1>2 DEF TrackSplit, EInv, EncTypeOK, len
  <2>. QED
    BY <1>2, <2>1, TrackSplitCheapest
<1>3. write1 \in Int /\ read_pos \in Int
  BY DEF EInv, EncTypeOK, write1
<1>4. CASE EmitMatch
  <2>1. TrackSplit(write1 + 2, read_pos + ChosenLen) /\ data' = data
    BY <1>4 DEF EmitMatch, NextCode
  <2>2. read_pos + ChosenLen \in Int
    BY <2>1 DEF TrackSplit, EInv, EncTypeOK, len
  <2>. QED
    BY <1>2, <1>3, <2>1, <2>2
<1>5. CASE EmitLiteral
  BY <1>2, <1>3, <1>5 DEF EmitLiteral, NextCode
<1>6. CASE EndLoop \/ FlushBit \/ StoreUncompressed \/ BeginStorePacked \/ Relocate \/ WriteTrailer
  BY <1>1, <1>6 DEF EndLoop, FlushBit, StoreUncompressed, BeginStorePacked, Relocate, WriteTrailer
<1>7. CASE Hand \/ (DecNext /\ UNCHANGED encVars) \/ Finished \/ UNCHANGED vars
  BY <1>1, <1>7 DEF Hand, Finished, vars, encVars
<1>. QED
  BY <1>4, <1>5, <1>6, <1>7 DEF Next, EncNext

\* compress starts at the first boundary.
LEMMA SplitInit == Init => SplitInv
<1>. SUFFICES ASSUME Init PROVE SplitInv
  OBVIOUS
<1>1. len \in Nat
  BY InputsAssumption DEF Init, EncInit, len
<1>2. best_packed = 0 /\ best_remaining = len /\ boundaries = {[w |-> 0, r |-> 0]}
  BY DEF Init, EncInit, len
<1>. QED
  BY <1>1, <1>2 DEF SplitInv, SplitIsCheapest, split

\* The split compress lays out is a code boundary, and the cheapest it passed.
THEOREM CodecSplitIsCheapest == Spec => []SplitIsCheapest
BY SplitInit, NextSplitCheapest, CodecInvariant, PTL DEF Spec, SplitInv
-----------------------------------------------------------------------------
(***************************************************************************)
(* The decoder                                                             *)
(***************************************************************************)
\* A call that reached the loop has a full trailer behind it.
TrailerRead == dpc = "decode" => total >= 12

DInv == DecTypeOK /\ TrailerRead /\ IndexesInBounds /\ OkHasWantedLength

\* Four bytes make a natural number, whatever they are.
LEMMA FourBytesNat ==
  ASSUME NEW a \in OutByte, NEW b \in OutByte, NEW c \in OutByte, NEW d \in OutByte
  PROVE  a + 256 * b + 65536 * c + 16777216 * d \in Nat
BY DEF OutByte

\* TrailingU32 reads a natural number when the stream is long enough.
LEMMA TrailingU32Nat ==
  ASSUME stream \in Seq(OutByte), NEW k \in 4..12, total >= k
  PROVE  TrailingU32(k) \in Nat
<1>. DEFINE at == total - k
<1>1. /\ total \in Nat /\ at \in Nat
      /\ at + 1 \in 1..total /\ at + 2 \in 1..total /\ at + 3 \in 1..total /\ at + 4 \in 1..total
  BY DEF total
<1>2. /\ stream[at + 1] \in OutByte /\ stream[at + 2] \in OutByte
      /\ stream[at + 3] \in OutByte /\ stream[at + 4] \in OutByte
  BY <1>1, SMTT(60) DEF total
<1>3. PICK a \in OutByte, b \in OutByte, c \in OutByte, d \in OutByte :
        /\ a = stream[at + 1] /\ b = stream[at + 2] /\ c = stream[at + 3] /\ d = stream[at + 4]
  BY <1>2
<1>4. TrailingU32(k) = a + 256 * b + 65536 * c + 16777216 * d
  BY <1>3 DEF TrailingU32, total
<1>. QED
  BY <1>4, FourBytesNat

\* Every initial state satisfies the invariant.
LEMMA DecInitIInv == DecompressInit => DInv
BY StreamsAssumption, SizesAssumption
   DEF DecompressInit, DInv, DecTypeOK, TrailerRead, IndexesInBounds, OkHasWantedLength, OutByte, Errors

\* Returning an error preserves the invariant from any state.
LEMMA FailIInv ==
  ASSUME DInv, NEW error \in Errors, Fail(error)
  PROVE  DInv'
BY DEF DInv, DecTypeOK, TrailerRead, IndexesInBounds, OkHasWantedLength, Fail, Errors

\* What one iteration of the decoding loop has to establish.
LEMMA DecodeStepIInv ==
  ASSUME DInv, dpc = "decode", UNCHANGED <<dpc, stream, want, start>>,
         cmp' \in Nat, start =< cmp', cmp' =< cmp,
         dst' \in Nat, dst' =< dst,
         out' \in [0..(OutLen - 1) -> OutByte],
         flags' \in OutByte, bits' \in 0..8, pending' \in 0..18, distance' \in 0..4098
  PROVE  DInv'
<1>1. OutLen' = OutLen /\ total' = total
  BY DEF OutLen, total, TrailingU32
<1>2. DecTypeOK'
  BY DEF DInv, DecTypeOK
<1>3. TrailerRead' /\ OkHasWantedLength'
  BY <1>1 DEF DInv, TrailerRead, OkHasWantedLength
<1>4. total \in Nat /\ OutLen \in Nat
  <2>1. total \in Nat /\ total >= 12 /\ stream \in Seq(OutByte)
    BY DEF DInv, DecTypeOK, TrailerRead, total
  <2>2. TrailingU32(4) \in Nat
    BY <2>1, TrailingU32Nat
  <2>. QED
    BY <2>1, <2>2 DEF OutLen
<1>5. cmp' < total /\ dst' =< OutLen
  BY <1>4 DEF DInv, DecTypeOK, IndexesInBounds
<1>6. IndexesInBounds'
  BY <1>1, <1>5 DEF IndexesInBounds
<1>. QED
  BY <1>2, <1>3, <1>6 DEF DInv

\* What the loop may rely on: the buffer holds the whole stream and what it
\* expands to, and every byte of it is a byte.
LEMMA DecodeFacts ==
  ASSUME DInv, dpc = "decode"
  PROVE  /\ total \in Nat /\ OutLen \in Nat /\ total =< OutLen
         /\ cmp \in Nat /\ dst \in Nat /\ start \in Nat /\ start =< cmp /\ cmp < total
         /\ dst =< OutLen /\ bits \in 0..8 /\ flags \in OutByte /\ pending \in 0..18
         /\ distance \in 0..4098
         /\ out \in [0..(OutLen - 1) -> OutByte]
         /\ \A i \in 0..(OutLen - 1) : out[i] \in OutByte
<1>1. total \in Nat /\ TrailingU32(4) \in Nat
  BY TrailingU32Nat, SMTT(60) DEF DInv, DecTypeOK, TrailerRead, total
<1>2. OutLen \in Nat /\ total =< OutLen
  BY <1>1 DEF OutLen
<1>. QED
  BY <1>1, <1>2 DEF DInv, DecTypeOK, IndexesInBounds

\* The flag byte stays a byte when it is shifted.
LEMMA ShiftedFlag ==
  ASSUME NEW f \in OutByte
  PROVE  (2 * f) % 256 \in OutByte
BY DEF OutByte

\* What the two bytes of a back-reference can hold.
LEMMA CodeFields ==
  ASSUME NEW f \in OutByte, NEW b \in OutByte
  PROVE  /\ f \div 16 + 3 \in 0..18
         /\ (f % 16) * 256 + b + 3 \in 0..4098
BY DEF OutByte

\* Every step of decompress preserves the invariant.
LEMMA DecNextIInv == DInv /\ [DecompressNext]_decVars => DInv'
<1>. SUFFICES ASSUME DInv, [DecompressNext]_decVars PROVE DInv'
  OBVIOUS
<1>0. /\ stream \in Seq(OutByte) /\ want \in Nat /\ total \in Nat
      /\ total >= 4 => TrailingU32(4) \in Nat
      /\ total >= 12 => TrailingU32(8) \in Nat /\ TrailingU32(12) \in Nat
  BY TrailingU32Nat, SMTT(60) DEF DInv, DecTypeOK, total
<1>1. CASE UNCHANGED decVars
  BY <1>1 DEF DInv, DecTypeOK, TrailerRead, IndexesInBounds, OkHasWantedLength,
              decVars, total, OutLen, TrailingU32
<1>2. CASE ParseTooSmall
  BY <1>2, FailIInv DEF ParseTooSmall, Errors
<1>3. CASE ParseStored
  <2>1. CASE want =< total - 4
    <3>1. Return([i \in 0..(want - 1) |-> stream[i + 1]])
      BY <1>3, <2>1 DEF ParseStored
    <3>2. DOMAIN out' = 0..(want - 1)
      BY <3>1 DEF Return
    <3>. QED
      BY <3>1, <3>2 DEF DInv, DecTypeOK, TrailerRead, IndexesInBounds, OkHasWantedLength, Return
  <2>2. CASE ~(want =< total - 4)
    BY <1>3, <2>2, FailIInv DEF ParseStored, Errors
  <2>. QED
    BY <2>1, <2>2
<1>4. CASE ParseMalformed
  BY <1>4, FailIInv DEF ParseMalformed, Errors
<1>5. CASE ParsePacked
  <2>. DEFINE final_len == total + TrailingU32(4)
  <2>1. /\ total >= 12 /\ ~Malformed
        /\ out' = [i \in 0..(final_len - 1) |-> IF i < total THEN stream[i + 1] ELSE 0]
        /\ dst' = final_len /\ start' = total - enc_len_read /\ cmp' = total - header_size
        /\ bits' = 0 /\ dpc' = "decode"
        /\ UNCHANGED <<stream, want, flags, pending, distance>>
    BY <1>5 DEF ParsePacked, Packed
  <2>2. OutLen' = final_len /\ total' = total
    BY <2>1 DEF OutLen, total, TrailingU32
  <2>3. start' \in Nat /\ cmp' \in Nat /\ start' =< cmp' /\ cmp' < total
    BY <1>0, <2>1, SMTT(60) DEF Malformed, header_size, enc_len_read
  <2>4. final_len \in Nat
    BY <1>0, <2>1, SMTT(60)
  <2>5. \A i \in 0..(final_len - 1) : (IF i < total THEN stream[i + 1] ELSE 0) \in OutByte
    <3>. SUFFICES ASSUME NEW i \in 0..(final_len - 1), i < total PROVE stream[i + 1] \in OutByte
      BY DEF OutByte
    <3>. QED
      BY <1>0, <2>4 DEF total
  <2>. HIDE DEF final_len
  <2>6. out' \in [0..(final_len - 1) -> OutByte]
    BY <2>1, <2>5 DEF final_len
  <2>7. DecTypeOK'
    BY <2>1, <2>3, <2>4 DEF DInv, DecTypeOK
  <2>8. TrailerRead' /\ OkHasWantedLength'
    BY <2>1, <2>2 DEF TrailerRead, OkHasWantedLength
  <2>9. IndexesInBounds'
    BY <2>1, <2>2, <2>3, <2>4, <2>6, SMTT(60) DEF IndexesInBounds
  <2>. QED
    BY <2>7, <2>8, <2>9 DEF DInv
<1>6. CASE ReadFlags
  <2>1. /\ dpc = "decode" /\ bits = 0 /\ cmp > start /\ cmp' = cmp - 1 /\ flags' = out[cmp - 1]
        /\ bits' = 8 /\ UNCHANGED <<dpc, stream, want, out, dst, start, pending, distance>>
    BY <1>6 DEF ReadFlags, Decoding
  <2>2. cmp - 1 \in 0..(OutLen - 1)
    BY <2>1, DecodeFacts, SMTT(60)
  <2>. QED
    BY <2>1, <2>2, DecodeFacts, DecodeStepIInv
<1>7. CASE BreakGroup
  <2>1. dpc = "decode" /\ bits' = 0
        /\ UNCHANGED <<dpc, stream, want, out, cmp, dst, start, flags, pending, distance>>
    BY <1>7 DEF BreakGroup, Decoding
  <2>. QED
    BY <2>1, DecodeFacts, DecodeStepIInv
<1>8. CASE CopyLiteral
  <2>1. CASE dst = 0
    BY <1>8, <2>1, FailIInv, SMTT(60) DEF CopyLiteral, Errors
  <2>2. CASE dst # 0
    <3>1. /\ dpc = "decode" /\ bits > 0 /\ cmp > start /\ cmp' = cmp - 1 /\ dst' = dst - 1
          /\ out' = [out EXCEPT ![dst - 1] = out[cmp - 1]]
          /\ flags' = (2 * flags) % 256 /\ bits' = bits - 1
          /\ UNCHANGED <<dpc, stream, want, start, pending, distance>>
      BY <1>8, <2>2 DEF CopyLiteral, InCode, Decoding, NextBit
    <3>2. cmp - 1 \in 0..(OutLen - 1)
      BY <3>1, DecodeFacts, SMTT(60)
    <3>3. out' \in [0..(OutLen - 1) -> OutByte]
      <4>1. out \in [0..(OutLen - 1) -> OutByte] /\ out[cmp - 1] \in OutByte
        BY <3>1, <3>2, DecodeFacts
      <4>. QED
        BY <3>1, <4>1
    <3>4. flags' \in OutByte /\ bits' \in 0..8
      <4>1. flags \in OutByte /\ bits \in 0..8
        BY <3>1, DecodeFacts, SMTT(60)
      <4>. QED
        BY <3>1, <4>1, ShiftedFlag
    <3>5. /\ cmp' \in Nat /\ start =< cmp' /\ cmp' =< cmp /\ dst' \in Nat /\ dst' =< dst
          /\ pending' \in 0..18 /\ distance' \in 0..4098
      BY <2>2, <3>1, DecodeFacts, SMTT(60)
    <3>. QED
      BY <3>1, <3>3, <3>4, <3>5, DecodeStepIInv
  <2>. QED
    BY <2>1, <2>2
<1>9. CASE BeginMatch
  <2>1. CASE cmp - start < 2
    BY <1>9, <2>1, FailIInv DEF BeginMatch, Errors
  <2>2. CASE ~(cmp - start < 2)
    <3>1. /\ dpc = "decode" /\ bits > 0 /\ cmp > start /\ cmp' = cmp - 2
          /\ pending' = out[cmp - 1] \div 16 + 3
          /\ distance' = (out[cmp - 1] % 16) * 256 + out[cmp - 2] + 3
          /\ flags' = (2 * flags) % 256 /\ bits' = bits - 1
          /\ UNCHANGED <<dpc, stream, want, out, dst, start>>
      BY <1>9, <2>2 DEF BeginMatch, InCode, Decoding, NextBit
    <3>a. /\ cmp \in Nat /\ start \in Nat /\ total \in Nat /\ OutLen \in Nat
          /\ cmp < total /\ total =< OutLen
      BY <3>1, DecodeFacts
    <3>2. cmp - 1 \in 0..(OutLen - 1) /\ cmp - 2 \in 0..(OutLen - 1)
      BY <2>2, <3>a
    <3>3. out[cmp - 1] \in OutByte /\ out[cmp - 2] \in OutByte
      BY <3>1, <3>2, DecodeFacts
    <3>b. flags \in OutByte /\ bits \in 0..8
      BY <3>1, DecodeFacts, SMTT(60)
    <3>4. pending' \in 0..18 /\ distance' \in 0..4098
      <4>1. PICK f \in OutByte, b \in OutByte : f = out[cmp - 1] /\ b = out[cmp - 2]
        BY <3>3
      <4>2. pending' = f \div 16 + 3 /\ distance' = (f % 16) * 256 + b + 3
        BY <3>1, <4>1
      <4>. QED
        BY <4>2, CodeFields, SMTT(60)
    <3>5. flags' \in OutByte /\ bits' \in 0..8
      BY <3>1, <3>b, ShiftedFlag
    <3>6. cmp' \in Nat /\ start =< cmp' /\ cmp' =< cmp
      BY <2>2, <3>1, <3>a
    <3>c. dst \in Nat /\ out \in [0..(OutLen - 1) -> OutByte]
      BY <3>1, DecodeFacts
    <3>7. dst' \in Nat /\ dst' =< dst /\ out' \in [0..(OutLen - 1) -> OutByte]
      BY <3>1, <3>c
    <3>. QED
      BY <3>1, <3>4, <3>5, <3>6, <3>7, DecodeStepIInv
  <2>. QED
    BY <2>1, <2>2
<1>10. CASE CopyMatchByte
  <2>1. CASE dst = 0 \/ dst - 1 + distance >= OutLen
    BY <1>10, <2>1, FailIInv DEF CopyMatchByte, Errors
  <2>2. CASE ~(dst = 0 \/ dst - 1 + distance >= OutLen)
    <3>1. /\ dpc = "decode" /\ pending > 0 /\ dst' = dst - 1 /\ pending' = pending - 1
          /\ out' = [out EXCEPT ![dst - 1] = out[dst - 1 + distance]]
          /\ UNCHANGED <<dpc, stream, want, cmp, start, flags, bits, distance>>
      BY <1>10, <2>2 DEF CopyMatchByte
    <3>a. dst \in Nat /\ distance \in 0..4098 /\ OutLen \in Nat
      BY <3>1, DecodeFacts
    <3>2. dst - 1 + distance \in 0..(OutLen - 1)
      BY <2>2, <3>a
    <3>3. out' \in [0..(OutLen - 1) -> OutByte]
      <4>1. out \in [0..(OutLen - 1) -> OutByte] /\ out[dst - 1 + distance] \in OutByte
        BY <3>1, <3>2, DecodeFacts, SMTT(60)
      <4>. QED
        BY <3>1, <4>1
    <3>4. /\ cmp' \in Nat /\ start =< cmp' /\ cmp' =< cmp /\ dst' \in Nat /\ dst' =< dst
          /\ flags' \in OutByte /\ bits' \in 0..8 /\ pending' \in 0..18 /\ distance' \in 0..4098
      BY <2>2, <3>1, DecodeFacts, SMTT(60)
    <3>. QED
      BY <3>1, <3>3, <3>4, DecodeStepIInv
  <2>. QED
    BY <2>1, <2>2
<1>11. CASE Finish
  <2>1. CASE OutLen = want
    <3>1. dpc = "decode" /\ Return(out)
      BY <1>11, <2>1 DEF Finish, Decoding
    <3>2. DOMAIN out' = 0..(want - 1)
      BY <2>1, <3>1, DecodeFacts DEF Return
    <3>. QED
      BY <3>1, <3>2 DEF DInv, DecTypeOK, TrailerRead, IndexesInBounds, OkHasWantedLength, Return
  <2>2. CASE OutLen # want
    BY <1>11, <2>2, FailIInv DEF Finish, Errors
  <2>. QED
    BY <2>1, <2>2
<1>12. CASE Returned
  BY <1>1, <1>12 DEF Returned
<1>. QED
  BY <1>1, <1>2, <1>3, <1>4, <1>5, <1>6, <1>7, <1>8, <1>9, <1>10, <1>11, <1>12 DEF DecompressNext, DecNext

(***************************************************************************)
(* For every stream: the types, the bounds of every index the loop uses    *)
(* (out[cmp], out[dst] and the slice of the packed region cannot panic)    *)
(* and the length of what a successful call returns.                       *)
(***************************************************************************)
THEOREM DecompressInvariant == DecompressSpec => []DInv
BY DecInitIInv, DecNextIInv, PTL DEF DecompressSpec

\* The variables of decompress keep their types.
THEOREM DecompressTypeOK == DecompressSpec => []DecTypeOK
BY DecompressInvariant, PTL DEF DInv

\* No stream makes decompress index outside its buffer.
THEOREM DecompressIndexesInBounds == DecompressSpec => []IndexesInBounds
BY DecompressInvariant, PTL DEF DInv

\* A successful decompress returns exactly decompressed_size bytes.
THEOREM DecompressOkHasWantedLength == DecompressSpec => []OkHasWantedLength
BY DecompressInvariant, PTL DEF DInv
-----------------------------------------------------------------------------
(***************************************************************************)
(* What the encoded bytes mean.  B lists the code boundaries, as pairs of  *)
(* positions in the encoded bytes Z and in the reversed input s; code k    *)
(* lies between B[k] and B[k + 1], and eight codes share a flag byte.      *)
(***************************************************************************)
\* Where the bytes of code k start: the first code of eight follows a flag byte.
FirstByte(B, k) == B[k].w + (IF (k - 1) % 8 = 0 THEN 1 ELSE 0)

LiteralCode(s, B, Z, k) ==
  /\ B[k + 1].r = B[k].r + 1
  /\ B[k + 1].w = FirstByte(B, k) + 1
  /\ Z[FirstByte(B, k)] = At(s, B[k].r)

\* l bytes that repeat the l bytes that start o earlier.
Repeats(s, from, l, o) == o =< from /\ \A q \in from..(from + l - 1) : At(s, q) = At(s, q - o)

\* A back-reference: the length in four bits, the distance in twelve.
Reference(s, B, Z, k, l, o) ==
  /\ l \in 3..18 /\ o \in 3..4098
  /\ B[k + 1].r = B[k].r + l
  /\ B[k + 1].w = FirstByte(B, k) + 2
  /\ Z[FirstByte(B, k)] = (l - 3) * 16 + (o - 3) \div 256
  /\ Z[FirstByte(B, k) + 1] = (o - 3) % 256
  /\ Repeats(s, B[k].r, l, o)

MatchCode(s, B, Z, k) == \E l, o \in Nat : Reference(s, B, Z, k, l, o)

\* The flag of code k: set for a back-reference.
Bit(B, k) == IF B[k + 1].r > B[k].r + 1 THEN 1 ELSE 0

\* The flag of code i of group g, clear where there is no such code.
BitAt(B, g, i) == IF i =< 8 /\ 8 * g + i < Len(B) THEN Bit(B, 8 * g + i) ELSE 0

\* The flag byte of group g after j of its flags have been shifted out.
FlagByte(B, g, j) ==
  128 * BitAt(B, g, j + 1) + 64 * BitAt(B, g, j + 2) + 32 * BitAt(B, g, j + 3) + 16 * BitAt(B, g, j + 4)
  + 8 * BitAt(B, g, j + 5) + 4 * BitAt(B, g, j + 6) + 2 * BitAt(B, g, j + 7) + BitAt(B, g, j + 8)

Boundary == [w : Nat, r : Nat]

WellCoded(s, B, Z) ==
  /\ B \in Seq(Boundary) /\ Len(B) >= 1
  /\ B[1] = [w |-> 0, r |-> 0]
  /\ \A j, k \in 1..Len(B) : j < k => B[j].w < B[k].w
  /\ \A k \in 1..Len(B) : B[k].r =< Len(s)
  /\ \A k \in 1..(Len(B) - 1) : LiteralCode(s, B, Z, k) \/ MatchCode(s, B, Z, k)
  /\ \A g \in Nat : 8 * g + 1 < Len(B) => Z[B[8 * g + 1].w] = FlagByte(B, g, 0)

\* Shifting a flag byte left shows the next flag on top.
LEMMA FlagShift ==
  ASSUME NEW B, NEW g \in Nat, NEW j \in 0..7
  PROVE  /\ FlagByte(B, g, j) \in 0..255
         /\ FlagByte(B, g, j) >= 128 <=> BitAt(B, g, j + 1) = 1
         /\ FlagByte(B, g, j + 1) = (2 * FlagByte(B, g, j)) % 256
<1>. DEFINE b(i) == BitAt(B, g, j + i)
<1>1. ASSUME NEW i \in Int PROVE BitAt(B, g, i) \in 0..1
  BY DEF BitAt, Bit
<1>2. /\ b(1) \in 0..1 /\ b(2) \in 0..1 /\ b(3) \in 0..1 /\ b(4) \in 0..1 /\ b(5) \in 0..1
      /\ b(6) \in 0..1 /\ b(7) \in 0..1 /\ b(8) \in 0..1
  BY <1>1
<1>3. b(9) = 0
  BY DEF BitAt
<1>4. FlagByte(B, g, j) = 128 * b(1) + 64 * b(2) + 32 * b(3) + 16 * b(4) + 8 * b(5) + 4 * b(6) + 2 * b(7) + b(8)
  BY DEF FlagByte
<1>5. FlagByte(B, g, j + 1) =
        128 * b(2) + 64 * b(3) + 32 * b(4) + 16 * b(5) + 8 * b(6) + 4 * b(7) + 2 * b(8) + b(9)
  <2>1. /\ j + 1 + 1 = j + 2 /\ j + 1 + 2 = j + 3 /\ j + 1 + 3 = j + 4 /\ j + 1 + 4 = j + 5
        /\ j + 1 + 5 = j + 6 /\ j + 1 + 6 = j + 7 /\ j + 1 + 7 = j + 8 /\ j + 1 + 8 = j + 9
    OBVIOUS
  <2>. QED
    BY <2>1 DEF FlagByte
<1>6. BitAt(B, g, j + 1) = b(1)
  OBVIOUS
<1>. HIDE DEF b
<1>7. PICK hi \in 0..1, lo \in 0..127 :
        hi = b(1) /\ lo = 64 * b(2) + 32 * b(3) + 16 * b(4) + 8 * b(5) + 4 * b(6) + 2 * b(7) + b(8)
  BY ONLY <1>2
<1>8. FlagByte(B, g, j) = 128 * hi + lo /\ FlagByte(B, g, j + 1) = 2 * lo
  BY ONLY <1>2, <1>3, <1>4, <1>5, <1>7
<1>9. /\ 128 * hi + lo \in 0..255 /\ (128 * hi + lo >= 128 <=> hi = 1)
      /\ 2 * lo = (2 * (128 * hi + lo)) % 256
  OBVIOUS
<1>. QED
  BY <1>6, <1>7, <1>8, <1>9

\* The bytes of a code lie after the flag byte of its group, and no flag byte
\* lies among them.
LEMMA CodeBytesApart ==
  ASSUME NEW s, NEW B, NEW Z, WellCoded(s, B, Z),
         NEW k \in 1..(Len(B) - 1), NEW g \in Nat, 8 * g + 1 =< Len(B),
         NEW x \in Int, FirstByte(B, k) =< x, x < B[k + 1].w
  PROVE  x # B[8 * g + 1].w /\ x >= 0 /\ x < B[Len(B)].w
<1>. DEFINE h == 8 * g + 1
            m == Len(B)
            W(i) == B[i].w
<1>1. m \in Nat /\ \A i \in 1..m : W(i) \in Nat
  <2>1. B \in Seq(Boundary)
    BY DEF WellCoded
  <2>2. m \in Nat /\ \A i \in 1..m : B[i] \in Boundary
    BY <2>1, ElementOfSeq, LenProperties
  <2>. QED
    BY <2>2 DEF Boundary
<1>2. \A i, j \in 1..m : i < j => W(i) < W(j)
  BY DEF WellCoded
<1>3. h \in 1..m /\ k \in 1..m /\ k + 1 \in 1..m /\ m \in 1..m
  BY <1>1
<1>4. W(k) =< x /\ x < W(k + 1) /\ (h = k => W(k) + 1 =< x)
  <2>1. (h - 1) % 8 = 0
    OBVIOUS
  <2>2. FirstByte(B, k) = W(k) + (IF (k - 1) % 8 = 0 THEN 1 ELSE 0)
    BY DEF FirstByte
  <2>. HIDE DEF W, h
  <2>. QED
    BY <1>1, <1>3, <2>1, <2>2 DEF W
<1>. HIDE DEF W, h, m
<1>5. W(k + 1) =< W(m)
  BY <1>1, <1>2, <1>3
<1>6. x # W(h) /\ x >= 0 /\ x < W(m)
  <2>1. CASE h = k
    BY <1>1, <1>3, <1>4, <1>5, <2>1, SMTT(60)
  <2>2. CASE h < k
    <3>1. W(h) < W(k)
      BY <1>2, <1>3, <2>2
    <3>. QED
      BY <1>1, <1>3, <1>4, <1>5, <3>1, SMTT(60)
  <2>3. CASE h > k
    <3>1. h = k + 1 \/ k + 1 < h
      BY <1>1, <1>3, <2>3
    <3>2. W(k + 1) =< W(h)
      BY <1>1, <1>2, <1>3, <3>1
    <3>. QED
      BY <1>1, <1>3, <1>4, <1>5, <3>2, SMTT(60)
  <2>. QED
    BY <1>1, <1>3, <2>1, <2>2, <2>3
<1>. QED
  BY <1>6 DEF W, h, m

\* Boundaries are pairs of naturals, the earlier ones at lower bytes.
LEMMA BoundaryFacts ==
  ASSUME NEW s, NEW B, NEW Z, WellCoded(s, B, Z)
  PROVE  /\ Len(B) \in Nat /\ Len(B) >= 1
         /\ \A k \in 1..Len(B) : B[k] \in Boundary /\ B[k].w \in Nat /\ B[k].r \in Nat
         /\ \A j, k \in 1..Len(B) : j < k => B[j].w < B[k].w
         /\ \A j, k \in 1..Len(B) : j =< k => B[j].w =< B[k].w
<1>1. B \in Seq(Boundary) /\ Len(B) >= 1 /\ \A j, k \in 1..Len(B) : j < k => B[j].w < B[k].w
  BY DEF WellCoded
<1>2. Len(B) \in Nat /\ \A k \in 1..Len(B) : B[k] \in Boundary
  BY <1>1, ElementOfSeq, LenProperties
<1>3. \A k \in 1..Len(B) : B[k].w \in Nat /\ B[k].r \in Nat
  BY <1>2 DEF Boundary
<1>. DEFINE W(i) == B[i].w
            m == Len(B)
<1>4. \A j, k \in 1..m : j =< k => W(j) =< W(k)
  <2>. HIDE DEF W, m
  <2>. SUFFICES ASSUME NEW j \in 1..m, NEW k \in 1..m, j =< k PROVE W(j) =< W(k)
    OBVIOUS
  <2>1. j = k \/ j < k
    BY <1>2 DEF m
  <2>2. W(j) \in Nat /\ W(k) \in Nat /\ (j < k => W(j) < W(k))
    BY <1>1, <1>3 DEF W, m
  <2>. QED
    BY <2>1, <2>2
<1>. QED
  BY <1>1, <1>2, <1>3, <1>4

\* What a code says does not change when codes are added after it and no byte
\* of it is touched.
LEMMA CodeKept ==
  ASSUME NEW s, NEW B, NEW Z, NEW C, NEW F, NEW k \in Nat,
         C[k] = B[k], C[k + 1] = B[k + 1], B[k].w \in Nat,
         \A x \in Int : FirstByte(B, k) =< x /\ x < B[k + 1].w => F[x] = Z[x],
         LiteralCode(s, B, Z, k) \/ MatchCode(s, B, Z, k)
  PROVE  LiteralCode(s, C, F, k) \/ MatchCode(s, C, F, k)
<1>. DEFINE f == FirstByte(B, k)
<1>1. FirstByte(C, k) = f /\ f \in Int
  BY DEF FirstByte
<1>2. CASE LiteralCode(s, B, Z, k)
  <2>1. B[k + 1].r = B[k].r + 1 /\ B[k + 1].w = f + 1 /\ Z[f] = At(s, B[k].r)
    BY <1>2 DEF LiteralCode
  <2>. HIDE DEF f
  <2>2. F[f] = Z[f]
    BY <1>1, <2>1 DEF f
  <2>. QED
    BY <1>1, <2>1, <2>2 DEF LiteralCode
<1>3. CASE MatchCode(s, B, Z, k)
  <2>0. PICK l \in Nat, o \in Nat : Reference(s, B, Z, k, l, o)
    BY <1>3 DEF MatchCode
  <2>1. /\ l \in 3..18 /\ o \in 3..4098
        /\ B[k + 1].r = B[k].r + l
        /\ B[k + 1].w = f + 2
        /\ Z[f] = (l - 3) * 16 + (o - 3) \div 256
        /\ Z[f + 1] = (o - 3) % 256
        /\ Repeats(s, B[k].r, l, o)
    BY <2>0 DEF Reference
  <2>. HIDE DEF f
  <2>2. F[f] = Z[f] /\ F[f + 1] = Z[f + 1]
    <3>1. f + 1 \in Int /\ f =< f /\ f =< f + 1 /\ f < f + 2 /\ f + 1 < f + 2
      BY <1>1
    <3>. QED
      BY <1>1, <2>1, <3>1 DEF f
  <2>3. Reference(s, C, F, k, l, o)
    BY <1>1, <2>1, <2>2 DEF Reference
  <2>. QED
    BY <2>3 DEF MatchCode
<1>. QED
  BY <1>2, <1>3

\* A code added at the end, with its flag in the flag byte of its group, leaves
\* every earlier code and flag byte as it was.
LEMMA CodeAdded ==
  ASSUME NEW s, NEW B, NEW Z, NEW F, WellCoded(s, B, Z),
         NEW b \in Boundary, NEW g \in Nat, 8 * g + 1 =< Len(B), Len(B) =< 8 * g + 8,
         B[Len(B)].w < b.w, b.r =< Len(s),
         \A x \in 0..(B[Len(B)].w - 1) : x # B[8 * g + 1].w => F[x] = Z[x],
         F[B[8 * g + 1].w] = FlagByte(Append(B, b), g, 0),
         LiteralCode(s, Append(B, b), F, Len(B)) \/ MatchCode(s, Append(B, b), F, Len(B))
  PROVE  WellCoded(s, Append(B, b), F)
<1>. DEFINE C == Append(B, b)
            n == Len(B)
            h == 8 * g + 1
<1>1. /\ n \in Nat /\ n >= 1
      /\ \A k \in 1..n : B[k] \in Boundary /\ B[k].w \in Nat /\ B[k].r \in Nat
      /\ \A j, k \in 1..n : j < k => B[j].w < B[k].w
      /\ \A j, k \in 1..n : j =< k => B[j].w =< B[k].w
  BY BoundaryFacts
<1>2. /\ B \in Seq(Boundary) /\ B[1] = [w |-> 0, r |-> 0]
      /\ \A k \in 1..n : B[k].r =< Len(s)
      /\ \A k \in 1..(n - 1) : LiteralCode(s, B, Z, k) \/ MatchCode(s, B, Z, k)
      /\ \A i \in Nat : 8 * i + 1 < n => Z[B[8 * i + 1].w] = FlagByte(B, i, 0)
  BY DEF WellCoded
<1>3. /\ C \in Seq(Boundary) /\ Len(C) = n + 1 /\ C[n + 1] = b
      /\ \A k \in 1..n : C[k] = B[k]
  BY <1>2, AppendProperties
<1>4. h \in 1..n /\ n \in 1..n /\ b.w \in Nat /\ b.r \in Nat
  BY <1>1 DEF Boundary
<1>5. ASSUME NEW k \in 1..(n - 1), NEW x \in Int, FirstByte(B, k) =< x, x < B[k + 1].w
      PROVE  F[x] = Z[x]
  <2>1. x # B[h].w /\ x >= 0 /\ x < B[n].w
    BY <1>5, CodeBytesApart
  <2>2. x \in 0..(B[n].w - 1)
    BY <1>1, <1>4, <2>1, SMTT(60)
  <2>. QED
    BY <2>1, <2>2
<1>. HIDE DEF C, n, h
<1>6. C[1] = [w |-> 0, r |-> 0]
  BY <1>1, <1>2, <1>3
<1>7. ASSUME NEW j \in 1..(n + 1), NEW k \in 1..(n + 1), j < k PROVE C[j].w < C[k].w
  <2>1. j \in 1..n /\ C[j] = B[j] /\ B[j].w \in Nat /\ B[j].w =< B[n].w
    BY <1>1, <1>3, <1>4, <1>7, SMTT(60)
  <2>2. CASE k = n + 1
    BY <1>1, <1>3, <1>4, <2>1, <2>2, SMTT(60) DEF n
  <2>3. CASE k # n + 1
    <3>1. k \in 1..n /\ C[k] = B[k]
      BY <1>1, <1>3, <2>3, SMTT(60)
    <3>. QED
      BY <1>1, <1>7, <2>1, <3>1
  <2>. QED
    BY <2>2, <2>3
<1>8. ASSUME NEW k \in 1..(n + 1) PROVE C[k].r =< Len(s)
  <2>1. CASE k = n + 1
    BY <1>3, <2>1
  <2>2. CASE k # n + 1
    <3>1. k \in 1..n
      BY <1>1, <2>2
    <3>. QED
      BY <1>2, <1>3, <3>1
  <2>. QED
    BY <2>1, <2>2
<1>9. ASSUME NEW k \in 1..n PROVE LiteralCode(s, C, F, k) \/ MatchCode(s, C, F, k)
  <2>1. CASE k = n
    BY <2>1 DEF n, C
  <2>2. CASE k # n
    <3>1. k \in 1..(n - 1) /\ k \in Nat /\ k \in 1..n /\ k + 1 \in 1..n
      BY <1>1, <2>2
    <3>2. C[k] = B[k] /\ C[k + 1] = B[k + 1] /\ B[k].w \in Nat
      BY <1>1, <1>3, <3>1
    <3>3. \A x \in Int : FirstByte(B, k) =< x /\ x < B[k + 1].w => F[x] = Z[x]
      BY <1>5, <3>1
    <3>4. LiteralCode(s, B, Z, k) \/ MatchCode(s, B, Z, k)
      BY <1>2, <3>1
    <3>. QED
      BY <3>1, <3>2, <3>3, <3>4, CodeKept
  <2>. QED
    BY <2>1, <2>2
<1>10. ASSUME NEW i \in Nat, 8 * i + 1 < n + 1 PROVE F[C[8 * i + 1].w] = FlagByte(C, i, 0)
  <2>1. 8 * i + 1 \in 1..n /\ C[8 * i + 1] = B[8 * i + 1]
    BY <1>1, <1>3, <1>10, SMTT(60)
  <2>2. CASE i = g
    BY <2>1, <2>2 DEF C
  <2>3. CASE i # g
    <3>1. 8 * i + 8 < h /\ 8 * i + 8 < n /\ 8 * i + 1 < n /\ 8 * i + 1 < h
      BY <1>1, <1>10, <2>3 DEF h, n
    <3>2. ASSUME NEW q \in 1..8 PROVE BitAt(C, i, q) = BitAt(B, i, q)
      <4>1. /\ 8 * i + q \in 1..n /\ 8 * i + q + 1 \in 1..n
            /\ 8 * i + q < Len(B) /\ 8 * i + q < Len(C)
        <5>1. Len(B) = n /\ Len(C) = n + 1
          BY <1>3 DEF n
        <5>. QED
          BY ONLY <1>1, <3>1, <5>1, i \in Nat, q \in 1..8
      <4>2. C[8 * i + q] = B[8 * i + q] /\ C[8 * i + q + 1] = B[8 * i + q + 1]
        BY <1>3, <4>1
      <4>. QED
        BY <4>1, <4>2 DEF BitAt, Bit
    <3>3. FlagByte(C, i, 0) = FlagByte(B, i, 0)
      BY <3>2 DEF FlagByte
    <3>4. B[8 * i + 1].w < B[h].w /\ B[8 * i + 1].w < B[n].w /\ B[8 * i + 1].w \in Nat /\ B[h].w \in Nat
      BY <1>1, <1>4, <2>1, <3>1
    <3>5. B[8 * i + 1].w \in 0..(B[n].w - 1) /\ B[8 * i + 1].w # B[h].w
      <4>1. B[n].w \in Nat
        BY <1>1, <1>4
      <4>. QED
        BY ONLY <3>4, <4>1
    <3>6. F[B[8 * i + 1].w] = Z[B[8 * i + 1].w]
      BY <3>5 DEF n, h
    <3>. QED
      BY <1>2, <2>1, <3>1, <3>3, <3>6
  <2>. QED
    BY <2>2, <2>3
<1>. QED
  <2>1. Len(C) >= 1 /\ Len(C) - 1 = n
    BY <1>1, <1>3
  <2>2. WellCoded(s, C, F)
    BY <1>3, <1>6, <1>7, <1>8, <1>9, <1>10, <2>1 DEF WellCoded
  <2>. QED
    BY <2>2 DEF C

\* The flag of a code added to group g claims the highest bit still unused.
LEMMA FlagAdded ==
  ASSUME NEW B \in Seq(Boundary), NEW b \in Boundary, NEW g \in Nat, NEW m \in 1..8,
         Len(B) = 8 * g + m, NEW u \in Masks \ {0}, Unused(u) = 8 - m
  PROVE  /\ FlagByte(Append(B, b), g, 0) = FlagByte(B, g, 0) + Bit(Append(B, b), Len(B)) * u
         /\ m = 1 => FlagByte(B, g, 0) = 0
<1>. DEFINE C == Append(B, b)
            n == Len(B)
            bit == Bit(C, n)
            c(i) == BitAt(C, g, i)
            d(i) == BitAt(B, g, i)
<1>1. n \in Nat /\ n = 8 * g + m /\ Len(C) = n + 1 /\ C[n + 1] = b /\ \A k \in 1..n : C[k] = B[k]
  BY AppendProperties, LenProperties
<1>2. bit \in 0..1
  BY DEF Bit
<1>. HIDE DEF C, n, bit
<1>3. ASSUME NEW i \in 1..8 PROVE d(i) \in 0..1 /\ c(i) = (IF i = m THEN bit ELSE d(i)) /\ (i >= m => d(i) = 0)
  <2>1. d(i) \in 0..1
    BY DEF BitAt, Bit
  <2>2. i >= m => d(i) = 0
    <3>1. i >= m => ~(8 * g + i < Len(B))
      BY <1>1, SMTT(60) DEF n
    <3>. QED
      BY <3>1 DEF BitAt
  <2>3. CASE i = m
    <3>1. i =< 8 /\ 8 * g + i < Len(C) /\ 8 * g + i = n
      BY <1>1, <2>3
    <3>2. BitAt(C, g, i) = Bit(C, n)
      BY <3>1 DEF BitAt
    <3>. QED
      BY <2>1, <2>2, <2>3, <3>2 DEF bit
  <2>4. CASE i > m
    <3>1. ~(8 * g + i < Len(C))
      BY <1>1, <2>4, SMTT(60)
    <3>2. c(i) = 0
      BY <3>1 DEF BitAt
    <3>. QED
      BY <2>1, <2>2, <2>4, <3>2
  <2>5. CASE i < m
    <3>1. /\ 8 * g + i < Len(C) /\ 8 * g + i < Len(B)
          /\ 8 * g + i \in 1..n /\ 8 * g + i + 1 \in 1..n
      <4>1. Len(B) = n
        BY DEF n
      <4>. QED
        BY ONLY <1>1, <2>5, <4>1, g \in Nat, i \in 1..8, m \in 1..8
    <3>2. C[8 * g + i] = B[8 * g + i] /\ C[8 * g + i + 1] = B[8 * g + i + 1]
      BY <1>1, <3>1
    <3>3. c(i) = d(i)
      BY <3>1, <3>2 DEF BitAt, Bit
    <3>. QED
      BY <2>1, <2>2, <2>5, <3>3
  <2>. QED
    BY <2>3, <2>4, <2>5
<1>4. /\ FlagByte(C, g, 0) = 128 * c(1) + 64 * c(2) + 32 * c(3) + 16 * c(4) + 8 * c(5) + 4 * c(6) + 2 * c(7) + c(8)
      /\ FlagByte(B, g, 0) = 128 * d(1) + 64 * d(2) + 32 * d(3) + 16 * d(4) + 8 * d(5) + 4 * d(6) + 2 * d(7) + d(8)
  BY DEF FlagByte
<1>. HIDE DEF c, d
<1>5. /\ c(1) = (IF m = 1 THEN bit ELSE d(1)) /\ c(2) = (IF m = 2 THEN bit ELSE d(2))
      /\ c(3) = (IF m = 3 THEN bit ELSE d(3)) /\ c(4) = (IF m = 4 THEN bit ELSE d(4))
      /\ c(5) = (IF m = 5 THEN bit ELSE d(5)) /\ c(6) = (IF m = 6 THEN bit ELSE d(6))
      /\ c(7) = (IF m = 7 THEN bit ELSE d(7)) /\ c(8) = (IF m = 8 THEN bit ELSE d(8))
  BY <1>3
<1>6. /\ d(1) \in 0..1 /\ d(2) \in 0..1 /\ d(3) \in 0..1 /\ d(4) \in 0..1
      /\ d(5) \in 0..1 /\ d(6) \in 0..1 /\ d(7) \in 0..1 /\ d(8) \in 0..1
      /\ (1 >= m => d(1) = 0) /\ (2 >= m => d(2) = 0) /\ (3 >= m => d(3) = 0) /\ (4 >= m => d(4) = 0)
      /\ (5 >= m => d(5) = 0) /\ (6 >= m => d(6) = 0) /\ (7 >= m => d(7) = 0) /\ (8 >= m => d(8) = 0)
  BY <1>3
<1>7. \/ (m = 1 /\ u = 128) \/ (m = 2 /\ u = 64) \/ (m = 3 /\ u = 32) \/ (m = 4 /\ u = 16)
      \/ (m = 5 /\ u = 8) \/ (m = 6 /\ u = 4) \/ (m = 7 /\ u = 2) \/ (m = 8 /\ u = 1)
  BY DEF Masks, Unused
<1>9. PICK e1 \in 0..1, e2 \in 0..1, e3 \in 0..1, e4 \in 0..1, e5 \in 0..1, e6 \in 0..1, e7 \in 0..1, z \in 0..1 :
        /\ e1 = d(1) /\ e2 = d(2) /\ e3 = d(3) /\ e4 = d(4) /\ e5 = d(5) /\ e6 = d(6) /\ e7 = d(7)
        /\ z = bit
  BY <1>2, <1>6, SMTT(60)
<1>8. FlagByte(C, g, 0) = FlagByte(B, g, 0) + bit * u /\ (m = 1 => FlagByte(B, g, 0) = 0)
  <2>1. CASE m = 1 /\ u = 128
    <3>1. /\ c(1) = bit /\ c(2) = 0 /\ c(3) = 0 /\ c(4) = 0 /\ c(5) = 0 /\ c(6) = 0 /\ c(7) = 0 /\ c(8) = 0
          /\ d(1) = 0 /\ d(2) = 0 /\ d(3) = 0 /\ d(4) = 0 /\ d(5) = 0 /\ d(6) = 0 /\ d(7) = 0 /\ d(8) = 0
      BY <1>5, <1>6, <2>1
    <3>2. FlagByte(C, g, 0) = 128 * z + 64 * 0 + 32 * 0 + 16 * 0 + 8 * 0 + 4 * 0 + 2 * 0 + 0
      BY ONLY <1>4, <1>9, <3>1, ZenonT(60)
    <3>3. FlagByte(B, g, 0) = 128 * 0 + 64 * 0 + 32 * 0 + 16 * 0 + 8 * 0 + 4 * 0 + 2 * 0 + 0
      BY ONLY <1>4, <1>9, <3>1, ZenonT(60)
    <3>4. 128 * z + 64 * 0 + 32 * 0 + 16 * 0 + 8 * 0 + 4 * 0 + 2 * 0 + 0
            = (128 * 0 + 64 * 0 + 32 * 0 + 16 * 0 + 8 * 0 + 4 * 0 + 2 * 0 + 0) + z * 128
      BY ONLY e1 \in 0..1, e2 \in 0..1, e3 \in 0..1, e4 \in 0..1, e5 \in 0..1, e6 \in 0..1, e7 \in 0..1, z \in 0..1
    <3>. QED
      BY ONLY <1>9, <2>1, <3>2, <3>3, <3>4
  <2>2. CASE m = 2 /\ u = 64
    <3>1. /\ c(1) = d(1) /\ c(2) = bit /\ c(3) = 0 /\ c(4) = 0 /\ c(5) = 0 /\ c(6) = 0 /\ c(7) = 0 /\ c(8) = 0
          /\ d(2) = 0 /\ d(3) = 0 /\ d(4) = 0 /\ d(5) = 0 /\ d(6) = 0 /\ d(7) = 0 /\ d(8) = 0
      BY <1>5, <1>6, <2>2
    <3>2. FlagByte(C, g, 0) = 128 * e1 + 64 * z + 32 * 0 + 16 * 0 + 8 * 0 + 4 * 0 + 2 * 0 + 0
      BY ONLY <1>4, <1>9, <3>1
    <3>3. FlagByte(B, g, 0) = 128 * e1 + 64 * 0 + 32 * 0 + 16 * 0 + 8 * 0 + 4 * 0 + 2 * 0 + 0
      BY ONLY <1>4, <1>9, <3>1
    <3>4. 128 * e1 + 64 * z + 32 * 0 + 16 * 0 + 8 * 0 + 4 * 0 + 2 * 0 + 0
            = (128 * e1 + 64 * 0 + 32 * 0 + 16 * 0 + 8 * 0 + 4 * 0 + 2 * 0 + 0) + z * 64
      BY ONLY e1 \in 0..1, e2 \in 0..1, e3 \in 0..1, e4 \in 0..1, e5 \in 0..1, e6 \in 0..1, e7 \in 0..1, z \in 0..1
    <3>. QED
      BY ONLY <1>9, <2>2, <3>2, <3>3, <3>4
  <2>3. CASE m = 3 /\ u = 32
    <3>1. /\ c(1) = d(1) /\ c(2) = d(2) /\ c(3) = bit /\ c(4) = 0 /\ c(5) = 0 /\ c(6) = 0 /\ c(7) = 0 /\ c(8) = 0
          /\ d(3) = 0 /\ d(4) = 0 /\ d(5) = 0 /\ d(6) = 0 /\ d(7) = 0 /\ d(8) = 0
      BY <1>5, <1>6, <2>3
    <3>2. FlagByte(C, g, 0) = 128 * e1 + 64 * e2 + 32 * z + 16 * 0 + 8 * 0 + 4 * 0 + 2 * 0 + 0
      BY ONLY <1>4, <1>9, <3>1
    <3>3. FlagByte(B, g, 0) = 128 * e1 + 64 * e2 + 32 * 0 + 16 * 0 + 8 * 0 + 4 * 0 + 2 * 0 + 0
      BY ONLY <1>4, <1>9, <3>1
    <3>4. 128 * e1 + 64 * e2 + 32 * z + 16 * 0 + 8 * 0 + 4 * 0 + 2 * 0 + 0
            = (128 * e1 + 64 * e2 + 32 * 0 + 16 * 0 + 8 * 0 + 4 * 0 + 2 * 0 + 0) + z * 32
      BY ONLY e1 \in 0..1, e2 \in 0..1, e3 \in 0..1, e4 \in 0..1, e5 \in 0..1, e6 \in 0..1, e7 \in 0..1, z \in 0..1
    <3>. QED
      BY ONLY <1>9, <2>3, <3>2, <3>3, <3>4
  <2>4. CASE m = 4 /\ u = 16
    <3>1. /\ c(1) = d(1) /\ c(2) = d(2) /\ c(3) = d(3) /\ c(4) = bit /\ c(5) = 0 /\ c(6) = 0 /\ c(7) = 0 /\ c(8) = 0
          /\ d(4) = 0 /\ d(5) = 0 /\ d(6) = 0 /\ d(7) = 0 /\ d(8) = 0
      BY <1>5, <1>6, <2>4
    <3>2. FlagByte(C, g, 0) = 128 * e1 + 64 * e2 + 32 * e3 + 16 * z + 8 * 0 + 4 * 0 + 2 * 0 + 0
      BY ONLY <1>4, <1>9, <3>1
    <3>3. FlagByte(B, g, 0) = 128 * e1 + 64 * e2 + 32 * e3 + 16 * 0 + 8 * 0 + 4 * 0 + 2 * 0 + 0
      BY ONLY <1>4, <1>9, <3>1
    <3>4. 128 * e1 + 64 * e2 + 32 * e3 + 16 * z + 8 * 0 + 4 * 0 + 2 * 0 + 0
            = (128 * e1 + 64 * e2 + 32 * e3 + 16 * 0 + 8 * 0 + 4 * 0 + 2 * 0 + 0) + z * 16
      BY ONLY e1 \in 0..1, e2 \in 0..1, e3 \in 0..1, e4 \in 0..1, e5 \in 0..1, e6 \in 0..1, e7 \in 0..1, z \in 0..1
    <3>. QED
      BY ONLY <1>9, <2>4, <3>2, <3>3, <3>4
  <2>5. CASE m = 5 /\ u = 8
    <3>1. /\ c(1) = d(1) /\ c(2) = d(2) /\ c(3) = d(3) /\ c(4) = d(4) /\ c(5) = bit /\ c(6) = 0 /\ c(7) = 0 /\ c(8) = 0
          /\ d(5) = 0 /\ d(6) = 0 /\ d(7) = 0 /\ d(8) = 0
      BY <1>5, <1>6, <2>5
    <3>2. FlagByte(C, g, 0) = 128 * e1 + 64 * e2 + 32 * e3 + 16 * e4 + 8 * z + 4 * 0 + 2 * 0 + 0
      BY ONLY <1>4, <1>9, <3>1
    <3>3. FlagByte(B, g, 0) = 128 * e1 + 64 * e2 + 32 * e3 + 16 * e4 + 8 * 0 + 4 * 0 + 2 * 0 + 0
      BY ONLY <1>4, <1>9, <3>1
    <3>4. 128 * e1 + 64 * e2 + 32 * e3 + 16 * e4 + 8 * z + 4 * 0 + 2 * 0 + 0
            = (128 * e1 + 64 * e2 + 32 * e3 + 16 * e4 + 8 * 0 + 4 * 0 + 2 * 0 + 0) + z * 8
      BY ONLY e1 \in 0..1, e2 \in 0..1, e3 \in 0..1, e4 \in 0..1, e5 \in 0..1, e6 \in 0..1, e7 \in 0..1, z \in 0..1
    <3>. QED
      BY ONLY <1>9, <2>5, <3>2, <3>3, <3>4
  <2>6. CASE m = 6 /\ u = 4
    <3>1. /\ c(1) = d(1) /\ c(2) = d(2) /\ c(3) = d(3) /\ c(4) = d(4) /\ c(5) = d(5) /\ c(6) = bit /\ c(7) = 0 /\ c(8) = 0
          /\ d(6) = 0 /\ d(7) = 0 /\ d(8) = 0
      BY <1>5, <1>6, <2>6
    <3>2. FlagByte(C, g, 0) = 128 * e1 + 64 * e2 + 32 * e3 + 16 * e4 + 8 * e5 + 4 * z + 2 * 0 + 0
      BY ONLY <1>4, <1>9, <3>1
    <3>3. FlagByte(B, g, 0) = 128 * e1 + 64 * e2 + 32 * e3 + 16 * e4 + 8 * e5 + 4 * 0 + 2 * 0 + 0
      BY ONLY <1>4, <1>9, <3>1
    <3>4. 128 * e1 + 64 * e2 + 32 * e3 + 16 * e4 + 8 * e5 + 4 * z + 2 * 0 + 0
            = (128 * e1 + 64 * e2 + 32 * e3 + 16 * e4 + 8 * e5 + 4 * 0 + 2 * 0 + 0) + z * 4
      BY ONLY e1 \in 0..1, e2 \in 0..1, e3 \in 0..1, e4 \in 0..1, e5 \in 0..1, e6 \in 0..1, e7 \in 0..1, z \in 0..1
    <3>. QED
      BY ONLY <1>9, <2>6, <3>2, <3>3, <3>4
  <2>7. CASE m = 7 /\ u = 2
    <3>1. /\ c(1) = d(1) /\ c(2) = d(2) /\ c(3) = d(3) /\ c(4) = d(4) /\ c(5) = d(5) /\ c(6) = d(6) /\ c(7) = bit /\ c(8) = 0
          /\ d(7) = 0 /\ d(8) = 0
      BY <1>5, <1>6, <2>7
    <3>2. FlagByte(C, g, 0) = 128 * e1 + 64 * e2 + 32 * e3 + 16 * e4 + 8 * e5 + 4 * e6 + 2 * z + 0
      BY ONLY <1>4, <1>9, <3>1
    <3>3. FlagByte(B, g, 0) = 128 * e1 + 64 * e2 + 32 * e3 + 16 * e4 + 8 * e5 + 4 * e6 + 2 * 0 + 0
      BY ONLY <1>4, <1>9, <3>1
    <3>4. 128 * e1 + 64 * e2 + 32 * e3 + 16 * e4 + 8 * e5 + 4 * e6 + 2 * z + 0
            = (128 * e1 + 64 * e2 + 32 * e3 + 16 * e4 + 8 * e5 + 4 * e6 + 2 * 0 + 0) + z * 2
      BY ONLY e1 \in 0..1, e2 \in 0..1, e3 \in 0..1, e4 \in 0..1, e5 \in 0..1, e6 \in 0..1, e7 \in 0..1, z \in 0..1
    <3>. QED
      BY ONLY <1>9, <2>7, <3>2, <3>3, <3>4
  <2>8. CASE m = 8 /\ u = 1
    <3>1. /\ c(1) = d(1) /\ c(2) = d(2) /\ c(3) = d(3) /\ c(4) = d(4) /\ c(5) = d(5) /\ c(6) = d(6) /\ c(7) = d(7) /\ c(8) = bit
          /\ d(8) = 0
      BY <1>5, <1>6, <2>8
    <3>2. FlagByte(C, g, 0) = 128 * e1 + 64 * e2 + 32 * e3 + 16 * e4 + 8 * e5 + 4 * e6 + 2 * e7 + z
      BY ONLY <1>4, <1>9, <3>1
    <3>3. FlagByte(B, g, 0) = 128 * e1 + 64 * e2 + 32 * e3 + 16 * e4 + 8 * e5 + 4 * e6 + 2 * e7 + 0
      BY ONLY <1>4, <1>9, <3>1
    <3>4. 128 * e1 + 64 * e2 + 32 * e3 + 16 * e4 + 8 * e5 + 4 * e6 + 2 * e7 + z
            = (128 * e1 + 64 * e2 + 32 * e3 + 16 * e4 + 8 * e5 + 4 * e6 + 2 * e7 + 0) + z * 1
      BY ONLY e1 \in 0..1, e2 \in 0..1, e3 \in 0..1, e4 \in 0..1, e5 \in 0..1, e6 \in 0..1, e7 \in 0..1, z \in 0..1
    <3>. QED
      BY ONLY <1>9, <2>8, <3>2, <3>3, <3>4
  <2>. QED
    BY <1>7, <2>1, <2>2, <2>3, <2>4, <2>5, <2>6, <2>7, <2>8
<1>. QED
  BY <1>8 DEF C, n, bit

\* The flag byte being filled, and how much of it the codes of group g have claimed.
InGroup(B, g) ==
  /\ 8 * g + 1 < Len(B) /\ Len(B) =< 8 * g + 9
  /\ mask # 0 /\ Unused(mask) = 8 * g + 9 - Len(B)
  /\ flag_pos = B[8 * g + 1].w
  /\ output[flag_pos] * mask = FlagByte(B, g, 0)

\* The encoding loop stands at the last of the boundaries B.
Encoding(B) ==
  /\ write_pos = B[Len(B)].w /\ read_pos = B[Len(B)].r
  /\ \/ Len(B) = 1 /\ mask = 0
     \/ \E g \in Nat : InGroup(B, g)

\* Bits shifted into a flag byte keep their place once it is flushed.
LEMMA FlagBits ==
  ASSUME NEW u \in {2, 4, 8, 16, 32, 64, 128}, NEW x \in 0..255, x * u =< 255, NEW bit \in 0..1
  PROVE  (((2 * x) % 256) + bit) * (u \div 2) = x * u + bit * (u \div 2)
<1>1. x =< 127
  OBVIOUS
<1>2. (2 * x) % 256 = 2 * x
  BY <1>1
<1>3. (2 * x + bit) * (u \div 2) = x * u + bit * (u \div 2)
  <2>1. CASE u = 2
    BY <2>1
  <2>2. CASE u = 4
    BY <2>2
  <2>3. CASE u = 8
    BY <2>3
  <2>4. CASE u = 16
    BY <2>4
  <2>5. CASE u = 32
    BY <2>5
  <2>6. CASE u = 64
    BY <2>6
  <2>7. CASE u = 128
    BY <2>7
  <2>. QED
    BY <2>1, <2>2, <2>3, <2>4, <2>5, <2>6, <2>7
<1>. QED
  BY <1>2, <1>3

\* Where the loop puts the next code: the group it falls in, and the byte that
\* holds its flag.
LEMMA NextCodeGroup ==
  ASSUME EInv, NEW s, NEW B, NEW Z, WellCoded(s, B, Z), Encoding(B)
  PROVE  \E g \in Nat, m \in 1..8 :
           /\ Len(B) = 8 * g + m
           /\ (NewGroup <=> m = 1) /\ Unused(mask1) = 8 - m
           /\ flag1 = B[8 * g + 1].w
           /\ write1 = write_pos + (IF (Len(B) - 1) % 8 = 0 THEN 1 ELSE 0)
           /\ ~NewGroup => InGroup(B, g)
<1>. DEFINE n == Len(B)
<1>1. n \in Nat /\ n >= 1
  BY BoundaryFacts
<1>2. mask \in Masks /\ mask1 \in Masks \ {0} /\ write_pos \in Nat
  BY MaskStep DEF EInv, EncTypeOK
<1>3. CASE n = 1 /\ mask = 0
  <2>1. NewGroup /\ mask1 = 128
    BY <1>3 DEF NewGroup, mask1, FLAG_MASK_INIT
  <2>2. Unused(mask1) = 7
    BY <2>1 DEF Unused
  <2>3. flag1 = write_pos /\ write1 = write_pos + 1 /\ write_pos = B[n].w
    BY <2>1 DEF flag1, write1, Encoding
  <2>. QED
    <3>. WITNESS 0 \in Nat, 1 \in 1..8
    <3>. QED
      BY <1>3, <2>1, <2>2, <2>3
<1>4. CASE \E g \in Nat : InGroup(B, g)
  <2>1. PICK g \in Nat : InGroup(B, g)
    BY <1>4
  <2>2. /\ 8 * g + 1 < n /\ n =< 8 * g + 9 /\ mask # 0 /\ Unused(mask) = 8 * g + 9 - n
        /\ flag_pos = B[8 * g + 1].w
    BY <2>1 DEF InGroup
  <2>3. /\ Unused(mask) \in 0..7 /\ (NewGroup <=> Unused(mask) = 0)
        /\ NewGroup => Unused(mask1) = 7
        /\ ~NewGroup => Unused(mask1) = Unused(mask) - 1
    BY <1>2, <2>2 DEF Masks, mask1, NewGroup, Unused, FLAG_MASK_INIT
  <2>4. CASE NewGroup
    <3>1. n = 8 * (g + 1) + 1 /\ Unused(mask1) = 7
      BY <1>1, <2>2, <2>3, <2>4
    <3>2. (n - 1) % 8 = 0
      BY <1>1, <3>1
    <3>3. flag1 = write_pos /\ write1 = write_pos + 1 /\ write_pos = B[n].w
      BY <2>4 DEF flag1, write1, Encoding
    <3>. HIDE DEF n
    <3>4. g + 1 \in Nat /\ flag1 = B[8 * (g + 1) + 1].w
      BY <3>1, <3>3
    <3>. WITNESS g + 1 \in Nat, 1 \in 1..8
    <3>. QED
      BY <2>4, <3>1, <3>2, <3>3, <3>4 DEF n
  <2>5. CASE ~NewGroup
    <3>. DEFINE m == n - 8 * g
    <3>1. m \in 2..8 /\ n = 8 * g + m /\ Unused(mask1) = 8 - m
      BY <1>1, <2>2, <2>3, <2>5, SMTT(60)
    <3>. HIDE DEF m, n
    <3>2. (n - 1) % 8 # 0 /\ m # 1
      BY <1>1, <3>1
    <3>3. flag1 = flag_pos /\ write1 = write_pos /\ write_pos = write_pos + 0
      BY <1>2, <2>5 DEF flag1, write1
    <3>. m \in 1..8
      BY <3>1
    <3>. WITNESS g \in Nat, m \in 1..8
    <3>. QED
      BY <2>1, <2>2, <2>5, <3>1, <3>2, <3>3 DEF n
  <2>. QED
    BY <2>4, <2>5
<1>. QED
  BY <1>3, <1>4 DEF Encoding

\* Flushing changes the flag byte being filled, and only it.
FlushedFacts ==
  /\ worst_case_len(len) \in Nat /\ write_pos =< worst_case_len(len)
  /\ output \in [0..(worst_case_len(len) - 1) -> Byte]
  /\ \A x \in 0..(worst_case_len(len) - 1) : x # flag_pos => Flushed[x] = output[x]
  /\ mask = 0 => Flushed = output
  /\ mask # 0 => Flushed[flag_pos] = (output[flag_pos] * mask) % 256

\* Flushing touches no other byte.
LEMMA FlushedIs == EInv => FlushedFacts
<1>. SUFFICES ASSUME EInv PROVE FlushedFacts
  OBVIOUS
<1>1. /\ worst_case_len(len) \in Nat /\ write_pos =< worst_case_len(len)
      /\ output \in [0..(worst_case_len(len) - 1) -> Byte]
      /\ mask # 0 => flag_pos \in 0..(worst_case_len(len) - 1)
  BY EncodedFacts
<1>. QED
  BY <1>1 DEF Flushed, FlushedFacts

\* The same after a step.
LEMMA FlushedNext == EInv' => FlushedFacts'
BY FlushedIs, PTL

\* A code written after the last boundary, with its flag, is a code of the bytes
\* that flushing gives.
LEMMA CodeEmitted ==
  ASSUME EInv, EInv', NEW s, NEW B, WellCoded(s, B, Flushed), Encoding(B),
         NEW b \in Boundary, write1 < b.w, b.r =< Len(s),
         mask' = mask1, flag_pos' = flag1, write_pos' = b.w, read_pos' = b.r, data' = data,
         output'[flag1] = Flagged(Bit(Append(B, b), Len(B))),
         \A x \in 0..(write_pos - 1) : x # flag1 => output'[x] = output[x],
         LiteralCode(s, Append(B, b), output', Len(B)) \/ MatchCode(s, Append(B, b), output', Len(B))
  PROVE  WellCoded(s, Append(B, b), Flushed') /\ Encoding(Append(B, b))'
<1>. DEFINE C == Append(B, b)
            n == Len(B)
            bit == Bit(C, n)
            F == Flushed'
            old == output[flag_pos]
<1>1. PICK g \in Nat, m \in 1..8 :
        /\ n = 8 * g + m
        /\ (NewGroup <=> m = 1) /\ Unused(mask1) = 8 - m
        /\ flag1 = B[8 * g + 1].w
        /\ write1 = write_pos + (IF (n - 1) % 8 = 0 THEN 1 ELSE 0)
        /\ ~NewGroup => InGroup(B, g)
  BY NextCodeGroup
<1>2. /\ B \in Seq(Boundary) /\ n \in Nat /\ n >= 1
      /\ Len(C) = n + 1 /\ C[n + 1] = b /\ \A k \in 1..n : C[k] = B[k]
      /\ bit \in 0..1
  <2>1. B \in Seq(Boundary)
    BY DEF WellCoded
  <2>2. Len(C) = n + 1 /\ C[n + 1] = b /\ \A k \in 1..n : C[k] = B[k]
    BY <2>1, AppendProperties
  <2>. QED
    BY <2>1, <2>2, BoundaryFacts DEF Bit
<1>3. /\ mask \in Masks /\ mask1 \in Masks \ {0} /\ write_pos \in Nat /\ len' = len
      /\ write_pos = B[n].w /\ b.w \in Nat /\ b.r \in Nat
  BY MaskStep DEF EInv, EncTypeOK, Encoding, Boundary, len
<1>4. /\ \A k \in 1..n : B[k].w \in Nat /\ \A j \in 1..n : j < k => B[j].w < B[k].w
      /\ 8 * g + 1 \in 1..n /\ n \in 1..n
  <2>1. 8 * g + 1 \in 1..n /\ n \in 1..n
    BY ONLY <1>1, <1>2, g \in Nat, m \in 1..8
  <2>2. /\ \A k \in 1..n : B[k].w \in Nat
        /\ \A j, k \in 1..n : j < k => B[j].w < B[k].w
    BY BoundaryFacts
  <2>. QED
    BY <2>1, <2>2
<1>5. flag1 \in Nat /\ write1 \in Nat /\ flag1 < write1 /\ write_pos =< write1
  <2>1. m = 1 => 8 * g + 1 = n /\ (n - 1) % 8 = 0
    BY <1>1, <1>2
  <2>2. m # 1 => 8 * g + 1 < n
    BY <1>1, <1>2
  <2>3. CASE m = 1
    BY <1>1, <1>3, <1>4, <2>1, <2>3
  <2>4. CASE m # 1
    <3>1. B[8 * g + 1].w < B[n].w
      BY <1>4, <2>2, <2>4
    <3>. QED
      BY <1>1, <1>3, <1>4, <3>1, SMTT(60)
  <2>. QED
    BY <2>3, <2>4
<1>6. /\ worst_case_len(len) \in Nat /\ b.w =< worst_case_len(len)
      /\ output \in [0..(worst_case_len(len) - 1) -> Byte]
      /\ output' \in [0..(worst_case_len(len) - 1) -> Byte]
  <2>1. worst_case_len(len)' = worst_case_len(len)
    BY <1>3 DEF worst_case_len
  <2>2. FlushedFacts /\ FlushedFacts'
    BY FlushedIs, FlushedNext
  <2>. QED
    BY <2>1, <2>2 DEF FlushedFacts
<1>7. /\ \A x \in 0..(worst_case_len(len) - 1) : x # flag_pos => Flushed[x] = output[x]
      /\ mask = 0 => Flushed = output
      /\ mask # 0 => Flushed[flag_pos] = (old * mask) % 256
  BY FlushedIs DEF FlushedFacts
<1>8. /\ \A x \in 0..(worst_case_len(len) - 1) : x # flag1 => F[x] = output'[x]
      /\ F[flag1] = (output'[flag1] * mask1) % 256
  <2>1. FlushedFacts' /\ worst_case_len(len)' = worst_case_len(len)
    BY <1>3, FlushedNext DEF worst_case_len
  <2>. QED
    BY <1>3, <2>1 DEF FlushedFacts
<1>9. /\ FlagByte(C, g, 0) = FlagByte(B, g, 0) + bit * mask1 /\ (m = 1 => FlagByte(B, g, 0) = 0)
      /\ FlagByte(C, g, 0) \in 0..255
  <2>1. FlagByte(C, g, 0) = FlagByte(B, g, 0) + Bit(C, n) * mask1 /\ (m = 1 => FlagByte(B, g, 0) = 0)
    BY <1>1, <1>2, <1>3, FlagAdded
  <2>2. FlagByte(C, g, 0) \in 0..255
    <3>1. 0 \in 0..7
      OBVIOUS
    <3>. QED
      BY <3>1, FlagShift, ZenonT(60)
  <2>. QED
    BY <2>1, <2>2
<1>. HIDE DEF C, n, bit, F
<1>10. Flagged(bit) * mask1 = FlagByte(C, g, 0)
  <2>1. CASE m = 1
    <3>1. NewGroup /\ mask1 = 128 /\ Flagged(bit) = bit
      BY <1>1, <1>2, <2>1 DEF mask1, FLAG_MASK_INIT, Flagged
    <3>. QED
      BY <1>2, <1>9, <2>1, <3>1
  <2>2. CASE m # 1
    <3>1. ~NewGroup /\ InGroup(B, g)
      BY <1>1, <2>2
    <3>2. /\ mask \in {2, 4, 8, 16, 32, 64, 128} /\ mask1 = mask \div 2 /\ flag1 = flag_pos
          /\ Flagged(bit) = ((2 * old) % 256) + bit
      BY <1>3, <3>1 DEF NewGroup, mask1, Masks, flag1, Flagged
    <3>3. old * mask = FlagByte(B, g, 0)
      BY <3>1 DEF InGroup
    <3>4. FlagByte(B, g, 0) \in 0..255
      <4>1. 0 \in 0..7
        OBVIOUS
      <4>. QED
        BY <4>1, FlagShift, SMTT(60)
    <3>5. old \in 0..255
      <4>1. flag_pos \in 0..(worst_case_len(len) - 1)
        BY <1>3, <1>5, <1>6, <3>2
      <4>. QED
        BY ONLY <1>6, <4>1, ZenonT(60) DEF Byte, old
    <3>. HIDE DEF old
    <3>6. (((2 * old) % 256) + bit) * (mask \div 2) = old * mask + bit * (mask \div 2)
      <4>1. old * mask =< 255
        BY ONLY <3>3, <3>4
      <4>. QED
        BY <1>2, <3>2, <3>5, <4>1, FlagBits, SMTT(60)
    <3>. QED
      BY <1>9, <3>2, <3>3, <3>6
  <2>. QED
    BY <2>1, <2>2
<1>11. F[B[8 * g + 1].w] = FlagByte(C, g, 0)
  <2>1. (Flagged(bit) * mask1) % 256 = FlagByte(C, g, 0)
    <3>1. \A x \in 0..255 : x % 256 = x
      OBVIOUS
    <3>. QED
      BY <1>9, <1>10, <3>1, ZenonT(60)
  <2>. QED
    BY <1>1, <1>8, <2>1 DEF C, n, bit
<1>12. ASSUME NEW x \in 0..(B[n].w - 1), x # B[8 * g + 1].w PROVE F[x] = Flushed[x]
  <2>1. x \in 0..(worst_case_len(len) - 1) /\ x # flag1 /\ x \in 0..(write_pos - 1)
    BY <1>1, <1>3, <1>5, <1>6, <1>12, SMTT(60)
  <2>2. F[x] = output[x]
    BY <1>8, <2>1
  <2>3. CASE mask = 0 \/ x # flag_pos
    BY <1>7, <2>1, <2>2, <2>3
  <2>4. CASE mask # 0 /\ x = flag_pos
    <3>1. NewGroup
      BY <2>1, <2>4 DEF flag1
    <3>2. mask = 1
      BY <1>3, <2>4, <3>1 DEF NewGroup, Masks
    <3>3. old \in 0..255
      <4>1. flag_pos \in 0..(worst_case_len(len) - 1)
        BY <2>1, <2>4
      <4>. QED
        BY ONLY <1>6, <4>1, ZenonT(60) DEF Byte, old
    <3>. HIDE DEF old
    <3>4. (old * 1) % 256 = old
      BY ONLY <3>3
    <3>. QED
      BY <1>7, <2>2, <2>4, <3>2, <3>4 DEF old
  <2>. QED
    BY <2>3, <2>4
<1>13. LiteralCode(s, C, F, n) \/ MatchCode(s, C, F, n)
  <2>1. FirstByte(C, n) = write1
    BY <1>1, <1>2, <1>3, <1>4 DEF FirstByte
  <2>2. ASSUME NEW x \in Int, FirstByte(C, n) =< x, x < C[n + 1].w PROVE F[x] = output'[x]
    <3>1. x \in 0..(worst_case_len(len) - 1) /\ x # flag1
      BY <1>2, <1>3, <1>5, <1>6, <2>1, <2>2, SMTT(60)
    <3>. QED
      BY <1>8, <3>1
  <2>3. LiteralCode(s, C, output', n) \/ MatchCode(s, C, output', n)
    BY DEF C, n
  <2>4. C[n].w \in Nat
    BY <1>2, <1>4
  <2>. QED
    BY <1>2, <2>2, <2>3, <2>4, CodeKept
<1>14. WellCoded(s, C, F)
  <2>1. 8 * g + 1 =< Len(B) /\ Len(B) =< 8 * g + 8
    BY <1>1, <1>2 DEF n
  <2>2. B[Len(B)].w < b.w
    BY <1>3, <1>5 DEF n
  <2>3. \A x \in 0..(B[Len(B)].w - 1) : x # B[8 * g + 1].w => F[x] = Flushed[x]
    BY <1>12 DEF n
  <2>. QED
    BY <1>11, <1>13, <2>1, <2>2, <2>3, CodeAdded DEF C, n
<1>15. Encoding(C)'
  <2>1. write_pos' = C[Len(C)].w /\ read_pos' = C[Len(C)].r
    BY <1>2
  <2>2. /\ 8 * g + 1 < Len(C) /\ Len(C) =< 8 * g + 9
        /\ mask' # 0 /\ Unused(mask)' = 8 * g + 9 - Len(C)
    <3>1. Unused(mask)' = Unused(mask1)
      BY DEF Unused
    <3>2. mask' # 0
      BY <1>3
    <3>3. 8 * g + 9 - (n + 1) = 8 - m /\ 8 * g + 1 < n + 1 /\ n + 1 =< 8 * g + 9
      BY ONLY <1>1, <1>2, g \in Nat, m \in 1..8
    <3>. QED
      BY <1>1, <1>2, <3>1, <3>2, <3>3
  <2>3. C[8 * g + 1] = B[8 * g + 1]
    BY <1>2, <1>4
  <2>4. output'[flag_pos'] * mask' = FlagByte(C, g, 0)
    BY <1>10 DEF C, n, bit
  <2>5. InGroup(C, g)'
    BY <1>1, <2>2, <2>3, <2>4 DEF InGroup
  <2>. QED
    BY <2>1, <2>5 DEF Encoding
<1>. QED
  BY <1>14, <1>15 DEF C, F

\* A match the oracle proposes repeats bytes that lie before it.
LEMMA LongestMatchRepeats ==
  ASSUME NEW d \in Seq(Byte), NEW p \in 0..Len(d), LongestMatch(d, p)[1] > MATCH_THRESHOLD
  PROVE  Repeats(d, p, LongestMatch(d, p)[1], LongestMatch(d, p)[2])
<1>. DEFINE W == Worthwhile(d, p)
            Lens == {RunLen(d, p, o) : o \in W}
            top == Max(Lens)
            Tops == {o \in W : RunLen(d, p, o) = top}
            best == Min(Tops)
<1>1. W # {}
  BY DEF LongestMatch, MATCH_THRESHOLD
<1>2. ASSUME NEW o \in W
      PROVE  o \in Nat /\ o =< p /\ RunLen(d, p, o) \in 0..MAX_MATCH /\ p + RunLen(d, p, o) =< Len(d)
  <2>1. o \in Offsets(p)
    BY DEF Worthwhile
  <2>2. o \in Nat /\ o =< p
    BY <2>1, OffsetsAre
  <2>3. /\ RunCap(d, p, o) \in Nat /\ RunCap(d, p, o) =< MAX_MATCH
        /\ RunCap(d, p, o) =< Len(d) - p
    BY <2>2, RunCapIs
  <2>4. RunLen(d, p, o) \in 0..RunCap(d, p, o)
    BY <2>2, RunLenIs
  <2>5. MAX_MATCH \in Nat /\ Len(d) \in Nat
    BY MatchAssumption
  <2>. QED
    BY <2>2, <2>3, <2>4, <2>5
<1>3. Lens \in SUBSET (0..MAX_MATCH) /\ Lens # {}
  BY <1>1, <1>2
<1>4. top \in Lens
  <2>1. MAX_MATCH \in Nat
    BY MatchAssumption
  <2>. HIDE DEF Lens
  <2>. QED
    BY <1>3, <2>1, MaxIs
<1>5. Tops # {} /\ Tops \in SUBSET Nat
  BY <1>2, <1>4
<1>6. best \in Tops
  <2>. HIDE DEF Tops
  <2>. QED
    BY <1>5, MinIs
<1>7. LongestMatch(d, p)[1] = RunLen(d, p, best) /\ LongestMatch(d, p)[2] = best
  <2>1. LongestMatch(d, p) = <<top, best>>
    BY <1>1 DEF LongestMatch
  <2>2. RunLen(d, p, best) = top
    BY <1>6
  <2>. HIDE DEF top, best
  <2>. QED
    BY <2>1, <2>2
<1>8. best \in W
  BY <1>6
<1>. HIDE DEF W, best
<1>9. best \in Nat /\ best =< p /\ RunLen(d, p, best) \in Nat
  BY <1>2, <1>8
<1>10. \A n \in 0..(RunLen(d, p, best) - 1) : At(d, p + n) = At(d, p + n - best)
  BY <1>9, RunLenIs
<1>11. ASSUME NEW q \in p..(p + RunLen(d, p, best) - 1) PROVE At(d, q) = At(d, q - best)
  <2>1. q - p \in 0..(RunLen(d, p, best) - 1) /\ p + (q - p) = q /\ p + (q - p) - best = q - best
    BY <1>9
  <2>. QED
    BY <1>10, <2>1
<1>. QED
  BY <1>7, <1>9, <1>11 DEF Repeats

\* Where the next code starts.
LEMMA NextCodeAt ==
  ASSUME EInv, NEW s, NEW B, NEW Z, WellCoded(s, B, Z), Encoding(B), NEW b \in Boundary, NEW C, C = Append(B, b)
  PROVE  /\ Len(B) \in Nat /\ Len(B) >= 1 /\ Len(C) = Len(B) + 1
         /\ C[Len(B)].w = write_pos /\ C[Len(B)].r = read_pos /\ C[Len(B) + 1] = b
         /\ FirstByte(C, Len(B)) = write1
         /\ flag1 \in Nat /\ write1 \in Nat /\ flag1 < write1 /\ write_pos =< write1 /\ write_pos \in Nat
<1>. DEFINE n == Len(B)
<1>1. B \in Seq(Boundary) /\ n \in Nat /\ n >= 1
  BY BoundaryFacts DEF WellCoded
<1>2. Len(C) = n + 1 /\ C[n + 1] = b /\ \A k \in 1..n : C[k] = B[k]
  BY <1>1, AppendProperties
<1>3. C[n] = B[n] /\ write_pos = B[n].w /\ read_pos = B[n].r
  BY <1>1, <1>2 DEF Encoding
<1>4. write1 = write_pos + (IF (n - 1) % 8 = 0 THEN 1 ELSE 0)
  BY NextCodeGroup
<1>5. FirstByte(C, n) = write1
  BY <1>3, <1>4 DEF FirstByte
<1>6. write_pos \in Nat /\ flag_pos \in Nat /\ (mask # 0 => flag_pos < write_pos)
  BY DEF EInv, EncTypeOK, FlagReserved
<1>7. ~NewGroup => mask # 0
  BY DEF NewGroup
<1>. QED
  BY <1>1, <1>2, <1>3, <1>5, <1>6, <1>7 DEF write1, flag1

\* The encoder's view of the input: reversed while it is encoded, and searched
\* in that order.
InputKept ==
  /\ pc \in {"encode", "flush"} => input = Reverse(data)
  /\ pc \notin {"encode", "flush"} => input = data
  /\ finder = [p \in 0..(len - 1) |-> LongestMatch(Reverse(data), p)]

\* The boundaries are among those recorded, and the K-th is the split.
Kept(B, K) ==
  /\ \A k \in 1..Len(B) : B[k] \in boundaries
  /\ K \in 1..Len(B)
  /\ B[K] = [w |-> best_packed, r |-> len - best_remaining]

Coded(B, Z, K) == WellCoded(Reverse(data), B, Z) /\ Kept(B, K)

\* The encoding loop has written codes that stand for the input it has read.
LoopCoded == \E B, K : Coded(B, Flushed, K) /\ Encoding(B)

\* They still do while the flag byte is flushed.
AllCoded == \E B, K : Coded(B, Flushed, K)

\* A boundary recorded is a boundary kept.
LEMMA KeptStep ==
  ASSUME NEW B \in Seq(Boundary), NEW b \in Boundary, NEW K, Kept(B, K), TrackSplit(b.w, b.r), data' = data,
         len \in Nat, b.r =< len
  PROVE  \E J : Kept(Append(B, b), J)'
<1>. DEFINE C == Append(B, b)
            n == Len(B)
<1>1. n \in Nat /\ Len(C) = n + 1 /\ C[n + 1] = b /\ \A k \in 1..n : C[k] = B[k]
  BY AppendProperties, LenProperties
<1>2. b = [w |-> b.w, r |-> b.r] /\ b.w \in Nat /\ b.r \in Nat
  BY DEF Boundary
<1>3. /\ boundaries' = boundaries \union {b} /\ len' = len
      /\ IF b.w + len - b.r < best_packed + best_remaining
         THEN best_packed' = b.w /\ best_remaining' = len - b.r
         ELSE UNCHANGED <<best_packed, best_remaining>>
  BY <1>2 DEF TrackSplit, len
<1>4. K \in 1..n /\ B[K] = [w |-> best_packed, r |-> len - best_remaining] /\ \A k \in 1..n : B[k] \in boundaries
  BY DEF Kept
<1>. HIDE DEF C, n
<1>5. \A k \in 1..Len(C) : C[k] \in boundaries'
  <2>. SUFFICES ASSUME NEW k \in 1..Len(C) PROVE C[k] \in boundaries'
    OBVIOUS
  <2>1. k = n + 1 \/ k \in 1..n
    BY <1>1
  <2>. QED
    BY <1>1, <1>3, <1>4, <2>1
<1>6. CASE b.w + len - b.r < best_packed + best_remaining
  <2>1. best_packed' = b.w /\ best_remaining' = len - b.r /\ len - (len - b.r) = b.r
    BY <1>2, <1>3, <1>6
  <2>2. n + 1 \in 1..Len(C) /\ C[n + 1] = [w |-> best_packed', r |-> len' - best_remaining']
    BY <1>1, <1>2, <1>3, <2>1
  <2>3. Kept(C, n + 1)'
    BY <1>5, <2>2 DEF Kept
  <2>. QED
    BY <2>3 DEF C
<1>7. CASE ~(b.w + len - b.r < best_packed + best_remaining)
  <2>1. best_packed' = best_packed /\ best_remaining' = best_remaining
    BY <1>3, <1>7
  <2>2. K \in 1..Len(C) /\ C[K] = [w |-> best_packed', r |-> len' - best_remaining']
    BY <1>1, <1>3, <1>4, <2>1
  <2>3. Kept(C, K)'
    BY <1>5, <2>2 DEF Kept
  <2>. QED
    BY <2>3 DEF C
<1>. QED
  BY <1>6, <1>7

\* A literal extends the coded input by one byte.
LEMMA EmitLiteralCoded ==
  ASSUME EInv, EInv', InputKept, LoopCoded, EmitLiteral
  PROVE  LoopCoded'
<1>0. PICK s, b : s = Reverse(data) /\ b = [w |-> write1 + 1, r |-> read_pos + 1]
  OBVIOUS
<1>1. /\ pc = "encode" /\ read_pos < len /\ mask' = mask1 /\ flag_pos' = flag1 /\ data' = data
      /\ output' = [output EXCEPT ![flag1] = Flagged(0), ![write1] = At(input, read_pos)]
      /\ TrackSplit(write1 + 1, read_pos + 1)
  BY DEF EmitLiteral, NextCode
<1>2. /\ data \in Seq(Byte) /\ len \in Nat /\ len' = len /\ read_pos \in 0..(len - 1)
      /\ Len(s) = len /\ input = s
  <2>1. data \in Seq(Byte) /\ read_pos \in 0..len /\ input = s
    BY <1>0, <1>1 DEF EInv, EncTypeOK, InputKept
  <2>2. len \in Nat /\ len' = len /\ Len(s) = len
    BY <1>0, <1>1, <2>1, ReverseIs DEF len
  <2>. QED
    BY <1>1, <2>1, <2>2
<1>3. PICK B, K : Coded(B, Flushed, K) /\ Encoding(B)
  BY DEF LoopCoded
<1>4. WellCoded(s, B, Flushed) /\ Kept(B, K) /\ B \in Seq(Boundary)
  BY <1>0, <1>3 DEF Coded, WellCoded
<1>. DEFINE n == Len(B)
<1>c. PICK C : C = Append(B, b)
  OBVIOUS
<1>5. b \in Boundary /\ b.w = write1 + 1 /\ b.r = read_pos + 1
  BY <1>0, <1>2, EncodedFacts, SMTT(60) DEF Boundary, write1
<1>6. /\ n \in Nat /\ n >= 1 /\ Len(C) = n + 1
      /\ C[n].w = write_pos /\ C[n].r = read_pos /\ C[n + 1] = b
      /\ FirstByte(C, n) = write1
      /\ flag1 \in Nat /\ write1 \in Nat /\ flag1 < write1 /\ write_pos =< write1 /\ write_pos \in Nat
  BY <1>3, <1>4, <1>5, <1>c, NextCodeAt, ZenonT(60)
<1>. HIDE DEF n
<1>7. write_pos' = b.w /\ read_pos' = b.r
  BY <1>1, <1>5 DEF TrackSplit
<1>8. write1 \in 0..(worst_case_len(len) - 1) /\ flag1 \in 0..(worst_case_len(len) - 1)
      /\ DOMAIN output = 0..(worst_case_len(len) - 1) /\ worst_case_len(len) \in Nat
  <2>1. FlushedFacts' /\ worst_case_len(len)' = worst_case_len(len) /\ FlushedFacts
    BY <1>2, FlushedIs, FlushedNext DEF worst_case_len
  <2>2. worst_case_len(len) \in Nat /\ write_pos' =< worst_case_len(len)
    BY <2>1 DEF FlushedFacts
  <2>. QED
    BY <1>5, <1>6, <1>7, <2>1, <2>2 DEF FlushedFacts
<1>9. Bit(C, n) = 0
  BY <1>2, <1>5, <1>6 DEF Bit
<1>10. output'[flag1] = Flagged(Bit(C, n)) /\ output'[write1] = At(s, read_pos)
  BY <1>1, <1>2, <1>6, <1>8, <1>9
<1>11. \A x \in 0..(write_pos - 1) : x # flag1 => output'[x] = output[x]
  <2>. SUFFICES ASSUME NEW x \in 0..(write_pos - 1), x # flag1 PROVE output'[x] = output[x]
    OBVIOUS
  <2>1. x # write1 /\ x \in 0..(worst_case_len(len) - 1)
    BY ONLY <1>6, <1>8, x \in 0..(write_pos - 1)
  <2>. QED
    BY <1>1, <1>8, <2>1
<1>12. LiteralCode(s, C, output', n)
  BY <1>5, <1>6, <1>10 DEF LiteralCode
<1>13. WellCoded(s, C, Flushed') /\ Encoding(C)'
  <2>1. write1 < b.w /\ b.r =< Len(s)
    BY <1>2, <1>5, <1>6, SMTT(60)
  <2>. QED
    BY <1>1, <1>3, <1>4, <1>5, <1>7, <1>10, <1>11, <1>12, <1>c, <2>1, CodeEmitted DEF n
<1>14. PICK J : Kept(C, J)'
  <2>1. TrackSplit(b.w, b.r) /\ b.r =< len
    BY <1>1, <1>2, <1>5
  <2>. QED
    BY <1>1, <1>2, <1>4, <1>5, <1>c, <2>1, KeptStep
<1>15. (Coded(C, Flushed, J) /\ Encoding(C))'
  <2>1. Reverse(data)' = s
    BY <1>0, <1>1
  <2>. QED
    BY <1>13, <1>14, <2>1 DEF Coded
<1>. QED
  BY <1>15 DEF LoopCoded

\* A back-reference extends the coded input by the bytes it repeats.
LEMMA EmitMatchCoded ==
  ASSUME EInv, EInv', InputKept, LoopCoded, EmitMatch
  PROVE  LoopCoded'
<1>. DEFINE l == finder[read_pos][1]
            o == finder[read_pos][2]
            high == (ChosenLen - MIN_MATCH) * 16 + (o - MIN_MATCH) \div 256
            low == (o - MIN_MATCH) % 256
<1>0. PICK s, b : s = Reverse(data) /\ b = [w |-> write1 + 2, r |-> read_pos + l]
  OBVIOUS
<1>1. /\ pc = "encode" /\ read_pos < len /\ mask' = mask1 /\ flag_pos' = flag1 /\ data' = data
      /\ ChosenLen > MATCH_THRESHOLD
      /\ output' = [output EXCEPT ![flag1] = Flagged(1), ![write1] = high, ![write1 + 1] = low]
      /\ TrackSplit(write1 + 2, read_pos + ChosenLen)
  BY DEF EmitMatch, NextCode
<1>2. /\ data \in Seq(Byte) /\ len \in Nat /\ len' = len /\ read_pos \in 0..(len - 1)
      /\ Len(s) = len /\ s \in Seq(Byte)
  <2>1. data \in Seq(Byte) /\ read_pos \in 0..len
    BY DEF EInv, EncTypeOK
  <2>2. len \in Nat /\ len' = len /\ Len(s) = len /\ s \in Seq(Byte)
    BY <1>0, <1>1, <2>1, ReverseIs DEF len
  <2>. QED
    BY <1>1, <2>1, <2>2
<1>3. ChosenLen = l /\ l > MATCH_THRESHOLD
  BY <1>1 DEF ChosenLen, MATCH_THRESHOLD
<1>4. l \in 3..18 /\ o \in 3..4098 /\ read_pos + l =< len
  <2>1. /\ l \in MATCH_THRESHOLD..MAX_MATCH
        /\ l > MATCH_THRESHOLD =>
             read_pos + l =< len /\ o \in MIN_MATCH..MAX_OFFSET
    BY <1>2 DEF EInv, FinderBounded
  <2>2. /\ MAX_MATCH \in Nat /\ MAX_MATCH =< 18 /\ MAX_OFFSET \in Nat /\ MAX_OFFSET =< 4098
    BY MatchAssumption
  <2>3. read_pos \in Int /\ len \in Nat
    BY <1>2
  <2>. HIDE DEF l, o
  <2>. QED
    <3>1. l \in Nat /\ l > 2 /\ l =< 18 /\ o \in Nat /\ o >= 3 /\ o =< 4098
      BY <1>3, <2>1, <2>2 DEF MIN_MATCH, MATCH_THRESHOLD
    <3>. QED
      BY <1>3, <2>1, <3>1
<1>5. Repeats(s, read_pos, l, o)
  <2>1. finder[read_pos] = LongestMatch(s, read_pos)
    BY <1>0, <1>2 DEF InputKept
  <2>2. read_pos \in 0..Len(s)
    BY <1>2
  <2>. QED
    BY <1>2, <1>3, <2>1, <2>2, LongestMatchRepeats
<1>6. high = (l - 3) * 16 + (o - 3) \div 256 /\ low = (o - 3) % 256
  BY <1>3 DEF MIN_MATCH, MATCH_THRESHOLD
<1>. HIDE DEF l, o, high, low
<1>7. PICK B, K : Coded(B, Flushed, K) /\ Encoding(B)
  BY DEF LoopCoded
<1>8. WellCoded(s, B, Flushed) /\ Kept(B, K) /\ B \in Seq(Boundary)
  BY <1>0, <1>7 DEF Coded, WellCoded
<1>. DEFINE n == Len(B)
<1>c. PICK C : C = Append(B, b)
  OBVIOUS
<1>9. b \in Boundary /\ b.w = write1 + 2 /\ b.r = read_pos + l
  BY <1>0, <1>2, <1>4, EncodedFacts, SMTT(60) DEF Boundary, write1
<1>10. /\ n \in Nat /\ n >= 1 /\ Len(C) = n + 1
       /\ C[n].w = write_pos /\ C[n].r = read_pos /\ C[n + 1] = b
       /\ FirstByte(C, n) = write1
       /\ flag1 \in Nat /\ write1 \in Nat /\ flag1 < write1 /\ write_pos =< write1 /\ write_pos \in Nat
  BY <1>7, <1>8, <1>9, <1>c, NextCodeAt, ZenonT(60)
<1>. HIDE DEF n
<1>11. write_pos' = b.w /\ read_pos' = b.r
  BY <1>1, <1>3, <1>9 DEF TrackSplit
<1>12. /\ write1 + 1 \in 0..(worst_case_len(len) - 1) /\ flag1 \in 0..(worst_case_len(len) - 1)
       /\ write1 \in 0..(worst_case_len(len) - 1) /\ DOMAIN output = 0..(worst_case_len(len) - 1)
       /\ worst_case_len(len) \in Nat
  <2>1. FlushedFacts' /\ worst_case_len(len)' = worst_case_len(len) /\ FlushedFacts
    BY <1>2, FlushedIs, FlushedNext DEF worst_case_len
  <2>2. worst_case_len(len) \in Nat /\ write_pos' =< worst_case_len(len)
    BY <2>1 DEF FlushedFacts
  <2>. QED
    BY <1>9, <1>10, <1>11, <2>1, <2>2 DEF FlushedFacts
<1>13. Bit(C, n) = 1
  BY <1>2, <1>4, <1>9, <1>10 DEF Bit
<1>14. flag1 # write1 /\ flag1 # write1 + 1 /\ write1 # write1 + 1
  BY ONLY <1>10
<1>15. output'[flag1] = Flagged(Bit(C, n)) /\ output'[write1] = high /\ output'[write1 + 1] = low
  BY <1>1, <1>12, <1>13, <1>14
<1>16. \A x \in 0..(write_pos - 1) : x # flag1 => output'[x] = output[x]
  <2>. SUFFICES ASSUME NEW x \in 0..(write_pos - 1), x # flag1 PROVE output'[x] = output[x]
    OBVIOUS
  <2>1. x # write1 /\ x # write1 + 1 /\ x \in 0..(worst_case_len(len) - 1)
    BY ONLY <1>10, <1>12, x \in 0..(write_pos - 1), SMTT(60)
  <2>. QED
    BY <1>1, <1>12, <2>1
<1>17. MatchCode(s, C, output', n)
  <2>1. Reference(s, C, output', n, l, o)
    BY <1>4, <1>5, <1>6, <1>9, <1>10, <1>15 DEF Reference
  <2>2. l \in Nat /\ o \in Nat
    BY <1>4
  <2>. QED
    BY <2>1, <2>2 DEF MatchCode
<1>18. WellCoded(s, C, Flushed') /\ Encoding(C)'
  <2>1. write1 < b.w /\ b.r =< Len(s)
    BY <1>2, <1>4, <1>9, <1>10, SMTT(60)
  <2>. QED
    BY <1>1, <1>7, <1>8, <1>9, <1>11, <1>15, <1>16, <1>17, <1>c, <2>1, CodeEmitted DEF n
<1>19. PICK J : Kept(C, J)'
  <2>1. TrackSplit(b.w, b.r) /\ b.r =< len
    BY <1>1, <1>3, <1>4, <1>9
  <2>. QED
    BY <1>1, <1>2, <1>8, <1>9, <1>c, <2>1, KeptStep
<1>20. (Coded(C, Flushed, J) /\ Encoding(C))'
  <2>1. Reverse(data)' = s
    BY <1>0, <1>1
  <2>. QED
    BY <1>18, <1>19, <2>1 DEF Coded
<1>. QED
  BY <1>20 DEF LoopCoded

\* Reversing turns the positions of a buffer round, and twice is not at all.
LEMMA ReverseAt ==
  ASSUME NEW s \in Seq(Byte)
  PROVE  /\ Reverse(Reverse(s)) = s
         /\ \A p \in 0..(Len(s) - 1) : At(Reverse(s), p) = At(s, Len(s) - 1 - p)
<1>. DEFINE n == Len(s)
            t == Reverse(s)
<1>1. n \in Nat /\ t \in Seq(Byte) /\ Len(t) = n
  BY ReverseIs
<1>2. \A i \in 1..n : t[i] = s[(n - i) + 1]
  BY DEF Reverse
<1>3. Reverse(t) \in Seq(Byte) /\ Len(Reverse(t)) = n /\ \A i \in 1..n : Reverse(t)[i] = t[(n - i) + 1]
  <2>. HIDE DEF t, n
  <2>. QED
    BY <1>1, ReverseIs DEF Reverse
<1>. HIDE DEF t, n
<1>4. \A i \in 1..n : Reverse(t)[i] = s[i]
  <2>. SUFFICES ASSUME NEW i \in 1..n PROVE Reverse(t)[i] = s[i]
    OBVIOUS
  <2>1. (n - i) + 1 \in 1..n /\ (n - ((n - i) + 1)) + 1 = i
    BY <1>1
  <2>. QED
    BY <1>2, <1>3, <2>1
<1>5. Reverse(t) = s
  BY <1>3, <1>4, SeqEqual DEF n
<1>6. ASSUME NEW p \in 0..(n - 1) PROVE At(t, p) = At(s, n - 1 - p)
  <2>1. p + 1 \in 1..n /\ (n - (p + 1)) + 1 = (n - 1 - p) + 1
    BY <1>1
  <2>. QED
    BY <1>2, <2>1 DEF At
<1>. QED
  BY <1>5, <1>6 DEF t, n

\* What a copy changes.
LEMMA CopyIntoIs ==
  ASSUME NEW f, NEW at \in Nat, NEW n \in Nat, NEW b
  PROVE  /\ DOMAIN CopyInto(f, at, b, n) = DOMAIN f
         /\ \A i \in DOMAIN f : /\ i \in at..(at + n - 1) => CopyInto(f, at, b, n)[i] = b[i - at]
                                /\ i \notin at..(at + n - 1) => CopyInto(f, at, b, n)[i] = f[i]
BY DEF CopyInto

\* While store_packed moves bytes: the moved ones behind the prefix, the rest
\* where un-reversing left them.
Relocating(Z) ==
  /\ \A m \in 0..(moved - 1) : output[best_remaining + m] = Z[best_packed - 1 - m]
  /\ \A m \in moved..(best_packed - 1) : output[packed_start + m] = Z[best_packed - 1 - m]

\* The byte at i of the prefix followed by the packed region.
Laid(Z, i) == IF i < best_remaining THEN At(data, i) ELSE Z[split - 1 - i]

PackedForm(Z) ==
  /\ ~StoreRaw
  /\ written = split + packed_header_size(split)
  /\ \A i \in 0..(split - 1) : output[i] = Laid(Z, i)
  /\ \A i \in 0..3 : /\ output[written - 12 + i] = LE32(enc_len)[i]
                     /\ output[written - 8 + i] = LE32(packed_header_size(split))[i]
                     /\ output[written - 4 + i] = LE32(extra_len)[i]

StoredForm ==
  /\ written = len + PadTo4(len) + 4
  /\ \A i \in 0..(len - 1) : output[i] = At(data, i)
  /\ \A i \in 0..3 : output[written - 4 + i] = 0

\* The encoder's output stands for its input, at every stage.
FormInv ==
  /\ InputKept
  /\ pc = "encode" => LoopCoded
  /\ pc = "flush" => AllCoded
  /\ pc = "relocate" => \E B, Z, K : Coded(B, Z, K) /\ Relocating(Z)
  /\ pc = "done" => StoredForm \/ \E B, Z, K : Coded(B, Z, K) /\ PackedForm(Z)

\* The loop is left with every byte coded.
LEMMA EndLoopForm ==
  ASSUME FormInv, EndLoop
  PROVE  FormInv'
<1>1. /\ pc = "encode" /\ pc' = "flush"
      /\ UNCHANGED <<data, input, finder, output, mask, flag_pos, best_packed, best_remaining, boundaries>>
  BY DEF EndLoop
<1>2. PICK B, K : Coded(B, Flushed, K)
  BY <1>1 DEF FormInv, LoopCoded
<1>3. Flushed' = Flushed
  BY <1>1 DEF Flushed
<1>4. Coded(B, Flushed, K)'
  BY <1>1, <1>2, <1>3 DEF Coded, Kept, len
<1>5. InputKept'
  BY <1>1 DEF FormInv, InputKept, len
<1>. QED
  BY <1>1, <1>4, <1>5 DEF FormInv, AllCoded

\* And the flush loop keeps them so.
LEMMA FlushBitForm ==
  ASSUME EInv, FormInv, FlushBit
  PROVE  FormInv'
<1>1. /\ pc = "flush" /\ pc' = "flush"
      /\ UNCHANGED <<data, input, finder, best_packed, best_remaining, boundaries>>
  BY DEF FlushBit
<1>2. PICK B, K : Coded(B, Flushed, K)
  BY <1>1 DEF FormInv, AllCoded
<1>3. Flushed' = Flushed
  BY FlushBitKeeps
<1>4. Coded(B, Flushed, K)'
  BY <1>1, <1>2, <1>3 DEF Coded, Kept, len
<1>5. InputKept'
  BY <1>1 DEF FormInv, InputKept, len
<1>. QED
  BY <1>1, <1>4, <1>5 DEF FormInv, AllCoded

\* The packed bytes are un-reversed and wait to be moved.
LEMMA BeginStorePackedForm ==
  ASSUME EInv, FormInv, BeginStorePacked
  PROVE  FormInv'
<1>1. /\ pc = "flush" /\ read_pos = len /\ output' = Unreversed /\ input' = Reverse(input) /\ pc' = "relocate"
      /\ ~Unflushed
      /\ UNCHANGED <<data, finder, read_pos, write_pos, best_packed, best_remaining, moved, boundaries>>
  BY DEF BeginStorePacked, EInv, LayoutChosen
<1>2. AllCoded /\ input = Reverse(data) /\ moved = 0
  BY <1>1 DEF FormInv, InputKept, EInv, LayoutChosen
<1>3. PICK B, Z, K : Coded(B, Z, K) /\ Z = output
  BY <1>1, <1>2, FlushedDone DEF AllCoded
<1>4. InputKept'
  <2>1. input' = data
    BY <1>1, <1>2, EncodedFacts, ReverseAt
  <2>. QED
    BY <1>1, <2>1 DEF FormInv, InputKept, len
<1>5. Coded(B, Z, K)'
  BY <1>1, <1>3 DEF Coded, Kept, len
<1>6. /\ write_pos \in Nat /\ best_packed \in Nat /\ best_packed =< write_pos
      /\ worst_case_len(len) \in Nat /\ write_pos =< worst_case_len(len)
      /\ DOMAIN output = 0..(worst_case_len(len) - 1)
  <2>1. split =< write_pos + len - read_pos /\ split = best_packed + best_remaining
    BY DEF EInv, BestSplit, split
  <2>. QED
    BY <1>1, <2>1, EncodedFacts
<1>7. packed_start' = write_pos - best_packed
  BY <1>1 DEF packed_start, packed_len
<1>8. ASSUME NEW m \in 0..(best_packed - 1) PROVE Unreversed[write_pos - best_packed + m] = Z[best_packed - 1 - m]
  <2>. DEFINE i == write_pos - best_packed + m
  <2>1. i \in DOMAIN output /\ i < write_pos /\ write_pos - 1 - i = best_packed - 1 - m
    BY <1>6
  <2>. HIDE DEF i
  <2>2. Unreversed[i] = output[write_pos - 1 - i]
    BY <2>1 DEF Unreversed
  <2>. QED
    BY <1>3, <2>1, <2>2 DEF i
<1>9. Relocating(Z)'
  <2>1. \A m \in 0..(moved' - 1) : FALSE
    BY <1>1, <1>2
  <2>2. \A m \in moved'..(best_packed' - 1) : output'[packed_start' + m] = Z[best_packed' - 1 - m]
    BY <1>1, <1>2, <1>7, <1>8
  <2>. QED
    BY <2>1, <2>2 DEF Relocating
<1>. QED
  BY <1>1, <1>4, <1>5, <1>9 DEF FormInv

\* A byte is moved down, below every byte still to be moved.
LEMMA RelocateForm ==
  ASSUME EInv, FormInv, Relocate
  PROVE  FormInv'
<1>1. /\ pc = "relocate" /\ pc' = "relocate" /\ moved < best_packed /\ moved' = moved + 1
      /\ output' = [output EXCEPT ![best_remaining + moved] = output[packed_start + moved]]
      /\ UNCHANGED <<data, input, finder, write_pos, best_packed, best_remaining, boundaries>>
  BY DEF Relocate
<1>2. PICK B, Z, K : Coded(B, Z, K) /\ Relocating(Z)
  BY <1>1 DEF FormInv
<1>3. InputKept'
  BY <1>1 DEF FormInv, InputKept, len
<1>4. Coded(B, Z, K)'
  BY <1>1, <1>2 DEF Coded, Kept, len
<1>5. /\ best_remaining =< packed_start /\ packed_start \in Nat /\ packed_start + best_packed = write_pos
      /\ best_remaining \in Nat /\ best_packed \in Nat /\ moved \in Nat /\ write_pos \in Nat
      /\ worst_case_len(len) \in Nat /\ write_pos =< worst_case_len(len)
      /\ DOMAIN output = 0..(worst_case_len(len) - 1)
  <2>1. best_remaining \in 0..len /\ len \in Nat /\ moved \in 0..best_packed /\ best_packed \in Nat
    BY EncodedFacts DEF EInv, EncTypeOK
  <2>. QED
    BY <1>1, <2>1, PackedFacts, EncodedFacts
<1>6. packed_start' = packed_start
  BY <1>1 DEF packed_start, packed_len
<1>7. ASSUME NEW m \in 0..moved PROVE output'[best_remaining + m] = Z[best_packed - 1 - m]
  <2>1. best_remaining + m \in DOMAIN output /\ moved \in moved..(best_packed - 1)
    BY <1>1, <1>5, SMTT(60)
  <2>2. CASE m = moved
    BY <1>1, <1>2, <2>1, <2>2 DEF Relocating
  <2>3. CASE m # moved
    <3>1. m \in 0..(moved - 1) /\ best_remaining + m # best_remaining + moved
      BY <1>5, <2>3
    <3>. QED
      BY <1>1, <1>2, <2>1, <3>1 DEF Relocating
  <2>. QED
    BY <2>2, <2>3
<1>8. ASSUME NEW m \in (moved + 1)..(best_packed - 1) PROVE output'[packed_start + m] = Z[best_packed - 1 - m]
  <2>1. /\ packed_start + m \in DOMAIN output /\ m \in moved..(best_packed - 1)
        /\ packed_start + m # best_remaining + moved
    BY <1>1, <1>5, SMTT(60)
  <2>. QED
    BY <1>1, <1>2, <2>1 DEF Relocating
<1>9. Relocating(Z)'
  <2>1. moved' - 1 = moved
    BY <1>1, <1>5
  <2>. QED
    BY <1>1, <1>6, <1>7, <1>8, <2>1 DEF Relocating
<1>. QED
  BY <1>1, <1>3, <1>4, <1>9 DEF FormInv

\* The stored form ends in a zero word.
LEMMA StoreUncompressedForm ==
  ASSUME EInv, FormInv, StoreUncompressed
  PROVE  FormInv'
<1>. DEFINE end == len + PadTo4(len)
<1>1. /\ pc = "flush" /\ input' = Reverse(input) /\ written' = end + 4 /\ pc' = "done"
      /\ output' = [i \in DOMAIN output |->
                      IF i < len THEN At(input', i) ELSE IF i < end + 4 THEN 0 ELSE Unreversed[i]]
      /\ UNCHANGED <<data, finder>>
  BY DEF StoreUncompressed
<1>2. input' = data
  BY <1>1, EncodedFacts, ReverseAt DEF FormInv, InputKept
<1>3. InputKept' /\ len' = len
  BY <1>1, <1>2 DEF FormInv, InputKept, len
<1>4. len \in Nat /\ end \in Nat /\ len =< end /\ end =< len + 3
      /\ DOMAIN output = 0..(worst_case_len(len) - 1)
      /\ worst_case_len(len) \in Nat /\ len + 7 =< worst_case_len(len)
  <2>1. len \in Nat /\ PadTo4(len) \in 0..3 /\ DOMAIN output = 0..(worst_case_len(len) - 1)
    BY EncodedFacts
  <2>2. len + 7 \in Nat
    BY <2>1
  <2>3. worst_case_len(len) \in Nat /\ len + 7 =< worst_case_len(len)
    BY <2>1, <2>2, WorstCase
  <2>. QED
    BY <2>1, <2>3
<1>. HIDE DEF end
<1>5. ASSUME NEW i \in 0..(len - 1) PROVE output'[i] = At(data, i)
  <2>1. i \in DOMAIN output /\ i < len
    BY <1>4
  <2>. QED
    BY <1>1, <1>2, <2>1
<1>6. ASSUME NEW i \in 0..3 PROVE output'[end + i] = 0
  <2>1. end + i \in DOMAIN output /\ ~(end + i < len) /\ end + i < end + 4
    BY <1>4
  <2>. QED
    BY <1>1, <2>1
<1>7. StoredForm'
  <2>1. written' - 4 = end /\ written' = len + PadTo4(len) + 4
    BY <1>1, <1>4, SMTT(60) DEF end
  <2>2. PadTo4(len)' = PadTo4(len)
    BY <1>3 DEF PadTo4
  <2>. QED
    BY <1>1, <1>3, <1>5, <1>6, <2>1, <2>2 DEF StoredForm
<1>. QED
  BY <1>1, <1>3, <1>7 DEF FormInv

\* The trailer is laid behind the prefix and the packed region.
LEMMA WriteTrailerForm ==
  ASSUME EInv, FormInv, WriteTrailer
  PROVE  FormInv'
<1>. DEFINE D == 0..(worst_case_len(len) - 1)
            pad == PadTo4(split)
            trailer == split + pad
            raw == [i \in 0..(best_remaining - 1) |-> At(input, i)]
            ff == [i \in 0..2 |-> 255]
            hsize == packed_header_size(split)
            prefixed == CopyInto(output, 0, raw, best_remaining)
            padded == CopyInto(prefixed, split, ff, pad)
            withEnc == CopyInto(padded, trailer, LE32(enc_len), 4)
            withHeader == CopyInto(withEnc, trailer + 4, LE32(hsize), 4)
            full == CopyInto(withHeader, trailer + 8, LE32(extra_len), 4)
<1>1. /\ pc = "relocate" /\ moved = best_packed /\ pc' = "done"
      /\ output' = full /\ written' = trailer + FOOTER_SIZE
      /\ UNCHANGED <<data, input, finder, best_packed, best_remaining, boundaries>>
  BY DEF WriteTrailer
<1>2. PICK B, Z, K : Coded(B, Z, K) /\ Relocating(Z)
  BY <1>1 DEF FormInv
<1>3. /\ split \in Nat /\ pad \in 0..3 /\ trailer \in Nat /\ trailer + 12 < len /\ len \in Nat
      /\ best_packed \in Nat /\ best_remaining \in Nat /\ split = best_packed + best_remaining
      /\ DOMAIN output = D /\ worst_case_len(len) \in Nat /\ len =< worst_case_len(len)
      /\ hsize = 12 + pad /\ ~StoreRaw /\ input = data
  <2>1. /\ split \in Nat /\ pad \in 0..3 /\ len \in Nat /\ best_packed \in Nat /\ best_remaining \in 0..len
        /\ worst_case_len(len) \in Nat /\ DOMAIN output = D
    BY EncodedFacts
  <2>2. split + pad + FOOTER_SIZE < len
    BY <1>1, PackedFacts
  <2>3. len =< worst_case_len(len)
    BY <2>1, WorstCase
  <2>4. hsize = 12 + pad /\ split = best_packed + best_remaining
    BY DEF packed_header_size, FOOTER_SIZE, split
  <2>5. ~StoreRaw /\ input = data
    BY <1>1 DEF EInv, LayoutChosen, FormInv, InputKept
  <2>. QED
    BY <2>1, <2>2, <2>3, <2>4, <2>5 DEF FOOTER_SIZE
<1>. HIDE DEF D, pad, trailer, raw, ff, hsize
<1>4. trailer = split + pad /\ raw = [i \in 0..(best_remaining - 1) |-> At(input, i)] /\ D = 0..(worst_case_len(len) - 1)
  BY DEF trailer, raw, D
<1>5. /\ DOMAIN prefixed = D
      /\ \A i \in D : /\ i \in 0..(0 + best_remaining - 1) => prefixed[i] = raw[i - 0]
                      /\ i \notin 0..(0 + best_remaining - 1) => prefixed[i] = output[i]
  BY <1>3, CopyIntoIs, SMTT(60)
<1>. HIDE DEF prefixed
<1>6. /\ DOMAIN padded = D
      /\ \A i \in D : i \notin split..(split + pad - 1) => padded[i] = prefixed[i]
  <2>1. pad \in Nat
    BY <1>3
  <2>. QED
    BY <1>3, <1>5, <2>1, CopyIntoIs
<1>. HIDE DEF padded
<1>7. /\ DOMAIN withEnc = D
      /\ \A i \in D : /\ i \in trailer..(trailer + 4 - 1) => withEnc[i] = LE32(enc_len)[i - trailer]
                      /\ i \notin trailer..(trailer + 4 - 1) => withEnc[i] = padded[i]
  BY <1>3, <1>6, CopyIntoIs
<1>. HIDE DEF withEnc
<1>8. /\ DOMAIN withHeader = D
      /\ \A i \in D : /\ i \in (trailer + 4)..(trailer + 4 + 4 - 1) => withHeader[i] = LE32(hsize)[i - (trailer + 4)]
                      /\ i \notin (trailer + 4)..(trailer + 4 + 4 - 1) => withHeader[i] = withEnc[i]
  <2>1. trailer + 4 \in Nat /\ 4 \in Nat
    BY <1>3
  <2>. QED
    BY <1>7, <2>1, CopyIntoIs
<1>. HIDE DEF withHeader
<1>9. /\ DOMAIN full = D
      /\ \A i \in D : /\ i \in (trailer + 8)..(trailer + 8 + 4 - 1) => full[i] = LE32(extra_len)[i - (trailer + 8)]
                      /\ i \notin (trailer + 8)..(trailer + 8 + 4 - 1) => full[i] = withHeader[i]
  <2>1. trailer + 8 \in Nat /\ 4 \in Nat
    BY <1>3
  <2>. QED
    BY <1>8, <2>1, CopyIntoIs
<1>. HIDE DEF full
<1>10. ASSUME NEW i \in 0..(split - 1) PROVE full[i] = Laid(Z, i)
  <2>1. /\ i \in D /\ i \notin (trailer + 8)..(trailer + 8 + 4 - 1) /\ i \notin (trailer + 4)..(trailer + 4 + 4 - 1)
        /\ i \notin trailer..(trailer + 4 - 1) /\ i \notin split..(split + pad - 1)
    BY <1>3, <1>4
  <2>2. full[i] = prefixed[i]
    BY <1>6, <1>7, <1>8, <1>9, <2>1
  <2>3. CASE i < best_remaining
    <3>1. i \in 0..(0 + best_remaining - 1) /\ i - 0 = i /\ i \in 0..(best_remaining - 1)
      BY <1>3, <2>3
    <3>2. prefixed[i] = raw[i]
      BY <1>5, <2>1, <3>1
    <3>3. raw[i] = At(data, i)
      BY <1>3, <1>4, <3>1
    <3>. QED
      BY <2>2, <2>3, <3>2, <3>3 DEF Laid
  <2>4. CASE ~(i < best_remaining)
    <3>. DEFINE m == i - best_remaining
    <3>1. /\ i \notin 0..(0 + best_remaining - 1) /\ m \in 0..(moved - 1) /\ best_remaining + m = i
          /\ best_packed - 1 - m = split - 1 - i
      BY <1>1, <1>3, <2>4
    <3>. HIDE DEF m
    <3>2. output[best_remaining + m] = Z[best_packed - 1 - m]
      BY <1>2, <3>1 DEF Relocating
    <3>. QED
      BY <1>5, <2>1, <2>2, <2>4, <3>1, <3>2 DEF Laid
  <2>. QED
    BY <2>3, <2>4
<1>11. ASSUME NEW i \in 0..3
       PROVE  /\ full[trailer + i] = LE32(enc_len)[i]
              /\ full[trailer + 4 + i] = LE32(hsize)[i]
              /\ full[trailer + 8 + i] = LE32(extra_len)[i]
  <2>1. /\ trailer + i \in D /\ trailer + 4 + i \in D /\ trailer + 8 + i \in D
        /\ trailer + i \notin (trailer + 8)..(trailer + 8 + 4 - 1)
        /\ trailer + i \notin (trailer + 4)..(trailer + 4 + 4 - 1)
        /\ trailer + i \in trailer..(trailer + 4 - 1) /\ (trailer + i) - trailer = i
        /\ trailer + 4 + i \notin (trailer + 8)..(trailer + 8 + 4 - 1)
        /\ trailer + 4 + i \in (trailer + 4)..(trailer + 4 + 4 - 1) /\ (trailer + 4 + i) - (trailer + 4) = i
        /\ trailer + 8 + i \in (trailer + 8)..(trailer + 8 + 4 - 1) /\ (trailer + 8 + i) - (trailer + 8) = i
    BY <1>3, <1>4
  <2>2. full[trailer + i] = LE32(enc_len)[i]
    BY <1>7, <1>8, <1>9, <2>1
  <2>3. full[trailer + 4 + i] = LE32(hsize)[i]
    BY <1>8, <1>9, <2>1
  <2>4. full[trailer + 8 + i] = LE32(extra_len)[i]
    BY <1>9, <2>1
  <2>. QED
    BY <2>2, <2>3, <2>4
<1>12. /\ len' = len /\ split' = split /\ StoreRaw' = StoreRaw
       /\ packed_header_size(split)' = hsize /\ enc_len' = enc_len /\ extra_len' = extra_len
       /\ \A i \in 0..(split - 1) : Laid(Z, i)' = Laid(Z, i)
  BY <1>1 DEF len, split, StoreRaw, trailer_fits, hsize, enc_len, extra_len, Laid
<1>13. PackedForm(Z)'
  <2>1. /\ written' = split + hsize
        /\ \A i \in 0..3 : /\ written' - 12 + i = trailer + i /\ written' - 8 + i = trailer + 4 + i
                           /\ written' - 4 + i = trailer + 8 + i
    BY <1>1, <1>3, <1>4 DEF FOOTER_SIZE
  <2>2. \A i \in 0..3 : LE32(packed_header_size(split)')[i] = LE32(hsize)[i]
    BY <1>12
  <2>3. \A i \in 0..(split - 1) : output'[i] = Laid(Z, i)'
    BY <1>1, <1>10, <1>12
  <2>4. \A i \in 0..3 : /\ output'[written' - 12 + i] = LE32(enc_len')[i]
                        /\ output'[written' - 8 + i] = LE32(hsize)[i]
                        /\ output'[written' - 4 + i] = LE32(extra_len')[i]
    BY <1>1, <1>11, <1>12, <2>1
  <2>. QED
    BY <1>3, <1>12, <2>1, <2>2, <2>3, <2>4 DEF PackedForm
<1>14. InputKept' /\ Coded(B, Z, K)'
  BY <1>1, <1>2 DEF FormInv, InputKept, Coded, Kept, len
<1>. QED
  BY <1>1, <1>13, <1>14 DEF FormInv

\* compress starts with nothing coded.
LEMMA InitForm == Init => FormInv
<1>. SUFFICES ASSUME Init PROVE FormInv
  OBVIOUS
<1>. USE DEF Init, EncInit
<1>1. pc = "encode" /\ InputKept
  BY DEF InputKept, len
<1>. DEFINE B == <<[w |-> 0, r |-> 0]>>
<1>2. data \in Seq(Byte) /\ Len(Reverse(data)) \in Nat /\ len \in Nat
  BY InputsAssumption, ReverseIs DEF len
<1>3. B \in Seq(Boundary) /\ Len(B) = 1 /\ B[1] = [w |-> 0, r |-> 0] /\ B[1].w = 0 /\ B[1].r = 0
  BY DEF Boundary
<1>. HIDE DEF B
<1>4. WellCoded(Reverse(data), B, Flushed)
  <2>1. \A j, k \in 1..Len(B) : ~(j < k)
    BY <1>3
  <2>2. \A k \in 1..Len(B) : B[k].r =< Len(Reverse(data))
    BY <1>2, <1>3
  <2>3. \A k \in 1..(Len(B) - 1) : FALSE
    BY <1>3
  <2>4. \A g \in Nat : ~(8 * g + 1 < Len(B))
    BY <1>3
  <2>. QED
    BY <1>3, <2>1, <2>2, <2>3, <2>4 DEF WellCoded
<1>5. Encoding(B)
  BY <1>3 DEF Encoding
<1>6. Kept(B, 1)
  BY <1>2, <1>3 DEF Kept, len
<1>7. LoopCoded
  BY <1>4, <1>5, <1>6 DEF LoopCoded, Coded
<1>. QED
  BY <1>1, <1>7 DEF FormInv

\* Every step of the codec keeps the output standing for the input.
LEMMA NextForm == EInv /\ EInv' /\ FormInv /\ [Next]_vars => FormInv'
<1>. SUFFICES ASSUME EInv, EInv', FormInv, [Next]_vars PROVE FormInv'
  OBVIOUS
<1>1. CASE UNCHANGED encVars
  <2>1. /\ pc' = pc /\ InputKept' = InputKept /\ LoopCoded' = LoopCoded /\ AllCoded' = AllCoded /\ StoredForm' = StoredForm
    BY <1>1 DEF encVars, InputKept, LoopCoded, AllCoded, StoredForm, Coded, Kept, Encoding, InGroup, Flushed, len
  <2>2. ASSUME NEW B, NEW Z, NEW K
        PROVE  Coded(B, Z, K)' = Coded(B, Z, K) /\ Relocating(Z)' = Relocating(Z) /\ PackedForm(Z)' = PackedForm(Z)
    BY <1>1 DEF encVars, Coded, Kept, Relocating, PackedForm, Laid, StoreRaw, trailer_fits, split, len,
                packed_start, packed_len, enc_len, extra_len
  <2>. QED
    BY <2>1, <2>2 DEF FormInv
<1>2. CASE EmitLiteral \/ EmitMatch
  <2>1. pc = "encode" /\ pc' = "encode" /\ UNCHANGED <<data, input, finder>>
    BY <1>2 DEF EmitLiteral, EmitMatch, NextCode
  <2>2. InputKept /\ LoopCoded
    BY <2>1 DEF FormInv
  <2>3. LoopCoded'
    BY <1>2, <2>2, EmitLiteralCoded, EmitMatchCoded
  <2>4. InputKept'
    BY <2>1, <2>2 DEF InputKept, len
  <2>. QED
    BY <2>1, <2>3, <2>4 DEF FormInv
<1>3. CASE StoreUncompressed \/ BeginStorePacked \/ Relocate \/ WriteTrailer
  BY <1>3, StoreUncompressedForm, BeginStorePackedForm, RelocateForm, WriteTrailerForm
<1>4. CASE Hand \/ (DecNext /\ UNCHANGED encVars) \/ Finished \/ UNCHANGED vars
  BY <1>1, <1>4 DEF Hand, Finished, vars
<1>5. CASE EndLoop
  BY <1>5, EndLoopForm
<1>6. CASE FlushBit
  BY <1>6, FlushBitForm
<1>. QED
  BY <1>2, <1>3, <1>4, <1>5, <1>6 DEF Next, EncNext
-----------------------------------------------------------------------------
(***************************************************************************)
(* What decompress makes of it.  The trailer's fields are u32, so the      *)
(* input has to be shorter than 4 GiB.                                     *)
(***************************************************************************)
InputsFitU32 == \A d \in Inputs : Len(d) < 65536 * 65536

\* The four bytes of a little-endian word give the word back.
LEMMA LE32Value ==
  ASSUME NEW x \in Nat, x < 65536 * 65536
  PROVE  LE32(x)[0] + 256 * LE32(x)[1] + 65536 * LE32(x)[2] + 16777216 * LE32(x)[3] = x
<1>. DEFINE a == x % 256
            y == x \div 256
            b == y % 256
            z == y \div 256
            c == z % 256
            u == z \div 256
<1>1. x = 256 * y + a /\ a \in Nat /\ y \in Nat
  OBVIOUS
<1>2. y = 256 * z + b /\ b \in Nat /\ z \in Nat
  BY <1>1
<1>3. z = 256 * u + c /\ c \in Nat /\ u \in Nat
  BY <1>2
<1>4. x \div 65536 = z /\ x \div 16777216 = u
  OBVIOUS
<1>5. u % 256 = u
  OBVIOUS
<1>6. LE32(x)[0] = (x \div 1) % 256 /\ LE32(x)[1] = (x \div 256) % 256
  BY DEF LE32
<1>7. LE32(x)[2] = (x \div 65536) % 256 /\ LE32(x)[3] = (x \div 16777216) % 256
  BY DEF LE32
<1>8. x \div 1 = x
  OBVIOUS
<1>9. LE32(x)[0] = a /\ LE32(x)[1] = b /\ LE32(x)[2] = c /\ LE32(x)[3] = u
  BY <1>4, <1>5, <1>6, <1>7, <1>8
<1>. HIDE DEF a, b, c, u, y, z
<1>. QED
  BY ONLY <1>1, <1>2, <1>3, <1>9

\* The stream is the part of the buffer that was written.
LEMMA StreamIs ==
  ASSUME EInv, stream = Stream
  PROVE  /\ written \in Nat /\ total = written
         /\ \A i \in 0..(written - 1) : stream[i + 1] = output[i] /\ output[i] \in Byte
<1>1. /\ written \in Nat /\ len \in Nat /\ PadTo4(len) \in 0..3 /\ written =< len + PadTo4(len) + 4
      /\ output \in [0..(worst_case_len(len) - 1) -> Byte] /\ worst_case_len(len) \in Nat
  BY EncodedFacts DEF EInv, EncTypeOK, LayoutChosen
<1>2. written =< worst_case_len(len)
  <2>1. written =< len + 7
    BY <1>1
  <2>. QED
    BY <1>1, <2>1, WorstCase
<1>3. ASSUME NEW i \in 0..(written - 1) PROVE output[i] \in Byte
  <2>1. i \in 0..(worst_case_len(len) - 1)
    BY <1>1, <1>2
  <2>. QED
    BY <1>1, <2>1
<1>4. \A i \in 1..written : output[i - 1] \in Byte
  <2>. SUFFICES ASSUME NEW i \in 1..written PROVE output[i - 1] \in Byte
    OBVIOUS
  <2>1. i - 1 \in 0..(written - 1)
    BY <1>1
  <2>. QED
    BY <1>3, <2>1
<1>5. Len(stream) = written
  BY <1>1, <1>4 DEF Stream
<1>6. ASSUME NEW i \in 0..(written - 1) PROVE stream[i + 1] = output[i]
  <2>1. i + 1 \in 1..written /\ (i + 1) - 1 = i
    BY <1>1
  <2>. QED
    BY <2>1 DEF Stream
<1>. QED
  BY <1>1, <1>3, <1>5, <1>6 DEF total

\* A word of the trailer reads back as it was written.
LEMMA StreamWord ==
  ASSUME EInv, stream = Stream, NEW k \in 4..12, k =< written, NEW x \in Nat, x < 65536 * 65536,
         \A i \in 0..3 : output[written - k + i] = LE32(x)[i]
  PROVE  TrailingU32(k) = x
<1>. DEFINE at == written - k
<1>1. /\ written \in Nat /\ Len(stream) = written
      /\ \A i \in 0..(written - 1) : stream[i + 1] = output[i]
  BY StreamIs DEF total
<1>2. at \in Nat /\ at + 3 =< written - 1
  BY <1>1
<1>3. ASSUME NEW i \in 0..3 PROVE stream[at + (i + 1)] = LE32(x)[i]
  <2>1. written - k + i = at + i /\ at + i \in 0..(written - 1) /\ (at + i) + 1 = at + (i + 1)
    BY <1>1, <1>2
  <2>2. stream[(at + i) + 1] = output[at + i] /\ output[at + i] = LE32(x)[i]
    BY <1>1, <2>1, SMTT(60)
  <2>. QED
    BY <2>1, <2>2
<1>4. /\ stream[at + 1] = LE32(x)[0] /\ stream[at + 2] = LE32(x)[1]
      /\ stream[at + 3] = LE32(x)[2] /\ stream[at + 4] = LE32(x)[3]
  <2>1. /\ stream[at + (0 + 1)] = LE32(x)[0] /\ stream[at + (1 + 1)] = LE32(x)[1]
        /\ stream[at + (2 + 1)] = LE32(x)[2] /\ stream[at + (3 + 1)] = LE32(x)[3]
    BY <1>3
  <2>2. 0 + 1 = 1 /\ 1 + 1 = 2 /\ 2 + 1 = 3 /\ 3 + 1 = 4
    OBVIOUS
  <2>. QED
    BY <2>1, <2>2
<1>5. TrailingU32(k) = stream[at + 1] + 256 * stream[at + 2] + 65536 * stream[at + 3] + 16777216 * stream[at + 4]
  BY <1>1 DEF TrailingU32
<1>. QED
  BY <1>4, <1>5, LE32Value

\* The lengths the packed form records.
LEMMA PackedNumbers ==
  ASSUME EInv, NEW Z, PackedForm(Z)
  PROVE  /\ split \in Nat /\ best_packed \in Nat /\ best_remaining \in Nat /\ len \in Nat /\ written \in Nat
         /\ split = best_packed + best_remaining /\ best_packed > 0
         /\ packed_header_size(split) \in 12..15 /\ written = split + packed_header_size(split)
         /\ enc_len = best_packed + packed_header_size(split)
         /\ extra_len = len - written /\ extra_len > 0 /\ extra_len \in Nat
         /\ written < len
<1>1. /\ split \in Nat /\ best_packed \in Nat /\ best_remaining \in 0..len /\ len \in Nat
      /\ PadTo4(split) \in 0..3
  BY EncodedFacts
<1>2. packed_header_size(split) = 12 + PadTo4(split)
  BY DEF packed_header_size, FOOTER_SIZE
<1>3. /\ best_packed # 0 /\ len - split > packed_header_size(split)
      /\ written = split + packed_header_size(split)
  BY DEF PackedForm, StoreRaw, trailer_fits
<1>4. /\ enc_len = best_packed + packed_header_size(split)
      /\ extra_len = (len - split) - packed_header_size(split) /\ split = best_packed + best_remaining
  BY DEF enc_len, extra_len, split
<1>. QED
  BY <1>1, <1>2, <1>3, <1>4

\* The input fits the trailer's words.
InputFits == len < 65536 * 65536

\* What decompress reads in the trailer of a packed stream.
LEMMA TrailerIs ==
  ASSUME EInv, InputFits, stream = Stream, NEW Z, PackedForm(Z)
  PROVE  /\ total = written /\ TrailingU32(4) = extra_len /\ TrailingU32(8) = packed_header_size(split)
         /\ TrailingU32(12) = enc_len /\ OutLen = len
<1>. DEFINE hsize == packed_header_size(split)
<1>1. /\ split \in Nat /\ best_packed \in Nat /\ best_remaining \in Nat /\ len \in Nat /\ written \in Nat
      /\ split = best_packed + best_remaining
      /\ hsize \in 12..15 /\ written = split + hsize
      /\ enc_len = best_packed + hsize /\ extra_len = len - written /\ extra_len \in Nat
      /\ written < len /\ len < 65536 * 65536
  BY PackedNumbers DEF InputFits
<1>2. \A i \in 0..3 : /\ output[written - 12 + i] = LE32(enc_len)[i]
                      /\ output[written - 8 + i] = LE32(hsize)[i]
                      /\ output[written - 4 + i] = LE32(extra_len)[i]
  BY DEF PackedForm
<1>. HIDE DEF hsize
<1>3. /\ enc_len \in Nat /\ enc_len < 65536 * 65536 /\ hsize \in Nat /\ hsize < 65536 * 65536
      /\ extra_len < 65536 * 65536 /\ 12 =< written /\ 8 =< written /\ 4 =< written
      /\ 4 \in 4..12 /\ 8 \in 4..12 /\ 12 \in 4..12
  BY ONLY <1>1
<1>4. TrailingU32(4) = extra_len
  BY <1>1, <1>2, <1>3, StreamWord
<1>5. TrailingU32(8) = hsize
  BY <1>1, <1>2, <1>3, StreamWord
<1>6. TrailingU32(12) = enc_len
  BY <1>1, <1>2, <1>3, StreamWord
<1>7. total = written
  BY StreamIs
<1>8. OutLen = len
  BY <1>1, <1>4, <1>7 DEF OutLen
<1>. QED
  BY <1>4, <1>5, <1>6, <1>7, <1>8 DEF hsize

\* Where boundary c + 1 lies relative to the split.
LEMMA SplitAt ==
  ASSUME EInv, SplitInv, NEW B, NEW Z, NEW K, Coded(B, Z, K), NEW c \in 0..(K - 1)
  PROVE  /\ K \in 1..Len(B) /\ Len(B) \in Nat /\ c \in Nat /\ c + 1 \in 1..Len(B)
         /\ B[c + 1].w \in Nat /\ B[c + 1].r \in Nat /\ B[c + 1].r =< len
         /\ B[c + 1].w =< best_packed /\ (c < K - 1 => B[c + 1].w < best_packed)
         /\ c = K - 1 => B[c + 1].w = best_packed /\ B[c + 1].r = len - best_remaining
         /\ split - B[c + 1].w =< len - B[c + 1].r
         /\ split \in Nat /\ len \in Nat /\ best_packed \in Nat /\ best_remaining \in 0..len
         /\ split = best_packed + best_remaining
<1>1. WellCoded(Reverse(data), B, Z) /\ Kept(B, K)
  BY DEF Coded
<1>2. /\ K \in 1..Len(B) /\ B[K] = [w |-> best_packed, r |-> len - best_remaining]
      /\ \A k \in 1..Len(B) : B[k] \in boundaries
  BY <1>1 DEF Kept
<1>3. /\ Len(B) \in Nat
      /\ \A k \in 1..Len(B) : B[k].w \in Nat /\ B[k].r \in Nat
      /\ \A j, k \in 1..Len(B) : j < k => B[j].w < B[k].w
  BY <1>1, BoundaryFacts
<1>4. c \in Nat /\ c + 1 \in 1..Len(B) /\ (c < K - 1 => c + 1 < K) /\ (c = K - 1 => c + 1 = K)
  BY <1>2, <1>3
<1>5. /\ split \in Nat /\ len \in Nat /\ best_packed \in Nat /\ best_remaining \in 0..len
      /\ split = best_packed + best_remaining
  BY EncodedFacts DEF split
<1>6. B[K].w = best_packed /\ B[K].r = len - best_remaining
  BY <1>2
<1>7. /\ B[c + 1].w \in Nat /\ B[c + 1].r \in Nat
      /\ (c < K - 1 => B[c + 1].w < best_packed)
      /\ c = K - 1 => B[c + 1].w = best_packed /\ B[c + 1].r = len - best_remaining
  BY <1>2, <1>3, <1>4, <1>6
<1>8. B[c + 1].r =< len
  <2>1. Len(Reverse(data)) = len
    BY EncodedFacts, ReverseIs DEF len
  <2>. QED
    BY <1>1, <1>4, <2>1 DEF WellCoded
<1>9. split =< B[c + 1].w + len - B[c + 1].r
  BY <1>2, <1>4 DEF SplitInv, SplitIsCheapest
<1>10. c < K - 1 \/ c = K - 1
  BY <1>2, <1>3
<1>11. split - B[c + 1].w =< len - B[c + 1].r /\ B[c + 1].w =< best_packed
  <2>. DEFINE x == B[c + 1].w
              y == B[c + 1].r
  <2>1. x \in Nat /\ y \in Nat /\ split =< x + (len - y) /\ (x < best_packed \/ x = best_packed)
    BY <1>5, <1>7, <1>9, <1>10
  <2>. HIDE DEF x, y
  <2>2. split - x =< len - y /\ x =< best_packed
    BY ONLY <1>5, <2>1
  <2>. QED
    BY <2>2 DEF x, y
<1>. QED
  BY <1>2, <1>3, <1>4, <1>5, <1>7, <1>8, <1>11

\* The top flag tells which of the two kinds the next code is.
LEMMA FlagTells ==
  ASSUME NEW s, NEW B, NEW Z, WellCoded(s, B, Z), NEW c \in Nat, c + 1 < Len(B),
         NEW j \in 0..7, c % 8 = j
  PROVE  LET f == FlagByte(B, c \div 8, j)
         IN  /\ f < 128 => LiteralCode(s, B, Z, c + 1)
             /\ f >= 128 => MatchCode(s, B, Z, c + 1)
             /\ FlagByte(B, c \div 8, j + 1) = (2 * f) % 256
<1>. DEFINE g == c \div 8
            f == FlagByte(B, g, j)
            k == c + 1
<1>1. g \in Nat /\ c = 8 * g + j
  OBVIOUS
<1>. HIDE DEF g
<1>2. f \in 0..255 /\ (f >= 128 <=> BitAt(B, g, j + 1) = 1) /\ FlagByte(B, g, j + 1) = (2 * f) % 256
  <2>1. g \in Nat /\ j \in 0..7
    BY <1>1
  <2>. HIDE DEF f
  <2>. QED
    BY ONLY <2>1, FlagShift DEF f
<1>3. /\ Len(B) \in Nat
      /\ \A i \in 1..Len(B) : B[i].w \in Nat /\ B[i].r \in Nat
  BY BoundaryFacts
<1>4. j + 1 =< 8 /\ 8 * g + (j + 1) = k /\ 8 * g + (j + 1) < Len(B)
  BY <1>1, <1>3
<1>5. BitAt(B, g, j + 1) = Bit(B, k)
  BY <1>4 DEF BitAt
<1>6. k \in 1..(Len(B) - 1) /\ k \in 1..Len(B) /\ k + 1 \in 1..Len(B)
  BY <1>3
<1>7. LiteralCode(s, B, Z, k) \/ MatchCode(s, B, Z, k)
  BY <1>6 DEF WellCoded
<1>8. LiteralCode(s, B, Z, k) => Bit(B, k) = 0
  <2>. SUFFICES ASSUME LiteralCode(s, B, Z, k) PROVE Bit(B, k) = 0
    OBVIOUS
  <2>1. B[k + 1].r = B[k].r + 1 /\ B[k].r \in Nat
    BY <1>3, <1>6 DEF LiteralCode
  <2>2. ~(B[k + 1].r > B[k].r + 1)
    BY <2>1
  <2>. QED
    BY <2>2 DEF Bit
<1>9. MatchCode(s, B, Z, k) => Bit(B, k) = 1
  <2>. SUFFICES ASSUME MatchCode(s, B, Z, k) PROVE Bit(B, k) = 1
    OBVIOUS
  <2>1. PICK l \in Nat, o \in Nat : Reference(s, B, Z, k, l, o)
    BY DEF MatchCode
  <2>2. l \in 3..18 /\ B[k + 1].r = B[k].r + l /\ B[k].r \in Nat
    BY <1>3, <1>6, <2>1 DEF Reference
  <2>3. B[k + 1].r > B[k].r + 1
    BY <2>2
  <2>. QED
    BY <2>3 DEF Bit
<1>. HIDE DEF f, k
<1>10. /\ f < 128 => LiteralCode(s, B, Z, k)
       /\ f >= 128 => MatchCode(s, B, Z, k)
  BY <1>2, <1>5, <1>7, <1>8, <1>9
<1>. QED
  BY <1>2, <1>10 DEF f, g, k

\* The bytes still to be copied by the back-reference that ends at r.
Copying(r) ==
  /\ distance \in 3..4098
  /\ \A q \in (r - pending)..(r - 1) :
       distance =< q /\ At(Reverse(data), q) = At(Reverse(data), q - distance)

\* The decoding loop stands after c of the codes.
Decodes(B, K, c) ==
  /\ c \in 0..(K - 1)
  /\ pending \in Nat /\ bits \in 0..8
  /\ dst = (len - B[c + 1].r) + pending
  /\ bits = 0 => cmp = split - B[c + 1].w /\ (c = K - 1 \/ c % 8 = 0)
  /\ bits > 0 => /\ c % 8 = 8 - bits /\ (bits = 8 => c < K - 1)
                 /\ cmp = split - FirstByte(B, c + 1)
                 /\ flags = FlagByte(B, c \div 8, 8 - bits)
  /\ pending > 0 => Copying(B[c + 1].r)

\* The buffer decoded in place: the stream below the read cursor, the input from
\* the write cursor on.
OutHolds(Z) ==
  /\ out \in [0..(len - 1) -> Byte]
  /\ \A i \in 0..(cmp - 1) : out[i] = Laid(Z, i)
  /\ \A i \in dst..(len - 1) : out[i] = At(data, i)

Loop(B, Z, K, c) == Coded(B, Z, K) /\ PackedForm(Z) /\ OutHolds(Z) /\ Decodes(B, K, c)

\* The read cursor is never above the write cursor of the code being copied.
LEMMA CursorsApart ==
  ASSUME EInv, SplitInv, NEW B, NEW Z, NEW K, NEW c, Coded(B, Z, K), Decodes(B, K, c)
  PROVE  /\ cmp \in Int /\ dst \in Nat /\ cmp =< split - B[c + 1].w /\ cmp =< dst - pending
         /\ cmp > best_remaining => c < K - 1
         /\ c < K - 1 => cmp > best_remaining
<1>1. c \in 0..(K - 1)
  BY DEF Decodes
<1>. DEFINE x == B[c + 1].w
            y == B[c + 1].r
            f == FirstByte(B, c + 1)
<1>2. /\ K \in Nat /\ c \in Nat /\ x \in Nat /\ y \in Nat /\ y =< len
      /\ x =< best_packed /\ (c < K - 1 => x < best_packed)
      /\ (c = K - 1 => x = best_packed)
      /\ split - x =< len - y
      /\ split \in Nat /\ len \in Nat /\ best_packed \in Nat /\ best_remaining \in Nat
      /\ split = best_packed + best_remaining
  BY <1>1, SplitAt
<1>3. /\ pending \in Nat /\ bits \in 0..8 /\ dst = (len - y) + pending
      /\ bits = 0 => cmp = split - x
      /\ bits > 0 => cmp = split - f /\ c % 8 = 8 - bits /\ (bits = 8 => c < K - 1)
  BY DEF Decodes
<1>4. f = x + (IF c % 8 = 0 THEN 1 ELSE 0)
  <2>1. (c + 1) - 1 = c
    BY <1>2
  <2>. QED
    BY <2>1 DEF FirstByte
<1>5. (bits > 0 /\ c % 8 = 0) => (c < K - 1 /\ f < best_packed)
  <2>. SUFFICES ASSUME bits > 0, c % 8 = 0 PROVE c < K - 1 /\ f < best_packed
    OBVIOUS
  <2>1. bits = 8 /\ c < K - 1 /\ f = x + 1
    BY <1>3, <1>4
  <2>2. c + 1 \in 0..(K - 1)
    BY <1>2, <2>1
  <2>3. B[(c + 1) + 1].w =< best_packed /\ B[(c + 1) + 1].w \in Nat
    BY <2>2, SplitAt
  <2>4. f + 1 =< B[(c + 1) + 1].w
    <3>1. c + 1 \in 1..(Len(B) - 1) /\ WellCoded(Reverse(data), B, Z)
      <4>1. K \in 1..Len(B) /\ Len(B) \in Nat
        BY <1>1, SplitAt
      <4>. QED
        BY <1>2, <2>1, <4>1 DEF Coded
    <3>2. LiteralCode(Reverse(data), B, Z, c + 1) \/ MatchCode(Reverse(data), B, Z, c + 1)
      BY <3>1 DEF WellCoded
    <3>3. B[(c + 1) + 1].w = f + 1 \/ B[(c + 1) + 1].w = f + 2
      BY <3>2 DEF LiteralCode, MatchCode, Reference
    <3>. QED
      BY <1>2, <2>1, <3>3
  <2>. QED
    BY <1>2, <2>1, <2>3, <2>4
<1>. HIDE DEF x, y, f
<1>6. /\ cmp \in Int /\ dst \in Nat /\ cmp =< split - x /\ cmp =< dst - pending
      /\ cmp > best_remaining => c < K - 1
      /\ c < K - 1 => cmp > best_remaining
  BY <1>1, <1>2, <1>3, <1>4, <1>5
<1>. QED
  BY <1>6 DEF x

\* decompress leaves the encoder's variables alone.
LEMMA EncoderRests ==
  ASSUME UNCHANGED encVars, NEW B, NEW Z, NEW K
  PROVE  /\ len' = len /\ split' = split /\ data' = data /\ pc' = pc /\ Stream' = Stream
         /\ best_packed' = best_packed /\ best_remaining' = best_remaining /\ Reverse(data)' = Reverse(data)
         /\ Coded(B, Z, K)' = Coded(B, Z, K) /\ PackedForm(Z)' = PackedForm(Z)
         /\ \A i : Laid(Z, i)' = Laid(Z, i)
BY DEF encVars, Coded, Kept, PackedForm, Laid, StoreRaw, trailer_fits, split, len, enc_len, extra_len, Stream

\* What lies below a cursor lies below a higher one.
LEMMA BelowCursor ==
  ASSUME NEW a \in Int, NEW b \in Int, a =< b, NEW i \in 0..(a - 1)
  PROVE  i \in 0..(b - 1)
OBVIOUS

\* A step that leaves the buffer alone and does not move the cursors up.
LEMMA BufferRests ==
  ASSUME UNCHANGED encVars, NEW Z, OutHolds(Z), out' = out, dst' = dst, cmp \in Int, cmp' \in Int, cmp' =< cmp
  PROVE  OutHolds(Z)'
<1>1. len' = len /\ data' = data /\ \A i : Laid(Z, i)' = Laid(Z, i)
  BY EncoderRests
<1>2. /\ out \in [0..(len - 1) -> Byte]
      /\ \A i \in 0..(cmp - 1) : out[i] = Laid(Z, i)
      /\ \A i \in dst..(len - 1) : out[i] = At(data, i)
  BY DEF OutHolds
<1>3. \A i \in 0..(cmp' - 1) : i \in 0..(cmp - 1)
  BY BelowCursor
<1>. QED
  BY <1>1, <1>2, <1>3 DEF OutHolds

\* A step that writes the next byte of the input, above the read cursor.
LEMMA ByteWritten ==
  ASSUME EInv, UNCHANGED encVars, NEW Z, OutHolds(Z), dst \in 1..len, dst' = dst - 1,
         cmp \in Int, cmp' \in Int, cmp' =< cmp, cmp' =< dst - 1,
         NEW v, out' = [out EXCEPT ![dst - 1] = v], v = At(data, dst - 1)
  PROVE  OutHolds(Z)'
<1>1. len' = len /\ data' = data /\ \A i : Laid(Z, i)' = Laid(Z, i)
  BY EncoderRests
<1>2. /\ out \in [0..(len - 1) -> Byte]
      /\ \A i \in 0..(cmp - 1) : out[i] = Laid(Z, i)
      /\ \A i \in dst..(len - 1) : out[i] = At(data, i)
  BY DEF OutHolds
<1>3. data \in Seq(Byte) /\ len \in Nat /\ len = Len(data)
  BY EncodedFacts DEF len
<1>4. dst - 1 \in 0..(len - 1)
  BY <1>3
<1>5. v \in Byte
  BY <1>3, <1>4 DEF At
<1>6. out' \in [0..(len - 1) -> Byte]
  BY <1>2, <1>5
<1>7. ASSUME NEW i \in 0..(cmp' - 1) PROVE out'[i] = Laid(Z, i)
  <2>1. i \in 0..(cmp - 1) /\ i # dst - 1 /\ i \in 0..(len - 1)
    <3>1. dst - 1 \in Int /\ dst \in Int
      BY <1>3
    <3>2. i \in 0..(cmp - 1)
      BY BelowCursor
    <3>3. i \in 0..((dst - 1) - 1)
      BY <3>1, BelowCursor
    <3>. QED
      BY ONLY <1>3, <1>4, <3>1, <3>2, <3>3
  <2>. QED
    BY <1>2, <2>1
<1>8. ASSUME NEW i \in dst'..(len - 1) PROVE out'[i] = At(data, i)
  <2>1. i \in 0..(len - 1) /\ (i = dst - 1 \/ i \in dst..(len - 1))
    BY <1>3, <1>4
  <2>2. CASE i = dst - 1
    BY <1>2, <1>4, <2>2
  <2>3. CASE i # dst - 1
    BY <1>2, <2>1, <2>3
  <2>. QED
    BY <2>2, <2>3
<1>. QED
  BY <1>1, <1>6, <1>7, <1>8 DEF OutHolds

\* The byte the read cursor is about to read, as a byte of the codes.
LEMMA ByteRead ==
  ASSUME EInv, NEW Z, OutHolds(Z), NEW x \in Nat, x < best_packed, split - (x + 1) < cmp, cmp \in Int
  PROVE  out[split - (x + 1)] = Z[x]
<1>. DEFINE i == split - (x + 1)
<1>1. best_packed \in Nat /\ best_remaining \in Nat /\ split = best_packed + best_remaining
  <2>1. best_packed \in Nat /\ best_remaining \in 0..len /\ len \in Nat
    BY EncodedFacts
  <2>. QED
    BY <2>1 DEF split
<1>2. i \in 0..(cmp - 1) /\ ~(i < best_remaining) /\ split - 1 - i = x
  BY <1>1
<1>. HIDE DEF i
<1>3. out[i] = Laid(Z, i)
  BY <1>2 DEF OutHolds
<1>. QED
  BY <1>2, <1>3 DEF Laid, i

\* A new flag byte.
LEMMA ReadFlagsLoop ==
  ASSUME EInv, SplitInv, UNCHANGED encVars, start = best_remaining,
         NEW B, NEW Z, NEW K, NEW c, Loop(B, Z, K, c), ReadFlags
  PROVE  Loop(B, Z, K, c)'
<1>1. /\ pending = 0 /\ bits = 0 /\ cmp > start /\ cmp' = cmp - 1 /\ flags' = out[cmp - 1] /\ bits' = 8
      /\ UNCHANGED <<out, dst, pending, distance>>
  BY DEF ReadFlags, Decoding
<1>2. Coded(B, Z, K) /\ PackedForm(Z) /\ OutHolds(Z) /\ Decodes(B, K, c) /\ WellCoded(Reverse(data), B, Z)
  BY DEF Loop, Coded
<1>. DEFINE x == B[c + 1].w
<1>3. cmp \in Int /\ c < K - 1
  BY <1>1, <1>2, CursorsApart
<1>4. /\ K \in 1..Len(B) /\ Len(B) \in Nat /\ c \in Nat /\ x \in Nat /\ x < best_packed
      /\ split \in Nat /\ len \in Nat /\ c \in 0..(K - 1)
  BY <1>2, <1>3, SplitAt DEF Decodes
<1>5. cmp = split - x /\ c % 8 = 0 /\ dst = (len - B[c + 1].r) + pending
  BY <1>1, <1>2, <1>3 DEF Decodes
<1>6. flags' = Z[x]
  <2>. HIDE DEF x
  <2>1. cmp - 1 = split - (x + 1) /\ split - (x + 1) < cmp
    BY <1>4, <1>5
  <2>. QED
    BY <1>1, <1>2, <1>3, <1>4, <2>1, ByteRead
<1>7. Z[x] = FlagByte(B, c \div 8, 0)
  <2>1. c \div 8 \in Nat /\ c = 8 * (c \div 8)
    BY <1>4, <1>5, SMTT(60)
  <2>2. 8 * (c \div 8) + 1 < Len(B) /\ 8 * (c \div 8) + 1 = c + 1
    BY <1>3, <1>4, <2>1
  <2>. QED
    BY <1>2, <2>1, <2>2 DEF WellCoded
<1>8. FirstByte(B, c + 1) = x + 1
  <2>1. (c + 1) - 1 = c
    BY <1>4
  <2>. QED
    BY <1>5, <2>1 DEF FirstByte
<1>9. cmp' = split - FirstByte(B, c + 1) /\ 8 - bits' = 0
  <2>. HIDE DEF x
  <2>. QED
    BY <1>1, <1>4, <1>5, <1>8
<1>10. OutHolds(Z)'
  <2>1. cmp' \in Int /\ cmp' =< cmp
    BY <1>1, <1>3
  <2>. QED
    BY <1>1, <1>2, <1>3, <2>1, BufferRests
<1>11. Coded(B, Z, K)' /\ PackedForm(Z)' /\ len' = len /\ split' = split
  BY <1>2, EncoderRests
<1>12. Decodes(B, K, c)'
  <2>1. /\ flags' = FlagByte(B, c \div 8, 8 - bits') /\ bits' \in 0..8 /\ bits' # 0 /\ pending' = 0
        /\ c % 8 = 8 - bits' /\ pending' \in Nat
    BY <1>1, <1>5, <1>6, <1>7, <1>9
  <2>. QED
    BY <1>1, <1>3, <1>4, <1>5, <1>9, <1>11, <2>1, SMTT(60) DEF Decodes
<1>. QED
  BY <1>10, <1>11, <1>12 DEF Loop

\* The codes ran out inside a group.
LEMMA BreakGroupLoop ==
  ASSUME EInv, SplitInv, UNCHANGED encVars, start = best_remaining,
         NEW B, NEW Z, NEW K, NEW c, Loop(B, Z, K, c), BreakGroup
  PROVE  Loop(B, Z, K, c)'
<1>1. /\ pending = 0 /\ bits > 0 /\ cmp =< start /\ bits' = 0
      /\ UNCHANGED <<out, cmp, dst, pending>>
  BY DEF BreakGroup, Decoding
<1>2. Coded(B, Z, K) /\ PackedForm(Z) /\ OutHolds(Z) /\ Decodes(B, K, c)
  BY DEF Loop
<1>3. cmp \in Int /\ ~(c < K - 1)
  <2>1. cmp \in Int /\ (c < K - 1 => cmp > best_remaining) /\ best_remaining \in Int
    BY <1>2, CursorsApart, EncodedFacts
  <2>. QED
    BY <1>1, <2>1
<1>4. c \in 0..(K - 1) /\ K \in Nat /\ c = K - 1
  <2>1. c \in 0..(K - 1)
    BY <1>2 DEF Decodes
  <2>2. K \in 1..Len(B) /\ Len(B) \in Nat
    BY <1>2, <2>1, SplitAt
  <2>. QED
    BY <1>3, <2>1, <2>2
<1>5. c % 8 # 0 /\ cmp = split - FirstByte(B, c + 1)
  BY <1>1, <1>2, <1>3 DEF Decodes
<1>6. FirstByte(B, c + 1) = B[c + 1].w
  <2>1. (c + 1) - 1 = c
    BY <1>4
  <2>2. B[c + 1].w \in Nat
    BY <1>2, <1>4, SplitAt
  <2>. QED
    BY <1>5, <2>1, <2>2 DEF FirstByte
<1>7. OutHolds(Z)'
  <2>1. cmp' \in Int /\ cmp' =< cmp
    BY <1>1, <1>3
  <2>. QED
    BY <1>1, <1>2, <1>3, <2>1, BufferRests
<1>8. Coded(B, Z, K)' /\ PackedForm(Z)' /\ len' = len /\ split' = split
  BY <1>2, EncoderRests
<1>9. Decodes(B, K, c)'
  <2>1. dst = (len - B[c + 1].r) + pending /\ bits' \in 0..8 /\ ~(bits' > 0) /\ pending' \in Nat /\ ~(pending' > 0)
    BY <1>1, <1>2 DEF Decodes
  <2>. QED
    BY <1>1, <1>4, <1>5, <1>6, <1>8, <2>1 DEF Decodes
<1>. QED
  BY <1>7, <1>8, <1>9 DEF Loop

\* What the loop knows of the code it is about to read.
CodeAhead(B, Z, K, c, k, f) ==
  /\ c \in Nat /\ k = c + 1 /\ f = FirstByte(B, k) /\ f \in Nat /\ k \in 0..(K - 1) /\ k \in Nat
  /\ cmp = split - f /\ cmp \in Int /\ split \in Nat /\ len \in Nat
  /\ bits \in 1..8 /\ c % 8 = 8 - bits /\ pending = 0
  /\ flags < 128 => LiteralCode(Reverse(data), B, Z, k)
  /\ flags >= 128 => MatchCode(Reverse(data), B, Z, k)
  /\ (2 * flags) % 256 = FlagByte(B, c \div 8, (8 - bits) + 1)
  /\ B[k].r \in Nat /\ B[k + 1].r \in Nat /\ B[k + 1].w \in Nat /\ B[k + 1].w =< best_packed /\ best_packed \in Nat
  /\ split = best_packed + start /\ start \in Nat
  /\ B[k + 1].r =< len /\ split - B[k + 1].w =< len - B[k + 1].r
  /\ dst = len - B[k].r

\* An iteration that reads a code has one ahead of it.
LEMMA InCodeFacts ==
  ASSUME EInv, SplitInv, start = best_remaining, NEW B, NEW Z, NEW K, NEW c, Loop(B, Z, K, c), InCode
  PROVE  \E k, f : CodeAhead(B, Z, K, c, k, f)
<1>. DEFINE k == c + 1
            f == FirstByte(B, k)
<1>1. pending = 0 /\ bits > 0 /\ cmp > start
  BY DEF InCode, Decoding
<1>2. Coded(B, Z, K) /\ Decodes(B, K, c) /\ WellCoded(Reverse(data), B, Z)
  BY DEF Loop, Coded
<1>3. cmp \in Int /\ c < K - 1
  BY <1>1, <1>2, CursorsApart
<1>4. c \in 0..(K - 1)
  BY <1>2 DEF Decodes
<1>5. /\ K \in 1..Len(B) /\ Len(B) \in Nat /\ c \in Nat /\ B[k].w \in Nat /\ B[k].r \in Nat /\ B[k].r =< len
      /\ split \in Nat /\ len \in Nat /\ best_packed \in Nat /\ best_remaining \in 0..len
      /\ split = best_packed + best_remaining
  BY <1>2, <1>4, SplitAt
<1>6. k \in 0..(K - 1) /\ k \in Nat /\ k < Len(B)
  BY <1>3, <1>5
<1>7. /\ B[k + 1].r \in Nat /\ B[k + 1].w \in Nat /\ B[k + 1].w =< best_packed
      /\ B[k + 1].r =< len /\ split - B[k + 1].w =< len - B[k + 1].r
  <2>. HIDE DEF k
  <2>. QED
    BY <1>2, <1>6, SplitAt
<1>8. /\ bits \in 1..8 /\ c % 8 = 8 - bits /\ cmp = split - f /\ flags = FlagByte(B, c \div 8, 8 - bits)
      /\ dst = (len - B[k].r) + pending
  BY <1>1, <1>2 DEF Decodes
<1>9. f \in Nat
  <2>1. B[k].w \in Nat /\ c \in Nat
    BY <1>5
  <2>2. k \in Nat
    BY <1>6
  <2>. HIDE DEF k
  <2>. QED
    BY ONLY <2>1, <2>2 DEF FirstByte, f
<1>10. /\ flags < 128 => LiteralCode(Reverse(data), B, Z, k)
       /\ flags >= 128 => MatchCode(Reverse(data), B, Z, k)
       /\ FlagByte(B, c \div 8, (8 - bits) + 1) = (2 * flags) % 256
  <2>. DEFINE j == 8 - bits
  <2>1. j \in 0..7 /\ c % 8 = j /\ c + 1 < Len(B) /\ flags = FlagByte(B, c \div 8, j)
    BY <1>6, <1>8
  <2>. HIDE DEF j
  <2>2. /\ flags < 128 => LiteralCode(Reverse(data), B, Z, c + 1)
        /\ flags >= 128 => MatchCode(Reverse(data), B, Z, c + 1)
        /\ FlagByte(B, c \div 8, j + 1) = (2 * flags) % 256
    BY <1>2, <1>5, <2>1, FlagTells, SMTT(60)
  <2>. QED
    BY <2>2 DEF j
<1>11. dst = len - B[k].r
  BY <1>1, <1>5, <1>8, SMTT(60)
<1>12. split = best_packed + start /\ start \in Nat
  BY <1>5
<1>13. CodeAhead(B, Z, K, c, k, f)
  BY <1>1, <1>3, <1>5, <1>6, <1>7, <1>8, <1>9, <1>10, <1>11, <1>12 DEF CodeAhead
<1>. QED
  BY <1>13

\* The loop stands after one code more.
LEMMA CodePassed ==
  ASSUME UNCHANGED encVars, NEW B, NEW Z, NEW K, NEW c, NEW k, NEW f, CodeAhead(B, Z, K, c, k, f), NextBit,
         cmp' = split - B[k + 1].w, pending' \in Nat, dst' = (len - B[k + 1].r) + pending',
         pending' > 0 => Copying(B[k + 1].r)'
  PROVE  Decodes(B, K, k)'
<1>1. /\ c \in Nat /\ k = c + 1 /\ k \in 0..(K - 1) /\ bits \in 1..8 /\ c % 8 = 8 - bits
      /\ (2 * flags) % 256 = FlagByte(B, c \div 8, (8 - bits) + 1) /\ B[k + 1].w \in Nat
  BY DEF CodeAhead
<1>2. flags' = (2 * flags) % 256 /\ bits' = bits - 1
  BY DEF NextBit
<1>3. len' = len /\ split' = split /\ Reverse(data)' = Reverse(data)
  BY EncoderRests
<1>4. bits' \in 0..8 /\ bits' # 8 /\ (8 - bits) + 1 = 8 - bits'
  BY <1>1, <1>2
<1>5. bits' = 0 => k % 8 = 0
  BY <1>1, <1>2
<1>6. bits' > 0 => k % 8 = 8 - bits' /\ k % 8 # 0 /\ k \div 8 = c \div 8
  BY <1>1, <1>2
<1>7. bits' > 0 => FirstByte(B, k + 1) = B[k + 1].w
  <2>1. (k + 1) - 1 = k
    BY <1>1
  <2>. QED
    BY <1>1, <1>6, <2>1 DEF FirstByte
<1>8. bits' > 0 => flags' = FlagByte(B, k \div 8, 8 - bits')
  BY <1>1, <1>2, <1>4, <1>6
<1>9. /\ k \in 0..(K - 1) /\ pending' \in Nat /\ bits' \in 0..8
      /\ dst' = (len' - B[k + 1].r) + pending'
  BY <1>1, <1>3, <1>4
<1>10. bits' = 0 => cmp' = split' - B[k + 1].w /\ (k = K - 1 \/ k % 8 = 0)
  BY <1>3, <1>5
<1>11. bits' > 0 => /\ k % 8 = 8 - bits' /\ (bits' = 8 => k < K - 1)
                    /\ cmp' = split' - FirstByte(B, k + 1)
                    /\ flags' = FlagByte(B, k \div 8, 8 - bits')
  BY <1>3, <1>4, <1>6, <1>7, <1>8
<1>12. pending' > 0 => Copying(B[k + 1].r)'
  OBVIOUS
<1>. QED
  BY ONLY <1>9, <1>10, <1>11, <1>12 DEF Decodes

\* A literal is copied.
LEMMA CopyLiteralLoop ==
  ASSUME EInv, SplitInv, UNCHANGED encVars, start = best_remaining,
         NEW B, NEW Z, NEW K, NEW c, Loop(B, Z, K, c), CopyLiteral
  PROVE  UNCHANGED <<dpc, stream, want, start>> /\ \E d : Loop(B, Z, K, d)'
<1>1. PICK k, f : CodeAhead(B, Z, K, c, k, f)
  BY InCodeFacts DEF CopyLiteral
<1>2. /\ f = FirstByte(B, k) /\ f \in Nat /\ k \in Nat
      /\ cmp = split - f /\ cmp \in Int /\ split \in Nat /\ len \in Nat
      /\ pending = 0 /\ LiteralCode(Reverse(data), B, Z, k)
      /\ B[k].r \in Nat /\ B[k + 1].r \in Nat /\ B[k + 1].w \in Nat /\ B[k + 1].w =< best_packed
      /\ best_packed \in Nat /\ B[k + 1].r =< len /\ split - B[k + 1].w =< len - B[k + 1].r
      /\ dst = len - B[k].r
  BY <1>1 DEF CodeAhead, CopyLiteral
<1>3. B[k + 1].r = B[k].r + 1 /\ B[k + 1].w = f + 1 /\ Z[f] = At(Reverse(data), B[k].r)
  BY <1>2 DEF LiteralCode
<1>4. Coded(B, Z, K) /\ PackedForm(Z) /\ OutHolds(Z)
  BY DEF Loop
<1>. DEFINE y == B[k].r
<1>5. dst \in 1..len /\ dst - 1 = len - 1 - y /\ y \in 0..(len - 1)
  BY <1>2, <1>3
<1>6. /\ cmp' = cmp - 1 /\ dst' = dst - 1 /\ out' = [out EXCEPT ![dst - 1] = out[cmp - 1]] /\ NextBit
      /\ UNCHANGED <<dpc, stream, want, start, pending, distance>>
  BY <1>5 DEF CopyLiteral
<1>7. out[cmp - 1] = At(data, dst - 1)
  <2>1. cmp - 1 = split - (f + 1) /\ split - (f + 1) < cmp /\ f < best_packed
    BY <1>2, <1>3
  <2>2. out[split - (f + 1)] = Z[f]
    BY <1>2, <1>4, <2>1, ByteRead
  <2>3. At(Reverse(data), y) = At(data, len - 1 - y)
    BY <1>5, EncodedFacts, ReverseAt DEF len
  <2>. QED
    BY <1>3, <1>5, <2>1, <2>2, <2>3
<1>8. cmp' = split - B[k + 1].w /\ dst' = (len - B[k + 1].r) + pending' /\ pending' = 0
  BY <1>2, <1>3, <1>6
<1>9. OutHolds(Z)'
  <2>1. cmp' \in Int /\ cmp' =< cmp /\ cmp' =< dst - 1
    BY <1>2, <1>3, <1>6, <1>8
  <2>. QED
    BY <1>2, <1>4, <1>5, <1>6, <1>7, <2>1, ByteWritten
<1>10. Decodes(B, K, k)'
  BY <1>1, <1>6, <1>8, CodePassed
<1>11. Coded(B, Z, K)' /\ PackedForm(Z)'
  BY <1>4, EncoderRests
<1>. QED
  BY <1>6, <1>9, <1>10, <1>11 DEF Loop

\* The two bytes of a back-reference give its length and its distance back.
LEMMA CodeFieldsRead ==
  ASSUME NEW l \in 3..18, NEW o \in 3..4098
  PROVE  LET first == (l - 3) * 16 + (o - 3) \div 256
             second == (o - 3) % 256
         IN  first \div 16 + 3 = l /\ (first % 16) * 256 + second + 3 = o
<1>. DEFINE x == o - 3
            h == x \div 256
            second == x % 256
            m == l - 3
<1>1. x \in 0..4095 /\ m \in 0..15
  OBVIOUS
<1>. HIDE DEF x, m
<1>2. h \in 0..15 /\ second \in 0..255 /\ x = 256 * h + second
  BY <1>1
<1>. HIDE DEF h, second
<1>3. (m * 16 + h) \div 16 = m /\ (m * 16 + h) % 16 = h
  BY ONLY <1>1, <1>2, SMTT(60)
<1>4. m + 3 = l /\ h * 256 + second + 3 = o
  BY <1>1, <1>2 DEF x, m
<1>. QED
  BY <1>3, <1>4 DEF x, m, h, second

\* A back-reference is read.
LEMMA BeginMatchLoop ==
  ASSUME EInv, SplitInv, UNCHANGED encVars, start = best_remaining,
         NEW B, NEW Z, NEW K, NEW c, Loop(B, Z, K, c), BeginMatch
  PROVE  UNCHANGED <<dpc, stream, want, start>> /\ \E d : Loop(B, Z, K, d)'
<1>1. PICK k, f : CodeAhead(B, Z, K, c, k, f)
  BY InCodeFacts DEF BeginMatch
<1>2. /\ f = FirstByte(B, k) /\ f \in Nat /\ k \in Nat
      /\ cmp = split - f /\ cmp \in Int /\ split \in Nat /\ len \in Nat
      /\ pending = 0 /\ MatchCode(Reverse(data), B, Z, k)
      /\ B[k].r \in Nat /\ B[k + 1].r \in Nat /\ B[k + 1].w \in Nat /\ B[k + 1].w =< best_packed
      /\ best_packed \in Nat /\ split = best_packed + start /\ start \in Nat
      /\ dst = len - B[k].r
  BY <1>1 DEF CodeAhead, BeginMatch
<1>3. PICK l \in Nat, o \in Nat : Reference(Reverse(data), B, Z, k, l, o)
  BY <1>2, SMTT(60) DEF MatchCode
<1>4. /\ l \in 3..18 /\ o \in 3..4098 /\ B[k + 1].r = B[k].r + l /\ B[k + 1].w = f + 2
      /\ Z[f] = (l - 3) * 16 + (o - 3) \div 256 /\ Z[f + 1] = (o - 3) % 256
      /\ Repeats(Reverse(data), B[k].r, l, o)
  BY <1>2, <1>3 DEF Reference
<1>5. Coded(B, Z, K) /\ PackedForm(Z) /\ OutHolds(Z)
  BY DEF Loop
<1>6. ~(cmp - start < 2)
  BY <1>2, <1>4
<1>7. /\ cmp' = cmp - 2 /\ pending' = out[cmp - 1] \div 16 + 3
      /\ distance' = (out[cmp - 1] % 16) * 256 + out[cmp - 2] + 3 /\ NextBit
      /\ UNCHANGED <<dpc, stream, want, out, dst, start>>
  BY <1>6 DEF BeginMatch
<1>8. out[cmp - 1] = Z[f] /\ out[cmp - 2] = Z[f + 1]
  <2>1. cmp - 1 = split - (f + 1) /\ split - (f + 1) < cmp /\ f < best_packed
    BY <1>2, <1>4
  <2>2. cmp - 2 = split - ((f + 1) + 1) /\ split - ((f + 1) + 1) < cmp /\ f + 1 < best_packed /\ f + 1 \in Nat
    BY <1>2, <1>4
  <2>3. out[split - (f + 1)] = Z[f]
    BY <1>2, <1>5, <2>1, ByteRead
  <2>4. out[split - ((f + 1) + 1)] = Z[f + 1]
    BY <1>2, <1>5, <2>2, ByteRead, SMTT(60)
  <2>. QED
    BY <2>1, <2>2, <2>3, <2>4
<1>9. pending' = l /\ distance' = o
  BY <1>4, <1>7, <1>8, CodeFieldsRead, SMTT(60)
<1>10. cmp' = split - B[k + 1].w /\ dst' = (len - B[k + 1].r) + pending'
  BY <1>2, <1>4, <1>7, <1>9
<1>11. \A q \in (B[k + 1].r - l)..(B[k + 1].r - 1) :
         o =< q /\ At(Reverse(data), q) = At(Reverse(data), q - o)
  <2>. SUFFICES ASSUME NEW q \in (B[k + 1].r - l)..(B[k + 1].r - 1)
                PROVE  o =< q /\ At(Reverse(data), q) = At(Reverse(data), q - o)
    OBVIOUS
  <2>1. q \in B[k].r..(B[k].r + l - 1) /\ B[k].r =< q
    BY <1>2, <1>4
  <2>2. o =< B[k].r
    BY <1>4 DEF Repeats
  <2>3. o =< q
    BY <1>2, <2>1, <2>2
  <2>. QED
    BY <1>4, <2>1, <2>3 DEF Repeats
<1>12. OutHolds(Z)'
  <2>1. cmp' \in Int /\ cmp' =< cmp
    BY <1>2, <1>7
  <2>. QED
    BY <1>2, <1>5, <1>7, <2>1, BufferRests
<1>13. Decodes(B, K, k)'
  <2>1. pending' \in Nat /\ distance' \in 3..4098
    BY <1>4, <1>9
  <2>2. Reverse(data)' = Reverse(data)
    BY EncoderRests
  <2>3. Copying(B[k + 1].r)'
    BY <1>9, <1>11, <2>1, <2>2 DEF Copying, At
  <2>4. pending' > 0 => Copying(B[k + 1].r)'
    BY <2>3
  <2>5. UNCHANGED encVars /\ NextBit
    BY <1>7
  <2>. QED
    BY ONLY <1>1, <1>10, <2>1, <2>4, <2>5, CodePassed
<1>14. Coded(B, Z, K)' /\ PackedForm(Z)'
  BY <1>5, EncoderRests
<1>. QED
  BY <1>7, <1>12, <1>13, <1>14 DEF Loop

\* One byte of a back-reference is copied.
LEMMA CopyMatchByteLoop ==
  ASSUME EInv, SplitInv, InputFits, UNCHANGED encVars, stream = Stream,
         NEW B, NEW Z, NEW K, NEW c, Loop(B, Z, K, c), CopyMatchByte
  PROVE  UNCHANGED <<dpc, stream, want, start>> /\ Loop(B, Z, K, c)'
<1>. DEFINE y == B[c + 1].r
            q == y - pending
            s == Reverse(data)
<1>1. Coded(B, Z, K) /\ PackedForm(Z) /\ OutHolds(Z) /\ Decodes(B, K, c) /\ pending > 0
  BY DEF Loop, CopyMatchByte
<1>2. /\ c \in 0..(K - 1) /\ pending \in Nat /\ bits \in 0..8 /\ dst = (len - y) + pending
      /\ Copying(y)
  BY <1>1 DEF Decodes
<1>3. /\ distance \in 3..4098
      /\ \A p \in (y - pending)..(y - 1) : distance =< p /\ At(s, p) = At(s, p - distance)
  BY <1>2 DEF Copying
<1>4. /\ y \in Nat /\ y =< len /\ len \in Nat /\ data \in Seq(Byte) /\ len = Len(data)
  BY <1>1, <1>2, SplitAt, EncodedFacts DEF len
<1>5. cmp \in Int /\ dst \in Nat /\ cmp =< dst - pending
  BY <1>1, CursorsApart
<1>6. OutLen = len
  BY <1>1, TrailerIs
<1>. HIDE DEF y, s
<1>7. /\ q \in (y - pending)..(y - 1) /\ distance =< q /\ At(s, q) = At(s, q - distance)
  <2>1. q \in (y - pending)..(y - 1)
    BY <1>1, <1>2, <1>4
  <2>. QED
    BY <1>3, <2>1
<1>8. /\ q \in 0..(len - 1) /\ dst = len - q /\ dst \in 1..len /\ dst - 1 = len - 1 - q
      /\ q - distance \in 0..(len - 1) /\ dst - 1 + distance = len - 1 - (q - distance)
      /\ dst - 1 + distance < len /\ dst - 1 + distance \in dst..(len - 1)
  BY <1>2, <1>3, <1>4, <1>7
<1>. HIDE DEF q
<1>9. /\ dst' = dst - 1 /\ out' = [out EXCEPT ![dst - 1] = out[dst - 1 + distance]] /\ pending' = pending - 1
      /\ UNCHANGED <<dpc, stream, want, cmp, start, flags, bits, distance>>
  <2>1. dst # 0 /\ ~(dst - 1 + distance >= OutLen)
    BY <1>3, <1>4, <1>5, <1>6, <1>8
  <2>. QED
    BY <2>1 DEF CopyMatchByte
<1>10. out[dst - 1 + distance] = At(data, dst - 1)
  <2>1. out[dst - 1 + distance] = At(data, dst - 1 + distance)
    BY <1>1, <1>8 DEF OutHolds
  <2>2. At(s, q) = At(data, len - 1 - q) /\ At(s, q - distance) = At(data, len - 1 - (q - distance))
    BY <1>4, <1>8, ReverseAt DEF s
  <2>. QED
    BY <1>7, <1>8, <2>1, <2>2
<1>11. OutHolds(Z)'
  <2>1. cmp' \in Int /\ cmp' =< cmp /\ cmp' =< dst - 1
    BY <1>1, <1>2, <1>5, <1>9
  <2>. QED
    BY <1>1, <1>5, <1>8, <1>9, <1>10, <2>1, ByteWritten
<1>12. Coded(B, Z, K)' /\ PackedForm(Z)' /\ len' = len /\ split' = split /\ Reverse(data)' = Reverse(data)
  BY <1>1, EncoderRests, SMTT(60)
<1>13. Copying(y)'
  <2>1. ASSUME NEW p \in (y - pending')..(y - 1) PROVE distance =< p /\ At(s, p) = At(s, p - distance)
    <3>1. p \in (y - pending)..(y - 1)
      BY <1>2, <1>4, <1>9
    <3>. QED
      BY <1>3, <3>1
  <2>2. y' = y
    BY DEF y
  <2>. QED
    BY <1>3, <1>9, <1>12, <2>1, <2>2 DEF Copying, At, s
<1>14. Decodes(B, K, c)'
  <2>1. pending' \in Nat /\ dst' = (len' - y) + pending'
    BY <1>1, <1>2, <1>4, <1>9, <1>12
  <2>2. Copying(B[c + 1].r)'
    BY <1>13 DEF y
  <2>3. dst' = (len' - B[c + 1].r) + pending'
    BY <2>1 DEF y
  <2>4. /\ bits = 0 => cmp = split - B[c + 1].w /\ (c = K - 1 \/ c % 8 = 0)
        /\ bits > 0 => /\ c % 8 = 8 - bits /\ (bits = 8 => c < K - 1)
                       /\ cmp = split - FirstByte(B, c + 1)
                       /\ flags = FlagByte(B, c \div 8, 8 - bits)
    BY <1>1 DEF Decodes
  <2>. QED
    BY <1>2, <1>9, <1>12, <2>1, <2>2, <2>3, <2>4 DEF Decodes
<1>. QED
  BY <1>9, <1>11, <1>12, <1>14 DEF Loop

\* The loop ends with the whole input in the buffer.
LEMMA FinishLoop ==
  ASSUME EInv, SplitInv, InputFits, UNCHANGED encVars, start = best_remaining, stream = Stream, want = len,
         NEW B, NEW Z, NEW K, NEW c, Loop(B, Z, K, c), Finish
  PROVE  dpc' = "ok" /\ UNCHANGED <<stream, want>> /\ out' = [i \in 0..(len - 1) |-> At(data, i)]
<1>1. Coded(B, Z, K) /\ PackedForm(Z) /\ OutHolds(Z) /\ Decodes(B, K, c)
      /\ pending = 0 /\ bits = 0 /\ cmp =< start
  BY DEF Loop, Finish, Decoding
<1>2. OutLen = want
  BY <1>1, TrailerIs
<1>3. dpc' = "ok" /\ UNCHANGED <<stream, want>> /\ out' = out
  BY <1>2 DEF Finish, Return
<1>4. c \in 0..(K - 1) /\ cmp = split - B[c + 1].w /\ dst = (len - B[c + 1].r) + pending
  BY <1>1 DEF Decodes
<1>5. /\ K \in Nat /\ c \in Nat /\ len \in Nat /\ best_remaining \in 0..len
      /\ B[c + 1].w \in Nat /\ B[c + 1].r \in Nat
      /\ best_packed \in Nat /\ split = best_packed + best_remaining
      /\ c = K - 1 => B[c + 1].w = best_packed /\ B[c + 1].r = len - best_remaining
  <2>1. /\ K \in 1..Len(B) /\ Len(B) \in Nat /\ c \in Nat /\ len \in Nat /\ best_remaining \in 0..len
        /\ B[c + 1].w \in Nat /\ B[c + 1].r \in Nat
        /\ best_packed \in Nat /\ split = best_packed + best_remaining
        /\ c = K - 1 => B[c + 1].w = best_packed /\ B[c + 1].r = len - best_remaining
    BY <1>1, <1>4, SplitAt
  <2>2. K \in Nat
    BY <2>1
  <2>. QED
    BY <2>1, <2>2
<1>6. c = K - 1
  <2>1. cmp \in Int /\ (c < K - 1 => cmp > best_remaining)
    BY <1>1, CursorsApart
  <2>. QED
    BY <1>1, <1>4, <1>5, <2>1
<1>7. cmp = best_remaining /\ dst = best_remaining
  BY <1>1, <1>4, <1>5, <1>6
<1>8. ASSUME NEW i \in 0..(len - 1) PROVE out[i] = At(data, i)
  <2>1. i \in 0..(cmp - 1) \/ i \in dst..(len - 1)
    BY <1>5, <1>7
  <2>2. CASE i \in 0..(cmp - 1)
    <3>1. out[i] = Laid(Z, i) /\ i < best_remaining
      BY <1>1, <1>5, <1>7, <2>2 DEF OutHolds
    <3>. QED
      BY <3>1 DEF Laid
  <2>3. CASE i \in dst..(len - 1)
    BY <1>1, <2>3 DEF OutHolds
  <2>. QED
    BY <2>1, <2>2, <2>3
<1>9. out \in [0..(len - 1) -> Byte]
  BY <1>1 DEF OutHolds
<1>10. out = [i \in 0..(len - 1) |-> At(data, i)]
  BY <1>8, <1>9
<1>. QED
  BY <1>3, <1>10

\* The last word of a stored stream is zero.
LEMMA StoredWord ==
  ASSUME EInv, stream = Stream, StoredForm
  PROVE  total = written /\ written = len + PadTo4(len) + 4 /\ written >= 4 /\ TrailingU32(4) = 0
<1>1. written = len + PadTo4(len) + 4 /\ len \in Nat /\ PadTo4(len) \in 0..3
  BY EncodedFacts DEF StoredForm
<1>2. 4 =< written /\ 4 \in 4..12 /\ 0 \in Nat /\ 0 < 65536 * 65536
  BY <1>1
<1>3. ASSUME NEW i \in 0..3 PROVE output[written - 4 + i] = LE32(0)[i]
  <2>1. i = 0 \/ i = 1 \/ i = 2 \/ i = 3
    OBVIOUS
  <2>2. (0 \div 1) % 256 = 0 /\ (0 \div 256) % 256 = 0 /\ (0 \div 65536) % 256 = 0 /\ (0 \div 16777216) % 256 = 0
    OBVIOUS
  <2>3. LE32(0)[i] = (0 \div (IF i = 0 THEN 1 ELSE IF i = 1 THEN 256
                              ELSE IF i = 2 THEN 65536 ELSE 16777216)) % 256
    BY DEF LE32
  <2>4. LE32(0)[i] = 0
    BY <2>1, <2>2, <2>3
  <2>. QED
    BY <2>4 DEF StoredForm
<1>4. TrailingU32(4) = 0
  BY <1>2, <1>3, StreamWord
<1>. QED
  BY <1>1, <1>2, <1>4, StreamIs

(***************************************************************************)
(* The whole codec.                                                        *)
(***************************************************************************)
\* decompress holds the finished stream, and its buffer turns back into the
\* input; no error is ever returned.
BackInv ==
  /\ dpc \in {"idle", "parse", "decode", "ok"}
  /\ dpc # "idle" => pc = "done" /\ stream = Stream /\ want = len
  /\ dpc \in {"idle", "parse"} => pending = 0
  /\ dpc = "decode" => start = best_remaining /\ \E B, Z, K, c : Loop(B, Z, K, c)
  /\ dpc = "ok" => out = [i \in 0..(len - 1) |-> At(data, i)]

\* The trailer is accepted.
LEMMA ParseBack ==
  ASSUME EInv, FormInv, InputFits, BackInv, UNCHANGED encVars,
         ParseTooSmall \/ ParseStored \/ ParseMalformed \/ ParsePacked
  PROVE  BackInv'
<1>1. dpc = "parse" /\ pc = "done" /\ stream = Stream /\ want = len /\ pending = 0
  BY DEF BackInv, ParseTooSmall, ParseStored, ParseMalformed, ParsePacked, Packed
<1>2. /\ len' = len /\ split' = split /\ data' = data /\ pc' = pc /\ Stream' = Stream
      /\ best_packed' = best_packed /\ best_remaining' = best_remaining
  BY EncoderRests
<1>3. len \in Nat /\ PadTo4(len) \in 0..3
  BY EncodedFacts
<1>4. CASE StoredForm
  <2>1. total = written /\ written = len + PadTo4(len) + 4 /\ written >= 4 /\ TrailingU32(4) = 0
    BY <1>1, <1>4, StoredWord
  <2>2. total >= 4 /\ ~(total < 4) /\ want =< total - 4
    BY <1>1, <1>3, <2>1
  <2>3. ParseStored
    BY <2>1, <2>2 DEF ParseTooSmall, ParseMalformed, ParsePacked, Packed
  <2>4. /\ dpc' = "ok" /\ out' = [i \in 0..(want - 1) |-> stream[i + 1]]
        /\ UNCHANGED <<stream, want>>
    BY <2>2, <2>3 DEF ParseStored, Return
  <2>5. ASSUME NEW i \in 0..(len - 1) PROVE stream[i + 1] = At(data, i)
    <3>1. i \in 0..(written - 1)
      BY <1>3, <2>1
    <3>. QED
      BY <1>1, <1>4, <3>1, StreamIs DEF StoredForm
  <2>6. out' = [i \in 0..(len - 1) |-> At(data, i)]
    BY <1>1, <2>4, <2>5
  <2>. QED
    BY <1>1, <1>2, <2>4, <2>6 DEF BackInv
<1>5. CASE \E B, Z, K : Coded(B, Z, K) /\ PackedForm(Z)
  <2>1. PICK B, Z, K : Coded(B, Z, K) /\ PackedForm(Z)
    BY <1>5
  <2>2. /\ total = written /\ TrailingU32(4) = extra_len /\ TrailingU32(8) = packed_header_size(split)
        /\ TrailingU32(12) = enc_len /\ OutLen = len
    BY <1>1, <2>1, TrailerIs
  <2>. DEFINE hsize == packed_header_size(split)
  <2>3. /\ split \in Nat /\ best_packed \in Nat /\ best_remaining \in Nat /\ written \in Nat
        /\ split = best_packed + best_remaining /\ best_packed > 0
        /\ hsize \in 12..15 /\ written = split + hsize /\ enc_len = best_packed + hsize
        /\ extra_len \in Nat /\ extra_len > 0 /\ written < len
    BY <2>1, PackedNumbers
  <2>. HIDE DEF hsize
  <2>4. TrailingU32(8) = hsize
    BY <2>2 DEF hsize
  <2>5. total >= 12 /\ TrailingU32(4) # 0 /\ ~Malformed
    BY <2>2, <2>3, <2>4 DEF Malformed, header_size, enc_len_read
  <2>6. ParsePacked
    <3>1. ~(total < 4) /\ total \notin 4..11
      BY <2>2, <2>3
    <3>. QED
      BY <2>5, <3>1 DEF ParseTooSmall, ParseStored, ParseMalformed
  <2>7. /\ out' = [i \in 0..(len - 1) |-> IF i < written THEN stream[i + 1] ELSE 0] /\ dst' = len
        /\ start' = best_remaining /\ cmp' = split /\ bits' = 0 /\ dpc' = "decode"
        /\ UNCHANGED <<stream, want, flags, pending, distance>>
    <3>1. total + TrailingU32(4) = len
      BY <2>2 DEF OutLen
    <3>2. written - enc_len = best_remaining /\ written - hsize = split
      BY <2>3
    <3>. QED
      BY <2>2, <2>4, <2>6, <3>1, <3>2 DEF ParsePacked, header_size, enc_len_read
  <2>8. ASSUME NEW i \in 0..(len - 1)
        PROVE  out'[i] \in Byte /\ (i < written => out'[i] = output[i])
    <3>1. i < written => i \in 0..(written - 1)
      BY <2>3
    <3>2. i < written => stream[i + 1] = output[i] /\ output[i] \in Byte
      BY <1>1, <3>1, StreamIs
    <3>3. 0 \in Byte
      BY DEF Byte
    <3>. QED
      BY <2>7, <3>2, <3>3
  <2>9. OutHolds(Z)'
    <3>1. out' \in [0..(len - 1) -> Byte]
      BY <2>7, <2>8
    <3>2. ASSUME NEW i \in 0..(split - 1) PROVE out'[i] = Laid(Z, i)
      <4>1. i \in 0..(len - 1) /\ i < written
        BY <1>3, <2>3
      <4>. QED
        BY <2>1, <2>8, <4>1 DEF PackedForm
    <3>3. \A i \in len..(len - 1) : FALSE
      BY <1>3
    <3>4. \A i : Laid(Z, i)' = Laid(Z, i)
      BY EncoderRests
    <3>. QED
      BY <1>2, <2>7, <3>1, <3>2, <3>3, <3>4 DEF OutHolds
  <2>10. Coded(B, Z, K)' /\ PackedForm(Z)'
    BY <2>1, EncoderRests
  <2>11. Decodes(B, K, 0)'
    <3>1. K \in 1..Len(B) /\ B[1] = [w |-> 0, r |-> 0] /\ Len(B) \in Nat
      BY <2>1, BoundaryFacts DEF Coded, Kept, WellCoded
    <3>2. 0 \in 0..(K - 1) /\ B[0 + 1].w = 0 /\ B[0 + 1].r = 0 /\ 0 % 8 = 0
      BY <3>1
    <3>3. cmp' = split' - B[0 + 1].w /\ dst' = (len' - B[0 + 1].r) + pending' /\ pending' = 0
      BY <1>1, <1>2, <1>3, <2>3, <2>7, <3>2
    <3>4. bits' = 0 /\ bits' \in 0..8 /\ ~(bits' > 0) /\ ~(pending' > 0) /\ pending' \in Nat
      BY <2>7, <3>3
    <3>. QED
      BY <3>2, <3>3, <3>4 DEF Decodes
  <2>12. Loop(B, Z, K, 0)'
    BY <2>9, <2>10, <2>11 DEF Loop
  <2>. QED
    BY <1>1, <1>2, <2>7, <2>12 DEF BackInv
<1>. QED
  BY <1>1, <1>4, <1>5 DEF FormInv

\* Every iteration of the decoding loop.
LEMMA DecodeBack ==
  ASSUME EInv, SplitInv, InputFits, BackInv, UNCHANGED encVars,
         ReadFlags \/ BreakGroup \/ CopyLiteral \/ BeginMatch \/ CopyMatchByte \/ Finish
  PROVE  BackInv'
<1>1. dpc = "decode"
  BY DEF ReadFlags, BreakGroup, CopyLiteral, BeginMatch, CopyMatchByte, Finish, InCode, Decoding
<1>2. pc = "done" /\ stream = Stream /\ want = len /\ start = best_remaining
  BY <1>1 DEF BackInv
<1>3. PICK B, Z, K, c : Loop(B, Z, K, c)
  BY <1>1 DEF BackInv
<1>4. /\ len' = len /\ data' = data /\ pc' = pc /\ Stream' = Stream /\ best_remaining' = best_remaining
  BY EncoderRests
<1>5. CASE Finish
  <2>1. dpc' = "ok" /\ UNCHANGED <<stream, want>> /\ out' = [i \in 0..(len - 1) |-> At(data, i)]
    BY <1>2, <1>3, <1>5, FinishLoop
  <2>. QED
    BY <1>2, <1>4, <2>1 DEF BackInv
<1>6. CASE ReadFlags \/ BreakGroup \/ CopyLiteral \/ BeginMatch \/ CopyMatchByte
  <2>1. UNCHANGED <<dpc, stream, want, start>> /\ \E d : Loop(B, Z, K, d)'
    <3>1. CASE ReadFlags
      <4>1. UNCHANGED <<dpc, stream, want, start>>
        BY <3>1 DEF ReadFlags
      <4>. QED
        BY <1>2, <1>3, <3>1, <4>1, ReadFlagsLoop
    <3>2. CASE BreakGroup
      <4>1. UNCHANGED <<dpc, stream, want, start>>
        BY <3>2 DEF BreakGroup
      <4>. QED
        BY <1>2, <1>3, <3>2, <4>1, BreakGroupLoop
    <3>3. CASE CopyLiteral
      BY <1>2, <1>3, <3>3, CopyLiteralLoop
    <3>4. CASE BeginMatch
      BY <1>2, <1>3, <3>4, BeginMatchLoop
    <3>5. CASE CopyMatchByte
      BY <1>2, <1>3, <3>5, CopyMatchByteLoop
    <3>. QED
      BY <1>6, <3>1, <3>2, <3>3, <3>4, <3>5
  <2>2. dpc' = "decode" /\ start' = best_remaining' /\ pc' = "done" /\ stream' = Stream' /\ want' = len'
    BY <1>1, <1>2, <1>4, <2>1
  <2>. QED
    BY <2>1, <2>2 DEF BackInv
<1>. QED
  BY <1>5, <1>6

\* Every step of the codec.
LEMMA NextBack == EInv /\ SplitInv /\ FormInv /\ InputFits /\ BackInv /\ [Next]_vars => BackInv' /\ InputFits'
<1>. SUFFICES ASSUME EInv, SplitInv, FormInv, InputFits, BackInv, [Next]_vars PROVE BackInv' /\ InputFits'
  OBVIOUS
<1>1. CASE EncNext /\ UNCHANGED decVars
  <2>1. pc # "done" /\ data' = data
    BY <1>1 DEF EncNext, EmitMatch, EmitLiteral, NextCode, EndLoop, FlushBit, StoreUncompressed, BeginStorePacked, Relocate, WriteTrailer
  <2>2. dpc = "idle" /\ pending = 0
    BY <2>1 DEF BackInv
  <2>3. dpc' = "idle" /\ pending' = 0
    BY <1>1, <2>2 DEF decVars
  <2>. QED
    BY <2>1, <2>3 DEF BackInv, InputFits, len
<1>2. CASE Hand
  <2>1. /\ pc = "done" /\ dpc = "idle" /\ dpc' = "parse" /\ stream' = Stream /\ want' = len /\ pending' = pending
        /\ UNCHANGED encVars
    BY <1>2 DEF Hand
  <2>2. len' = len /\ pc' = pc /\ Stream' = Stream
    BY <2>1, EncoderRests
  <2>. QED
    BY <2>1, <2>2 DEF BackInv, InputFits
<1>3. CASE DecNext /\ UNCHANGED encVars
  <2>1. len' = len
    BY <1>3, EncoderRests
  <2>2. BackInv'
    BY <1>3, ParseBack, DecodeBack DEF DecNext
  <2>. QED
    BY <2>1, <2>2 DEF InputFits
<1>4. CASE UNCHANGED vars
  <2>1. UNCHANGED encVars /\ UNCHANGED decVars
    BY <1>4 DEF vars
  <2>2. /\ len' = len /\ split' = split /\ data' = data /\ pc' = pc /\ Stream' = Stream
        /\ best_remaining' = best_remaining /\ Reverse(data)' = Reverse(data)
    BY <2>1, EncoderRests
  <2>3. UNCHANGED <<dpc, stream, want, out, cmp, dst, start, flags, bits, pending, distance>>
    BY <2>1 DEF decVars
  <2>4. ASSUME NEW B, NEW Z, NEW K, NEW c PROVE Loop(B, Z, K, c)' = Loop(B, Z, K, c)
    <3>1. Coded(B, Z, K)' = Coded(B, Z, K) /\ PackedForm(Z)' = PackedForm(Z) /\ \A i : Laid(Z, i)' = Laid(Z, i)
      BY <2>1, EncoderRests
    <3>2. OutHolds(Z)' = OutHolds(Z)
      BY <2>2, <2>3, <3>1 DEF OutHolds
    <3>3. ASSUME NEW y PROVE Copying(y)' = Copying(y)
      BY <2>2, <2>3 DEF Copying
    <3>4. Decodes(B, K, c)' = Decodes(B, K, c)
      BY <2>2, <2>3, <3>3 DEF Decodes
    <3>. QED
      BY <3>1, <3>2, <3>4 DEF Loop
  <2>. QED
    BY <2>2, <2>3, <2>4 DEF BackInv, InputFits
<1>. QED
  BY <1>1, <1>2, <1>3, <1>4 DEF Next, Finished

WholeInv == EInv /\ SplitInv /\ FormInv /\ InputFits /\ BackInv

\* The codec's inductive invariant, for inputs a trailer can describe.
THEOREM CodecWholeInvariant == InputsFitU32 /\ Spec => []WholeInv
<1>1. InputsFitU32 /\ Init => WholeInv
  <2>. SUFFICES ASSUME InputsFitU32, Init PROVE WholeInv
    OBVIOUS
  <2>1. SplitInv
    BY SplitInit
  <2>2. InputFits
    BY DEF InputFits, InputsFitU32, len, Init, EncInit
  <2>3. dpc = "idle" /\ pending = 0
    BY DEF Init, DecIdle
  <2>4. BackInv
    BY <2>3 DEF BackInv
  <2>. QED
    BY <2>1, <2>2, <2>4, EncInitEInv, InitForm DEF WholeInv
<1>2. WholeInv /\ [Next]_vars => WholeInv'
  BY CodecNextEInv, NextSplitCheapest, NextForm, NextBack DEF WholeInv
<1>. QED
  BY <1>1, <1>2, PTL DEF Spec

\* Decoding in place never reads a byte it has overwritten: what the cheapest
\* split buys.
THEOREM CodecCursorsNeverCross == InputsFitU32 /\ Spec => []CursorsNeverCross
<1>1. WholeInv => CursorsNeverCross
  <2>. SUFFICES ASSUME WholeInv, dpc = "decode" PROVE cmp =< dst - pending
    BY DEF CursorsNeverCross
  <2>1. PICK B, Z, K, c : Loop(B, Z, K, c)
    BY DEF WholeInv, BackInv
  <2>. QED
    BY <2>1, CursorsApart DEF WholeInv, Loop
<1>. QED
  BY <1>1, CodecWholeInvariant, PTL

\* Decompressing what compress produced returns the input, and never an error.
THEOREM CodecRoundTrip == InputsFitU32 /\ Spec => []RoundTrip
<1>1. WholeInv => RoundTrip
  BY DEF WholeInv, BackInv, RoundTrip
<1>. QED
  BY <1>1, CodecWholeInvariant, PTL
=============================================================================
