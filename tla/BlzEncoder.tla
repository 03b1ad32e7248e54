----------------------------- MODULE BlzEncoder -----------------------------
(***************************************************************************)
(* compress / compress_into of blz.rs.  The input is encoded from its end  *)
(* towards its start, one code per step, into a buffer of worst_case_len   *)
(* bytes; the split between the raw prefix and the packed region is the    *)
(* code boundary where packed + still-raw bytes are fewest.  The stream is *)
(* then stored, or laid out as prefix, packed region and trailer.          *)
(*                                                                         *)
(* output is the code's buffer, indexed from 0; written counts the bytes   *)
(* of it the finished stream occupies.  The match finder is read-only once *)
(* built, so it is held as its answers: LongestMatch at every position,    *)
(* which is what BlzMatchFinder shows longest_match to compute.            *)
(***************************************************************************)
EXTENDS BlzMatch, SequencesExt

VARIABLES
  pc,             \* "idle", "encode", "flush", "relocate" or "done"
  data,           \* compress's argument
  input,          \* compress's copy of it, reversed while it is encoded
  finder,         \* the index over input: its answer for every position
  output, read_pos, write_pos, flag_pos, mask,
  best_packed, best_remaining,
  moved,          \* bytes store_packed has relocated
  stored,         \* which of the two forms the stream took
  written,        \* return value of compress_into
  boundaries      \* history: [w, r] at every code boundary reached

encVars == <<pc, data, input, finder, output, read_pos, write_pos, flag_pos, mask,
             best_packed, best_remaining, moved, stored, written, boundaries>>

FLAG_MASK_INIT == 128
FOOTER_SIZE == 12          \* size_of::<Footer>()

len == Len(data)

\* Mutant: no allowance for the trailer and its padding.
worst_case_len_NoTrailer(n) == n + (n + 7) \div 8

worst_case_len(n) == n + (n + 7) \div 8 + 15

\* Bytes of padding that bring n onto a 4-byte boundary.
PadTo4(n) == (4 - (n % 4)) % 4

packed_header_size(packed_end) == FOOTER_SIZE + PadTo4(packed_end)

LE32(n) ==
  [i \in 0..3 |-> (n \div (IF i = 0 THEN 1 ELSE IF i = 1 THEN 256
                           ELSE IF i = 2 THEN 65536 ELSE 16777216)) % 256]

\* buf with the bytes of `bytes` (0-based, n of them) copied to `at`.
CopyInto(buf, at, bytes, n) ==
  [i \in DOMAIN buf |-> IF i \in at..(at + n - 1) THEN bytes[i - at] ELSE buf[i]]

EncInit ==
  /\ pc = "encode"
  /\ data \in Inputs
  /\ input = Reverse(data)
  /\ finder = [p \in 0..(Len(data) - 1) |-> LongestMatch(input, p)]
  /\ output = [i \in 0..(worst_case_len(Len(data)) - 1) |-> 0]
  /\ read_pos = 0 /\ write_pos = 0 /\ flag_pos = 0 /\ mask = 0
  /\ best_packed = 0 /\ best_remaining = Len(data)
  /\ moved = 0 /\ stored = FALSE /\ written = 0
  /\ boundaries = {[w |-> 0, r |-> 0]}

\* compress is not called.
EncIdle ==
  /\ pc = "idle" /\ data = <<>> /\ input = <<>> /\ finder = <<>> /\ output = <<>>
  /\ read_pos = 0 /\ write_pos = 0 /\ flag_pos = 0 /\ mask = 0
  /\ best_packed = 0 /\ best_remaining = 0
  /\ moved = 0 /\ stored = FALSE /\ written = 0
  /\ boundaries = {[w |-> 0, r |-> 0]}

(***************************************************************************)
(* One iteration of the encoding loop.                                     *)
(***************************************************************************)
\* mask >>= FLAG_SHIFT; a mask shifted out opens a new flag byte.
NewGroup == mask \div 2 = 0
mask1 == IF NewGroup THEN FLAG_MASK_INIT ELSE mask \div 2
flag1 == IF NewGroup THEN write_pos ELSE flag_pos
write1 == IF NewGroup THEN write_pos + 1 ELSE write_pos

\* A look-ahead that finds nothing worth a back-reference counts one literal.
Probe(p) ==
  LET l == finder[p][1]
  IN  IF l =< MATCH_THRESHOLD THEN 1 ELSE l

\* Lazy matching: a literal now is preferred when the match one byte later
\* covers at least as much as this match and the one that follows it.
Deferred(l) ==
  /\ l > MATCH_THRESHOLD
  /\ read_pos + l < len
  /\ l + Probe(read_pos + l) =< 1 + Probe(read_pos + 1)

ChosenLen ==
  LET l == finder[read_pos][1]
  IN  IF Deferred(l) THEN 1 ELSE l

\* The flag byte after shifting this code's bit in.
Flagged(bit) ==
  LET old == IF NewGroup THEN 0 ELSE output[flag1]
  IN  ((2 * old) % 256) + bit

\* Mutants: the bytes still raw are counted before the code is consumed; the
\* last boundary is kept instead of the best.
TrackSplitStale(w, r) ==
  /\ write_pos' = w
  /\ read_pos' = r
  /\ boundaries' = boundaries \union {[w |-> w, r |-> r]}
  /\ IF w + len - r < best_packed + best_remaining
     THEN best_packed' = w /\ best_remaining' = len - read_pos
     ELSE UNCHANGED <<best_packed, best_remaining>>

TrackSplitLast(w, r) ==
  /\ write_pos' = w
  /\ read_pos' = r
  /\ boundaries' = boundaries \union {[w |-> w, r |-> r]}
  /\ best_packed' = w
  /\ best_remaining' = len - r

\* Remember the boundary when it leaves strictly fewer bytes than the best.
TrackSplit(w, r) ==
  /\ write_pos' = w
  /\ read_pos' = r
  /\ boundaries' = boundaries \union {[w |-> w, r |-> r]}
  /\ IF w + len - r < best_packed + best_remaining
     THEN best_packed' = w /\ best_remaining' = len - r
     ELSE UNCHANGED <<best_packed, best_remaining>>

NextCode ==
  /\ pc = "encode"
  /\ read_pos < len
  /\ mask' = mask1
  /\ flag_pos' = flag1
  /\ UNCHANGED <<pc, data, input, finder, moved, stored, written>>

EmitMatch ==
  /\ NextCode
  /\ ChosenLen > MATCH_THRESHOLD
  /\ LET distance == finder[read_pos][2] - MIN_MATCH IN
       output' = [output EXCEPT
                    ![flag1] = Flagged(1),
                    ![write1] = (ChosenLen - MIN_MATCH) * 16 + distance \div 256,
                    ![write1 + 1] = distance % 256]
  /\ TrackSplit(write1 + 2, read_pos + ChosenLen)

EmitLiteral ==
  /\ NextCode
  /\ ChosenLen =< MATCH_THRESHOLD
  /\ output' = [output EXCEPT ![flag1] = Flagged(0), ![write1] = At(input, read_pos)]
  /\ TrackSplit(write1 + 1, read_pos + 1)

(***************************************************************************)
(* The end of compress_into: flush the flag byte, un-reverse the packed    *)
(* bytes and choose the layout.                                            *)
(***************************************************************************)
\* Mutants: the last flag byte is left as it is; a mask no code has set, that of
\* an empty input, is flushed too.
UnflushedIgnored == FALSE
UnflushedEmpty == mask # 1

\* mask counts the bits of the last flag byte that no code claimed.
Unflushed == mask # 0 /\ mask # 1

\* The encoding loop is left.
EndLoop ==
  /\ pc = "encode"
  /\ read_pos = len
  /\ pc' = "flush"
  /\ UNCHANGED <<data, input, finder, output, read_pos, write_pos, flag_pos, mask, best_packed, best_remaining,
                 moved, stored, written, boundaries>>

FlushBit ==
  /\ pc = "flush"
  /\ Unflushed
  /\ mask' = mask \div 2
  /\ output' = [output EXCEPT ![flag_pos] = (2 * @) % 256]
  /\ UNCHANGED <<pc, data, input, finder, read_pos, write_pos, flag_pos, best_packed, best_remaining,
                 moved, stored, written, boundaries>>

\* output[..packed_len].reverse()
Unreversed ==
  [i \in DOMAIN output |-> IF i < write_pos THEN output[write_pos - 1 - i] ELSE output[i]]

packed_len == write_pos
split == best_packed + best_remaining

trailer_fits == len - split > packed_header_size(split)

\* (x + 3) & 0xFFFF_FFFC
AlignUp4(x) == ((x + 3) \div 4) * 4

\* Mutant: the layout is chosen without asking whether the trailer fits.
StoreRawUnfitted == best_packed = 0 \/ len + 4 < AlignUp4(split) + 8

StoreRaw == \/ best_packed = 0
            \/ ~trailer_fits
            \/ len + 4 < AlignUp4(split) + 8

\* store_uncompressed: the bytes, zero padding, a zero u32.
StoreUncompressed ==
  /\ pc = "flush"
  /\ ~Unflushed
  /\ StoreRaw
  /\ input' = Reverse(input)
  /\ LET end == len + PadTo4(len) IN
       /\ output' = [i \in DOMAIN output |->
                       IF i < len THEN At(input', i)
                       ELSE IF i < end + 4 THEN 0 ELSE Unreversed[i]]
       /\ written' = end + 4
  /\ stored' = TRUE
  /\ pc' = "done"
  /\ UNCHANGED <<data, finder, read_pos, write_pos, flag_pos, mask, best_packed, best_remaining, moved, boundaries>>

BeginStorePacked ==
  /\ pc = "flush"
  /\ ~Unflushed
  /\ ~StoreRaw
  /\ output' = Unreversed
  /\ input' = Reverse(input)
  /\ pc' = "relocate"
  /\ UNCHANGED <<data, finder, read_pos, write_pos, flag_pos, mask, best_packed, best_remaining,
                 moved, stored, written, boundaries>>

(***************************************************************************)
(* store_packed: the loop that moves the kept packed bytes behind the raw  *)
(* prefix, one byte per step and in place, and the trailer.                *)
(***************************************************************************)
packed_start == packed_len - best_packed

Relocate ==
  /\ pc = "relocate"
  /\ moved < best_packed
  /\ output' = [output EXCEPT ![best_remaining + moved] = output[packed_start + moved]]
  /\ moved' = moved + 1
  /\ UNCHANGED <<pc, data, input, finder, read_pos, write_pos, flag_pos, mask, best_packed, best_remaining,
                 stored, written, boundaries>>

enc_len == best_packed + packed_header_size(split)
extra_len == (len - split) - packed_header_size(split)

WriteTrailer ==
  /\ pc = "relocate"
  /\ moved = best_packed
  /\ LET pos == split + PadTo4(split)
         prefixed == CopyInto(output, 0, [i \in 0..(best_remaining - 1) |-> At(input, i)], best_remaining)
         padded == CopyInto(prefixed, split, [i \in 0..2 |-> 255], PadTo4(split))
         withEnc == CopyInto(padded, pos, LE32(enc_len), 4)
         withHeader == CopyInto(withEnc, pos + 4, LE32(packed_header_size(split)), 4)
     IN  /\ output' = CopyInto(withHeader, pos + 8, LE32(extra_len), 4)
         /\ written' = pos + FOOTER_SIZE
  /\ pc' = "done"
  /\ UNCHANGED <<data, input, finder, read_pos, write_pos, flag_pos, mask, best_packed, best_remaining,
                 moved, stored, boundaries>>

EncNext ==
  \/ EmitMatch
  \/ EmitLiteral
  \/ EndLoop
  \/ FlushBit
  \/ StoreUncompressed
  \/ BeginStorePacked
  \/ Relocate
  \/ WriteTrailer

\* What compress returns: output truncated to the bytes written.
Stream == [i \in 1..written |-> output[i - 1]]
=============================================================================
