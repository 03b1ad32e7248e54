----------------------------- MODULE MCBlzCodec -----------------------------
(***************************************************************************)
(* Inputs long enough to be packed: a head, a block repeated, a tail.  The *)
(* lengths sweep both sides of the point where the packed form starts to   *)
(* pay for its trailer, every alignment of the padding and the boundary of *)
(* the eight-code flag group; heads that do not compress stay raw.         *)
(*                                                                         *)
(* The other behaviours call decompress alone, on streams built from short *)
(* bodies and from trailers on both sides of every check, and on buffers   *)
(* too short for a trailer.  The longer bodies carry a flag byte, three    *)
(* literals and a back-reference.                                          *)
(***************************************************************************)
EXTENDS BlzCodec, BlzDecompress

CONSTANTS MaxRepeats, MaxLen, MaxBody

CallsInit == Init \/ (DecompressInit /\ EncIdle)

CallsNext ==
  \/ pc # "idle" /\ Next
  \/ pc = "idle" /\ DecompressNext /\ UNCHANGED encVars

\* Straight-line code: an enabled step is always taken eventually.
CallsSpec == CallsInit /\ [][CallsNext]_vars /\ WF_vars(CallsNext)
-----------------------------------------------------------------------------
Repeat(block, n) == [i \in 1..(n * Len(block)) |-> block[((i - 1) % Len(block)) + 1]]

Blocks == {<<0>>, <<0, 1>>, <<0, 0, 1>>, <<1, 2, 3, 4, 5>>}
Heads == {<<>>, <<7>>, <<7, 8, 9>>, <<1, 7, 0, 8, 0, 9, 2, 1, 3>>}
Tails == {<<>>, <<0, 6>>, <<1, 0, 0, 0, 2, 0, 0, 0, 0, 5>>}

MCInputs ==
  {s \in {h \o Repeat(b, n) \o t : h \in Heads, b \in Blocks, n \in 0..MaxRepeats, t \in Tails} :
     Len(s) =< MaxLen}

U32(n) == <<n % 256, n \div 256, 0, 0>>

Bodies ==
  UNION {[1..n -> {0, 128}] : n \in 0..MaxBody}
    \union {<<low, first, 5, 6, 7, 16>> : low \in {0, 1, 9}, first \in {0, 16, 240}}

MCStreams ==
  {body \o U32(enc) \o U32(hdr) \o U32(extra) :
     body \in Bodies, enc \in 11..18, hdr \in {11, 12, 13, 15}, extra \in {0, 1, 3, 5}}
  \union {<<>>, <<1, 0, 0>>, <<1, 0, 0, 0>>, <<0, 0, 0, 0>>, <<7, 0, 0, 0, 1, 0, 0, 0>>}
=============================================================================
