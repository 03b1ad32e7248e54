------------------------------ MODULE BlzMatch ------------------------------
(***************************************************************************)
(* Back-references of the BLZ encoder (blz.rs): how long a run two         *)
(* positions of a buffer share, and which earlier position the encoder     *)
(* refers back to.  A buffer is a sequence of bytes; positions are         *)
(* 0-based as in the code, so the byte at position p is data[p + 1].       *)
(***************************************************************************)
EXTENDS Integers, FiniteSetsExt, Sequences

CONSTANTS
  Inputs,       \* the buffers to compress
  MAX_OFFSET,   \* largest back-reference distance (0x1002 in the code)
  MAX_MATCH     \* longest match (18 in the code)

\* Match lengths are stored in 4 bits above MIN_MATCH, distances in 12.
ASSUME MatchAssumption ==
  /\ MAX_MATCH \in 3..18
  /\ MAX_OFFSET \in 3..4098

MATCH_THRESHOLD == 2
MIN_MATCH == MATCH_THRESHOLD + 1

Byte == 0..255

ASSUME InputsAssumption == Inputs \subseteq Seq(Byte)

At(data, p) == data[p + 1]

(***************************************************************************)
(* The innermost loop of the search: how many bytes from pos on repeat the *)
(* bytes `offset` earlier.  It stops at the longest encodable match, at    *)
(* the end of the buffer, where the copy would start to overlap itself,    *)
(* or at the first byte that differs.                                      *)
(***************************************************************************)
RunCap(data, pos, offset) ==
  Min({MAX_MATCH, Len(data) - pos, offset})

RunLen(data, pos, offset) ==
  Min({n \in 0..RunCap(data, pos, offset) :
         \/ n = RunCap(data, pos, offset)
         \/ At(data, pos + n) # At(data, pos + n - offset)})

(***************************************************************************)
(* The oracle the repository's tests hold the match finder to: scan every  *)
(* encodable offset and keep the longest run, the nearest one among equals.*)
(* <<MATCH_THRESHOLD, 0>> says that no run is worth a back-reference.      *)
(***************************************************************************)
Offsets(pos) == MIN_MATCH..Min({pos, MAX_OFFSET})

Worthwhile(data, pos) ==
  {o \in Offsets(pos) : RunLen(data, pos, o) > MATCH_THRESHOLD}

LongestMatch(data, pos) ==
  IF Worthwhile(data, pos) = {}
  THEN <<MATCH_THRESHOLD, 0>>
  ELSE LET best == Max({RunLen(data, pos, o) : o \in Worthwhile(data, pos)})
       IN  <<best, Min({o \in Worthwhile(data, pos) : RunLen(data, pos, o) = best})>>
=============================================================================
