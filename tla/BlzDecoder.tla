----------------------------- MODULE BlzDecoder -----------------------------
(***************************************************************************)
(* decompress of blz.rs.  The trailer is parsed and checked in one step,   *)
(* then the packed region is consumed backwards, in the buffer the output  *)
(* is written into, one code (and, inside a back-reference, one byte) per  *)
(* step.  `stream` is any buffer a caller may pass, well formed or not.    *)
(***************************************************************************)
EXTENDS Integers, Sequences

VARIABLES
  dpc,            \* "idle", "parse", "decode", "ok", or the error returned
  stream,         \* decompress's argument
  want,           \* decompressed_size
  out,            \* the buffer decoded in place, indexed from 0
  cmp, dst,       \* read cursor in the packed region, write cursor
  start,          \* packed_start
  flags, bits,    \* current flag byte and the codes left under it
  pending,        \* bytes copy_match has still to copy
  distance        \* of the back-reference being copied

decVars == <<dpc, stream, want, out, cmp, dst, start, flags, bits, pending, distance>>

Errors == {"BufferTooSmall", "MalformedTrailer", "TruncatedCode", "OutputUnderflow",
           "UnexpectedLength", "MatchOutOfBounds"}

DecIdle ==
  /\ dpc = "idle"
  /\ stream = <<>> /\ want = 0 /\ out = <<>>
  /\ cmp = 0 /\ dst = 0 /\ start = 0
  /\ flags = 0 /\ bits = 0 /\ pending = 0 /\ distance = 0

\* The little-endian u32 that sits `back` bytes from the end of the stream.
TrailingU32(back) ==
  LET at == Len(stream) - back
  IN  stream[at + 1] + 256 * stream[at + 2] + 65536 * stream[at + 3] + 16777216 * stream[at + 4]

Fail(error) ==
  /\ dpc' = error
  /\ UNCHANGED <<stream, want, out, cmp, dst, start, flags, bits, pending, distance>>

Return(buffer) ==
  /\ dpc' = "ok"
  /\ out' = buffer
  /\ UNCHANGED <<stream, want, cmp, dst, start, flags, bits, pending, distance>>

(***************************************************************************)
(* Up to the decoding loop.                                                *)
(***************************************************************************)
total == Len(stream)

ParseTooSmall ==
  /\ dpc = "parse"
  /\ \/ total < 4
     \/ total \in 4..11 /\ TrailingU32(4) # 0
  /\ Fail("BufferTooSmall")

\* A zero extra length marks a stored stream: its leading `want` bytes.
ParseStored ==
  /\ dpc = "parse"
  /\ total >= 4
  /\ TrailingU32(4) = 0
  /\ IF want =< total - 4
     THEN Return([i \in 0..(want - 1) |-> stream[i + 1]])
     ELSE Fail("UnexpectedLength")

Packed == dpc = "parse" /\ total >= 12 /\ TrailingU32(4) # 0

header_size == TrailingU32(8)
enc_len_read == TrailingU32(12)

\* Mutant: a header longer than the encoded region is accepted.
MalformedUnordered == header_size < 12 \/ enc_len_read > total

Malformed == header_size < 12 \/ header_size > enc_len_read \/ enc_len_read > total

ParseMalformed ==
  /\ Packed
  /\ Malformed
  /\ Fail("MalformedTrailer")

ParsePacked ==
  /\ Packed
  /\ ~Malformed
  /\ LET final_len == total + TrailingU32(4) IN
       /\ out' = [i \in 0..(final_len - 1) |-> IF i < total THEN stream[i + 1] ELSE 0]
       /\ dst' = final_len
  /\ start' = total - enc_len_read
  /\ cmp' = total - header_size
  /\ bits' = 0
  /\ dpc' = "decode"
  /\ UNCHANGED <<stream, want, flags, pending, distance>>

(***************************************************************************)
(* The decoding loop.  bits = 0 is the head of the outer loop.             *)
(***************************************************************************)
Decoding == dpc = "decode" /\ pending = 0

ReadFlags ==
  /\ Decoding
  /\ bits = 0
  /\ cmp > start
  /\ cmp' = cmp - 1
  /\ flags' = out[cmp - 1]
  /\ bits' = 8
  /\ UNCHANGED <<dpc, stream, want, out, dst, start, pending, distance>>

\* The inner loop breaks when the packed region is used up.
BreakGroup ==
  /\ Decoding
  /\ bits > 0
  /\ cmp =< start
  /\ bits' = 0
  /\ UNCHANGED <<dpc, stream, want, out, cmp, dst, start, flags, pending, distance>>

NextBit ==
  /\ flags' = (2 * flags) % 256
  /\ bits' = bits - 1

InCode == Decoding /\ bits > 0 /\ cmp > start

CopyLiteral ==
  /\ InCode
  /\ flags < 128
  /\ IF dst = 0
     THEN Fail("OutputUnderflow")
     ELSE /\ cmp' = cmp - 1
          /\ dst' = dst - 1
          /\ out' = [out EXCEPT ![dst - 1] = out[cmp - 1]]
          /\ NextBit
          /\ UNCHANGED <<dpc, stream, want, start, pending, distance>>

BeginMatch ==
  /\ InCode
  /\ flags >= 128
  /\ IF cmp - start < 2
     THEN Fail("TruncatedCode")
     ELSE LET first == out[cmp - 1]
              second == out[cmp - 2]
          IN  /\ cmp' = cmp - 2
              /\ pending' = first \div 16 + 3
              /\ distance' = (first % 16) * 256 + second + 3
              /\ NextBit
              /\ UNCHANGED <<dpc, stream, want, out, dst, start>>

OutLen == total + TrailingU32(4)

CopyMatchByte ==
  /\ dpc = "decode"
  /\ pending > 0
  /\ IF dst = 0
     THEN Fail("OutputUnderflow")
     ELSE IF dst - 1 + distance >= OutLen
     THEN Fail("MatchOutOfBounds")
     ELSE /\ dst' = dst - 1
          /\ out' = [out EXCEPT ![dst - 1] = out[dst - 1 + distance]]
          /\ pending' = pending - 1
          /\ UNCHANGED <<dpc, stream, want, cmp, start, flags, bits, distance>>

\* Mutant: the length asked for is not compared.
FinishUnchecked ==
  /\ Decoding
  /\ bits = 0
  /\ cmp =< start
  /\ Return(out)

Finish ==
  /\ Decoding
  /\ bits = 0
  /\ cmp =< start
  /\ IF OutLen = want
     THEN Return(out)
     ELSE Fail("UnexpectedLength")

DecNext ==
  \/ ParseTooSmall
  \/ ParseStored
  \/ ParseMalformed
  \/ ParsePacked
  \/ ReadFlags
  \/ BreakGroup
  \/ CopyLiteral
  \/ BeginMatch
  \/ CopyMatchByte
  \/ Finish
=============================================================================
