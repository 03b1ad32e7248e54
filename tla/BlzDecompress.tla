--------------------------- MODULE BlzDecompress ---------------------------
(***************************************************************************)
(* decompress called on bytes the crate did not produce: any stream and    *)
(* any expected size ("it is the half that reads bytes the crate did not   *)
(* produce").                                                              *)
(***************************************************************************)
EXTENDS BlzDecoder

CONSTANTS
  Streams,   \* buffers a caller may pass
  Sizes      \* decompressed sizes a caller may ask for

ASSUME StreamsAssumption == Streams \subseteq Seq(0..255)
ASSUME SizesAssumption == Sizes \subseteq Nat

DecompressInit ==
  /\ dpc = "parse"
  /\ stream \in Streams
  /\ want \in Sizes
  /\ out = <<>>
  /\ cmp = 0 /\ dst = 0 /\ start = 0
  /\ flags = 0 /\ bits = 0 /\ pending = 0 /\ distance = 0

Returned == dpc \in Errors \union {"ok"} /\ UNCHANGED decVars

DecompressNext == DecNext \/ Returned

DecompressSpec == DecompressInit /\ [][DecompressNext]_decVars
-----------------------------------------------------------------------------
OutByte == 0..255

\* The values decompress keeps: byte-sized flags, a copy no longer than a match
\* can be and no farther than a code can reach.
DecTypeOK ==
  /\ dpc \in {"parse", "decode", "ok"} \union Errors
  /\ stream \in Seq(OutByte)
  /\ want \in Nat
  /\ cmp \in Nat /\ dst \in Nat /\ start \in Nat
  /\ flags \in OutByte /\ bits \in 0..8
  /\ pending \in 0..18 /\ distance \in 0..4098

\* No stream makes an index leave the buffer: what the loop reads through cmp
\* lies in the packed region, and what it writes through dst in the output.
\* `out[cmp]` and `out[dst]` would panic otherwise.
IndexesInBounds ==
  dpc = "decode" =>
    /\ out \in [0..(OutLen - 1) -> OutByte]
    /\ start =< cmp /\ cmp < total
    /\ dst =< OutLen

\* A successful call returns exactly the number of bytes that was asked for.
OkHasWantedLength == dpc = "ok" => DOMAIN out = 0..(want - 1)

\* What the doc of decompress promises for a packed stream: an error "if the
\* stream does not hold `decompressed_size` bytes of output", so a successful
\* call has produced every byte above the raw prefix, and nothing below it.
OkDecodedEverything ==
  dpc = "ok" /\ TrailingU32(4) # 0 => dst = start
=============================================================================
