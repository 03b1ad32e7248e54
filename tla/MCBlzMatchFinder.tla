-------------------------- MODULE MCBlzMatchFinder --------------------------
(***************************************************************************)
(* Every buffer of two byte values up to MaxLen, with a window of five and *)
(* a longest match of four, so that chains leave the window, hit the       *)
(* longest match and cross positions too near to encode.  The hash         *)
(* collides: it drops the middle byte of the prefix.                       *)
(***************************************************************************)
EXTENDS BlzMatchFinder

CONSTANTS MaxLen, Alphabet

MCInputs == UNION {[1..n -> Alphabet] : n \in 0..MaxLen}
MCHash(a, b, c) == (a + c) % 2
MCBuckets == 0..1
=============================================================================
