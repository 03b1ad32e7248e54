------------------------------ MODULE BlzCodec ------------------------------
(***************************************************************************)
(* A buffer compressed and then decompressed: the encoder hands its stream *)
(* to the decoder together with the original length, which is what a KIP1  *)
(* segment header records as decomp_size.                                  *)
(***************************************************************************)
EXTENDS BlzEncoder, BlzDecoder

vars == <<encVars, decVars>>

Init == EncInit /\ DecIdle

\* compress returns and decompress is called on what it returned.
Hand ==
  /\ pc = "done"
  /\ dpc = "idle"
  /\ dpc' = "parse"
  /\ stream' = Stream
  /\ want' = len
  /\ UNCHANGED <<encVars, out, cmp, dst, start, flags, bits, pending, distance>>

Finished == dpc \in Errors \union {"ok"} /\ UNCHANGED vars

Next ==
  \/ EncNext /\ UNCHANGED decVars
  \/ Hand
  \/ DecNext /\ UNCHANGED encVars
  \/ Finished

\* Straight-line code: an enabled step is always taken eventually.
Spec == Init /\ [][Next]_vars /\ WF_vars(Next)
-----------------------------------------------------------------------------
\* compress never writes past the worst_case_len bytes it allocated
\* ("so no bounds failure is possible").
OutputFits == write_pos =< worst_case_len(len) /\ written =< worst_case_len(len)

\* The loop that moves the packed region reads no byte it has overwritten.
RelocationReadsAhead ==
  pc = "relocate" => best_remaining =< packed_start

\* The split is a boundary between two codes, so the packed region decodes on its
\* own, and no boundary the encoder passed leaves fewer bytes ("the optimal split").
SplitIsCheapest ==
  /\ [w |-> best_packed, r |-> len - best_remaining] \in boundaries
  /\ \A at \in boundaries : split =< at.w + len - at.r

\* Decoding in place never reads a byte it has overwritten: the write cursor,
\* after the code being copied, is at or above the read cursor ("the two never
\* cross, which is what lets the scheme work with no scratch buffer").
CursorsNeverCross == pc = "done" /\ dpc = "decode" => cmp =< dst - pending

\* Decompressing what compress produced returns the input and no error.
RoundTrip ==
  pc = "done" /\ dpc \notin {"idle", "parse", "decode"} =>
    dpc = "ok" /\ out = [i \in 0..(len - 1) |-> At(data, i)]

\* Falling back to storing keeps a stream no longer than the stored form.
NeverLarger == pc = "done" => written =< len + PadTo4(len) + 4

\* Every call of compress and of decompress returns: the loop that flushes the flag
\* byte leaves a mask no code has set alone.
Terminates == <>(dpc \in Errors \union {"ok"})
=============================================================================
