------------------------------ MODULE Container ------------------------------
(***************************************************************************)
(* What every format of the crate promises its callers: contents are put   *)
(* under keys, one key at a time; the container is sealed, or building it  *)
(* fails; and from then on asking for a key answers with what was last put *)
(* there, or with None.  Nothing put under one key reaches another, and    *)
(* sealing changes nothing.                                                *)
(*                                                                         *)
(* A container the crate did not seal promises nothing about its answers   *)
(* here, nor one whose contents its format cannot hold ("lossy").          *)
(***************************************************************************)
CONSTANTS
  Keys,              \* names, slots or segments
  None               \* nothing is stored

VARIABLES
  content,           \* content[k]: what was last put under k, or None
  state,             \* "open", "sealed", "lossy", "failed", "foreign"
  answer             \* the last answer: a key and its contents, or a word

cVars == <<content, state, answer>>

Init == content = [k \in Keys |-> None] /\ state = "open" /\ answer = <<"none">>

Put(k) ==
  /\ state = "open"
  /\ DOMAIN content' = Keys
  /\ \A j \in Keys \ {k} : content'[j] = content[j]
  /\ UNCHANGED <<state, answer>>

\* The first contents may come all at once, from another file.
Fill ==
  /\ state = "open" /\ content = [k \in Keys |-> None]
  /\ DOMAIN content' = Keys
  /\ UNCHANGED <<state, answer>>

Seal == state = "open" /\ state' \in {"sealed", "lossy"} /\ UNCHANGED <<content, answer>>

Fail == state = "open" /\ state' = "failed" /\ UNCHANGED <<content, answer>>

Open == state = "open" /\ state' = "foreign" /\ UNCHANGED content

Get(k) ==
  /\ state = "sealed"
  /\ answer' = <<k, content[k]>>
  /\ UNCHANGED <<content, state>>

\* A question about no key's contents.
Aside == state = "sealed" /\ answer' = <<"aside">> /\ UNCHANGED <<content, state>>

GetAny == state \in {"foreign", "lossy"} /\ UNCHANGED <<content, state>>

Next ==
  \/ \E k \in Keys : Put(k) \/ Get(k)
  \/ Fill \/ Seal \/ Fail \/ Open \/ Aside \/ GetAny

Spec == Init /\ [][Next]_cVars
=============================================================================
