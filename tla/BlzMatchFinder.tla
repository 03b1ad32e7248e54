--------------------------- MODULE BlzMatchFinder ---------------------------
(***************************************************************************)
(* MatchFinder of blz.rs: a hash-chain index over the (reversed) input.    *)
(* `new` links every position to the previous position of its bucket in    *)
(* one forward pass; `longest_match` walks the chain of one position from  *)
(* the nearest candidate to the oldest.  The finder is read-only once it   *)
(* is built, so queries may come in any order, as the lazy matcher's       *)
(* look-ahead probes do.                                                   *)
(*                                                                         *)
(* The hash is a parameter: the code's multiplicative hash is one function *)
(* from three-byte prefixes to buckets among others, and nothing here      *)
(* depends on which one it is, only on its being a function.               *)
(***************************************************************************)
EXTENDS BlzMatch

CONSTANTS
  Buckets,         \* hash buckets
  Hash(_, _, _),   \* bucket of a three-byte prefix
  NONE             \* u32::MAX: empty bucket and end of chain

ASSUME HashAssumption == \A a, b, c \in Byte : Hash(a, b, c) \in Buckets
\* The code asserts data.len() < NONE, so no position collides with it.
ASSUME NoneAssumption == NONE \notin Int

VARIABLES
  phase,         \* "new", "idle" or "walk"
  indexed,       \* MatchFinder::data, the buffer indexed
  head,          \* most recent position of every bucket, while linking
  prev,          \* for every position, the previous one of its bucket
  pos,           \* next position `new` links
  query,         \* argument of the current (or last) longest_match call
  candidate,     \* chain position the walk looks at next
  best_len, best_offset,
  answer         \* what the last longest_match call returned

finderVars == <<phase, indexed, head, prev, pos, query, candidate, best_len, best_offset, answer>>

NoMatch == <<MATCH_THRESHOLD, 0>>

\* Positions that have a full three-byte prefix; only these are linked.
Hashable == 0..(Len(indexed) - MIN_MATCH)

BucketOf(p) == Hash(At(indexed, p), At(indexed, p + 1), At(indexed, p + 2))

FinderInit ==
  /\ phase = "new"
  /\ indexed \in Inputs
  /\ head = [b \in Buckets |-> NONE]
  /\ prev = [p \in 0..(Len(indexed) - 1) |-> NONE]
  /\ pos = 0
  /\ query = 0 /\ candidate = NONE
  /\ best_len = MATCH_THRESHOLD /\ best_offset = 0
  /\ answer = NoMatch

(***************************************************************************)
(* MatchFinder::new                                                        *)
(***************************************************************************)
\* Mutant: the bucket is updated before the slot is read.
LinkSwapped ==
  /\ phase = "new"
  /\ pos \in Hashable
  /\ prev' = [prev EXCEPT ![pos] = pos]
  /\ head' = [head EXCEPT ![BucketOf(pos)] = pos]
  /\ pos' = pos + 1
  /\ UNCHANGED <<phase, indexed, query, candidate, best_len, best_offset, answer>>

Link ==
  /\ phase = "new"
  /\ pos \in Hashable
  /\ prev' = [prev EXCEPT ![pos] = head[BucketOf(pos)]]
  /\ head' = [head EXCEPT ![BucketOf(pos)] = pos]
  /\ pos' = pos + 1
  /\ UNCHANGED <<phase, indexed, query, candidate, best_len, best_offset, answer>>

Built ==
  /\ phase = "new"
  /\ pos \notin Hashable
  /\ phase' = "idle"
  /\ UNCHANGED <<indexed, head, prev, pos, query, candidate, best_len, best_offset, answer>>

(***************************************************************************)
(* MatchFinder::longest_match                                              *)
(***************************************************************************)
\* Fewer than MIN_MATCH bytes remain: no encodable match starts here.
QueryTail(p) ==
  /\ phase = "idle"
  /\ Len(indexed) < p + MIN_MATCH
  /\ query' = p
  /\ answer' = NoMatch
  /\ UNCHANGED <<phase, indexed, head, prev, pos, candidate, best_len, best_offset>>

Query(p) ==
  /\ phase = "idle"
  /\ p + MIN_MATCH =< Len(indexed)
  /\ phase' = "walk"
  /\ query' = p
  /\ candidate' = prev[p]
  /\ best_len' = MATCH_THRESHOLD
  /\ best_offset' = 0
  /\ UNCHANGED <<indexed, head, prev, pos, answer>>

\* Mutant: among equal runs the farthest wins.
ImproveOnTies(offset) ==
  LET len == RunLen(indexed, query, offset)
  IN  IF offset >= MIN_MATCH /\ len > MATCH_THRESHOLD /\ len >= best_len
      THEN <<len, offset>>
      ELSE <<best_len, best_offset>>

\* What the walk holds after looking at a candidate `offset` back.
Improve(offset) ==
  LET len == RunLen(indexed, query, offset)
  IN  IF offset >= MIN_MATCH /\ len > best_len
      THEN <<len, offset>>
      ELSE <<best_len, best_offset>>

InWindow == candidate # NONE /\ query - candidate =< MAX_OFFSET

\* Mutant: the walk does not move on to the next candidate.
VisitStuck ==
  /\ phase = "walk"
  /\ InWindow
  /\ LET found == Improve(query - candidate) IN
       /\ best_len' = found[1]
       /\ best_offset' = found[2]
       /\ IF found[1] = MAX_MATCH
          THEN phase' = "idle" /\ answer' = found
          ELSE UNCHANGED <<phase, answer>>
  /\ UNCHANGED <<indexed, head, prev, pos, query, candidate>>

\* One candidate; a match that cannot be beaten ends the walk.
Visit ==
  /\ phase = "walk"
  /\ InWindow
  /\ LET found == Improve(query - candidate) IN
       /\ best_len' = found[1]
       /\ best_offset' = found[2]
       /\ IF found[1] = MAX_MATCH
          THEN phase' = "idle" /\ answer' = found /\ UNCHANGED candidate
          ELSE candidate' = prev[candidate] /\ UNCHANGED <<phase, answer>>
  /\ UNCHANGED <<indexed, head, prev, pos, query>>

\* The chain is over, or leaves the window.
Leave ==
  /\ phase = "walk"
  /\ ~InWindow
  /\ phase' = "idle"
  /\ answer' = <<best_len, best_offset>>
  /\ UNCHANGED <<indexed, head, prev, pos, query, candidate, best_len, best_offset>>

FinderNext ==
  \/ Link
  \/ Built
  \/ \E p \in 0..Len(indexed) : QueryTail(p) \/ Query(p)
  \/ Visit
  \/ Leave

\* A call runs to its end once made; queries are made only on request.
FinderFairness == WF_finderVars(Link) /\ WF_finderVars(Built) /\ WF_finderVars(Visit) /\ WF_finderVars(Leave)

FinderSpec == FinderInit /\ [][FinderNext]_finderVars /\ FinderFairness
-----------------------------------------------------------------------------
Position == 0..(Len(indexed) - 1)

\* Phases and cursors; positions of the index and its queries lie in the buffer.
FinderTypeOK ==
  /\ phase \in {"new", "idle", "walk"}
  /\ indexed \in Seq(Byte)
  /\ head \in [Buckets -> Position \union {NONE}]
  /\ prev \in [Position -> Position \union {NONE}]
  /\ pos \in Nat
  /\ query \in Nat
  /\ candidate \in Position \union {NONE}
  /\ best_len \in 0..MAX_MATCH
  /\ best_offset \in Nat
  /\ answer \in (0..MAX_MATCH) \X Nat

(***************************************************************************)
(* Nothing between p and its link q shares p's bucket: the chain skips no  *)
(* position that could match, and it descends, so every walk ends.         *)
(***************************************************************************)
NearestEarlier(p, q) ==
  IF q = NONE
  THEN \A r \in 0..(p - 1) : BucketOf(r) # BucketOf(p)
  ELSE /\ q \in 0..(p - 1)
       /\ BucketOf(q) = BucketOf(p)
       /\ \A r \in (q + 1)..(p - 1) : BucketOf(r) # BucketOf(p)

\* Every position linked so far points at the nearest earlier position of
\* its bucket (the doc of MatchFinder: "each prev link only ever points to
\* an earlier position, so a fully built table answers every query").
ChainsComplete == \A p \in Hashable : p < pos => NearestEarlier(p, prev[p])

\* A finished query returns what the exhaustive scan of every offset would:
\* the longest run and, among equals, the nearest.
MatchesOracle == phase = "idle" => answer = LongestMatch(indexed, query)

\* Every walk ends.
WalkEnds == (phase = "walk") ~> (phase = "idle")
=============================================================================
