-------------------------------- MODULE Cnmt --------------------------------
(***************************************************************************)
(* CnmtBuilder of write/cnmt.rs and Cnmt of read/cnmt.rs: the records that *)
(* name a title's archives, one per content type, written in order of type *)
(* after a header and an extended header of declared size.                 *)
(*                                                                         *)
(* The layout is the format's with every field one unit wide (a hash has   *)
(* two, its half that names the archive first).                            *)
(***************************************************************************)
EXTENDS Integers, FiniteSetsExt, SequencesExt

CONSTANTS
  None,              \* Option::None
  Titles,            \* title ids
  Contents,          \* records: [hash: two units, size, content_type]
  Cnmts,             \* buffers the crate did not build
  SIZE_LIMIT,        \* 2^48
  PATCH_OFFSET,      \* 0x800
  CNMT_U64           \* 2^64

VARIABLES
  cnmtPhase,         \* "new", "set", "built", "foreign", or the error of add_content
  cb,                \* the builder
  cnmt,              \* what build returned, or the foreign buffer
  cnmtOpen,          \* try_from_bytes: "no", "yes", or its error
  cnmtResult         \* the last answer

cnmtVars == <<cnmtPhase, cb, cnmt, cnmtOpen, cnmtResult>>

CNMT_HEADER == 6
CNMT_EXTENDED == 3
CNMT_RECORD == 5
Application == 128
ContentTypes == 0..6

ASSUME CnmtUnits == SIZE_LIMIT \in Nat \ {0} /\ PATCH_OFFSET \in Nat /\ CNMT_U64 \in Nat \ {0} /\ Titles \subseteq Nat
ASSUME RecordsSupplied == Contents \subseteq [hash : Int \X Int, size : Nat, content_type : ContentTypes]

AddContentErrors == {"ContentTooLarge", "DuplicateContentType"}

CnmtInit ==
  cnmtPhase = "new" /\ cb = <<>> /\ cnmt = <<>> /\ cnmtOpen = "no" /\ cnmtResult = [kind |-> "none"]

NewCnmt(title) ==
  /\ cnmtPhase = "new"
  /\ cnmtPhase' = "set"
  /\ cb' = [title_id |-> title, title_version |-> 0, records |-> <<>>]
  /\ UNCHANGED <<cnmt, cnmtOpen, cnmtResult>>

TitleVersion(version) ==
  /\ cnmtPhase = "set"
  /\ cb' = [cb EXCEPT !.title_version = version]
  /\ UNCHANGED <<cnmtPhase, cnmt, cnmtOpen, cnmtResult>>

\* Mutant: the limit itself is let through, and is stored as 0.
AddContentErrorAtLimit(r) ==
  IF r.size > SIZE_LIMIT THEN "ContentTooLarge"
  ELSE IF \E i \in DOMAIN cb.records : cb.records[i].content_type = r.content_type THEN "DuplicateContentType"
  ELSE "none"

AddContentError(r) ==
  IF r.size > SIZE_LIMIT - 1 THEN "ContentTooLarge"
  ELSE IF \E i \in DOMAIN cb.records : cb.records[i].content_type = r.content_type THEN "DuplicateContentType"
  ELSE "none"

\* The builder is consumed by an error.
AddContent(r) ==
  /\ cnmtPhase = "set"
  /\ IF AddContentError(r) = "none"
     THEN cb' = [cb EXCEPT !.records = Append(@, r)] /\ UNCHANGED cnmtPhase
     ELSE cnmtPhase' = AddContentError(r) /\ UNCHANGED cb
  /\ UNCHANGED <<cnmt, cnmtOpen, cnmtResult>>

\* The archive is named by the head of its hash; the size keeps six bytes.
RawRecord(r) == <<r.hash[1], r.hash[2], r.hash[1], r.size % SIZE_LIMIT, r.content_type>>

\* sort_by_key on the type is stable.
TypeBefore(i, j) ==
  \/ cb.records[i].content_type < cb.records[j].content_type
  \/ cb.records[i].content_type = cb.records[j].content_type /\ i < j

\* The k-th record in order of type is the one with k - 1 before it.
SortedRecord(k) ==
  cb.records[CHOOSE i \in DOMAIN cb.records : Cardinality({j \in DOMAIN cb.records : TypeBefore(j, i)}) = k - 1]

\* The records one after another, each of the same width.
RawRecords ==
  [n \in 1..(Len(cb.records) * CNMT_RECORD) |->
     RawRecord(SortedRecord(((n - 1) \div CNMT_RECORD) + 1))[((n - 1) % CNMT_RECORD) + 1]]

CnmtOf ==
  <<cb.title_id, cb.title_version, Application, CNMT_EXTENDED, Len(cb.records), 0>>
    \o <<(cb.title_id + PATCH_OFFSET) % CNMT_U64, 0, 0>>
    \o RawRecords
    \o <<0>>

BuildCnmt ==
  /\ cnmtPhase = "set"
  /\ cnmtPhase' = "built"
  /\ cnmt' = CnmtOf
  /\ UNCHANGED <<cb, cnmtOpen, cnmtResult>>

(***************************************************************************)
(* Reading                                                                 *)
(***************************************************************************)
ExtendedSize(s) == s[4]
RecordCount(s) == s[5]

CnmtError(s) ==
  IF Len(s) < CNMT_HEADER THEN "BufferTooSmall"
  ELSE IF Len(s) - CNMT_HEADER < ExtendedSize(s) THEN "ExtendedHeaderOutOfBounds"
  ELSE IF Len(s) - CNMT_HEADER - ExtendedSize(s) < RecordCount(s) * CNMT_RECORD THEN "RecordsOutOfBounds"
  ELSE "none"

OpenCnmt(s) ==
  /\ cnmtOpen = "no"
  /\ cnmt' = s
  /\ cnmtOpen' = IF CnmtError(s) = "none" THEN "yes" ELSE CnmtError(s)
  /\ UNCHANGED <<cb, cnmtResult>>

OpenBuiltCnmt == cnmtPhase = "built" /\ OpenCnmt(cnmt) /\ UNCHANGED cnmtPhase

OpenForeignCnmt(s) == cnmtPhase = "new" /\ OpenCnmt(s) /\ cnmtPhase' = "foreign"

RecordAt(k) == SubSeq(cnmt, CNMT_HEADER + ExtendedSize(cnmt) + (k - 1) * CNMT_RECORD + 1,
                            CNMT_HEADER + ExtendedSize(cnmt) + k * CNMT_RECORD)

\* A type this crate does not know is no type.
ContentTypeOf(k) == IF RecordAt(k)[5] \in ContentTypes THEN RecordAt(k)[5] ELSE None

\* records(), searched for a type: hash, name and size of the first that has it.
FindContent(type) ==
  LET found == {k \in 1..RecordCount(cnmt) : ContentTypeOf(k) = type}
      first == CHOOSE k \in found : \A j \in found : k =< j
  IN  /\ cnmtOpen = "yes"
      /\ cnmtResult' = [kind |-> "content", answer |-> <<type, IF found = {} THEN None ELSE SubSeq(RecordAt(first), 1, 4)>>]
      /\ UNCHANGED <<cnmtPhase, cb, cnmt, cnmtOpen>>

\* extended_header: read only when size and meta type are an application's.
ExtendedHeader ==
  IF ExtendedSize(cnmt) = CNMT_EXTENDED /\ cnmt[3] = Application
  THEN SubSeq(cnmt, CNMT_HEADER + 1, CNMT_HEADER + CNMT_EXTENDED) ELSE None

ReadExtendedHeader ==
  /\ cnmtOpen = "yes"
  /\ cnmtResult' = [kind |-> "extended", header |-> ExtendedHeader]
  /\ UNCHANGED <<cnmtPhase, cb, cnmt, cnmtOpen>>

CnmtNext ==
  \/ \E t \in Titles : NewCnmt(t)
  \/ \E v \in {0, 7} : TitleVersion(v)
  \/ \E r \in Contents : AddContent(r)
  \/ BuildCnmt
  \/ OpenBuiltCnmt
  \/ \E s \in Cnmts : OpenForeignCnmt(s)
  \/ \E t \in ContentTypes : FindContent(t)
  \/ ReadExtendedHeader

CnmtSpec == CnmtInit /\ [][CnmtNext]_cnmtVars
-----------------------------------------------------------------------------
(***************************************************************************)
(* The abstract container: one record per content type.                    *)
(***************************************************************************)
RecordsKept ==
  [t \in ContentTypes |->
     IF cb # <<>> /\ \E i \in DOMAIN cb.records : cb.records[i].content_type = t
     THEN LET r == cb.records[CHOOSE i \in DOMAIN cb.records : cb.records[i].content_type = t]
          IN  <<r.hash[1], r.hash[2], r.hash[1], r.size>>
     ELSE None]

CnmtAbstract ==
  INSTANCE Container WITH
    Keys    <- ContentTypes,
    content <- RecordsKept,
    state   <- IF cnmtPhase = "built" THEN "sealed"
               ELSE IF cnmtPhase \in AddContentErrors THEN "failed"
               ELSE IF cnmtPhase = "foreign" THEN "foreign" ELSE "open",
    answer  <- IF cnmtResult.kind = "content" THEN cnmtResult.answer
               ELSE IF cnmtResult.kind = "extended" THEN <<"aside">>
               ELSE IF cnmtOpen \in {"no", "yes"} THEN <<"none">> ELSE <<"unread">>

\* In whatever order archives were recorded, a reader finds the record of each
\* content type with its hash, name and size whole, and none for a type that was
\* not recorded; "two ... records could not be told apart by the console".
RecordsImplementContainer == CnmtAbstract!Spec
=============================================================================
