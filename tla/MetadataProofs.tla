---------------------------- MODULE MetadataProofs ----------------------------
(***************************************************************************)
(* Files a program is described or accompanied by, for every sequence of  *)
(* calls: the title an NACP shows for a language is the one last set for   *)
(* it, the record a CNMT answers with for a content type is the one that   *)
(* was added for it, both sections of an NPDM decode to the permissions,   *)
(* owners and services they were built from, and a KIP1 gives back the     *)
(* segments its builder was given.                                         *)
(***************************************************************************)
EXTENDS Nacp, Cnmt, Npdm, Kip1, LayoutLemmas, TLAPS

(***************************************************************************)
(* NACP                                                                    *)
(***************************************************************************)
Text == Seq(Int) \union {Unset}

\* What the builder holds: a text or nothing for every slot.
TextsOK ==
  /\ {"names", "authors"} \subseteq DOMAIN nb
  /\ nb["names"] \in [LangSlots -> Text] /\ nb["authors"] \in [LangSlots -> Text]

\* TitleShown is not inductive: an answer is right because the structure asked is
\* still the builder's, and there is none before it was built or opened.
NacpInv ==
  /\ TextsOK
  /\ nacpPhase \notin {"built", "open"} => nacpResult = <<>>
  /\ nacpPhase = "built" => nacp = NacpOf
  /\ TitleShown

\* Builder and reader agree on the slot of every language.
LEMMA TablesAgree ==
  \A k \in DOMAIN SetLanguage : /\ language_to_index[SetLanguage[k]] = LanguageTable[k]
                                /\ LanguageTable[k] \in LangSlots
<1>. SUFFICES ASSUME NEW k \in DOMAIN SetLanguage
              PROVE  language_to_index[SetLanguage[k]] = LanguageTable[k] /\ LanguageTable[k] \in LangSlots
  OBVIOUS
<1>1. \/ k = 1 \/ k = 2 \/ k = 3 \/ k = 4 \/ k = 5 \/ k = 6 \/ k = 7 \/ k = 8 \/ k = 9
      \/ k = 10 \/ k = 11 \/ k = 12 \/ k = 13 \/ k = 14 \/ k = 15 \/ k = 16 \/ k = 17 \/ k = 18
  BY DEF SetLanguage
<1>. QED
  BY <1>1 DEF SetLanguage, language_to_index, LanguageTable, LangSlots

LEMMA FieldIs ==
  ASSUME NEW text \in Text, NEW size \in Nat \ {0}
  PROVE  /\ Field(text, size) \in Seq(Int)
         /\ Field(text, size)[1] # 0 <=> text # Unset /\ text # <<>> /\ text[1] # 0
<1>1. CASE text = Unset
  <2>1. Field(text, size) = [k \in 1..size |-> 0]
    BY <1>1 DEF Field
  <2>2. Field(text, size) \in Seq(Int) /\ Field(text, size)[1] = 0
    BY <2>1
  <2>. QED
    BY <1>1, <2>2
<1>2. CASE text # Unset
  <2>1. text \in Seq(Int) /\ Len(text) \in Nat
    BY <1>2, LenProperties DEF Text
  <2>2. Field(text, size) = [k \in 1..size |-> IF k =< Len(text) THEN text[k] ELSE 0]
    BY <1>2 DEF Field
  <2>3. \A k \in 1..size : (IF k =< Len(text) THEN text[k] ELSE 0) \in Int
    <3>. SUFFICES ASSUME NEW k \in 1..size, k =< Len(text) PROVE text[k] \in Int
      OBVIOUS
    <3>. QED
      BY <2>1, ElementOfSeq
  <2>4. Field(text, size) \in Seq(Int) /\ Field(text, size)[1] = IF 1 =< Len(text) THEN text[1] ELSE 0
    BY <2>2, <2>3
  <2>5. text = <<>> <=> ~(1 =< Len(text))
    BY <2>1, EmptySeq
  <2>. QED
    BY <1>2, <2>4, <2>5
<1>. QED
  BY <1>1, <1>2

\* A slot answers exactly when a visible name was set for it.
LEMMA EntryIs ==
  ASSUME TextsOK, nacp = NacpOf, NEW i \in LangSlots
  PROVE  LET entry == [name |-> Field(nb.names[i], NAME_FIELD), author |-> Field(nb.authors[i], AUTHOR_FIELD)]
         IN  entry # Unset /\ LanguageEntry(i) = IF Titled(i) THEN entry ELSE Unset
<1>. DEFINE name == Field(nb.names[i], NAME_FIELD)
            author == Field(nb.authors[i], AUTHOR_FIELD)
            entry == [name |-> name, author |-> author]
<1>1. nb.names[i] \in Text /\ nb.authors[i] \in Text
  BY DEF TextsOK
<1>2. name \in Seq(Int) /\ author \in Seq(Int) /\ (name[1] # 0 <=> Titled(i))
  BY <1>1, FieldIs, NacpUnits DEF Titled
<1>3. nacp.lang[i] = entry
  BY DEF NacpOf
<1>. HIDE DEF name, author
<1>4. entry # Unset
  BY <1>2, TextsSupplied
<1>5. entry.name = name
  OBVIOUS
<1>6. ~(i > 15)
  BY DEF LangSlots
<1>7. LanguageEntry(i) = IF Titled(i) THEN entry ELSE Unset
  BY <1>2, <1>3, <1>5, <1>6 DEF LanguageEntry
<1>. QED
  BY <1>4, <1>7 DEF name, author

\* Asking for a language shows its own title, or else the first there is.
LEMMA EntryForIs ==
  ASSUME TextsOK, nacp = NacpOf, NEW k \in DOMAIN SetLanguage
  PROVE  LET own == language_to_index[SetLanguage[k]]
             titled == {i \in LangSlots : Titled(i)}
             shown == IF own \in titled THEN own ELSE Min(titled)
         IN  LanguageEntryFor(k) =
               IF titled = {} THEN Unset
               ELSE [name |-> Field(nb.names[shown], NAME_FIELD), author |-> Field(nb.authors[shown], AUTHOR_FIELD)]
<1>. DEFINE own == language_to_index[SetLanguage[k]]
            titled == {i \in LangSlots : Titled(i)}
            shown == IF own \in titled THEN own ELSE Min(titled)
            populated == {i \in LangSlots : LanguageEntry(i) # Unset}
            entry(i) == [name |-> Field(nb.names[i], NAME_FIELD), author |-> Field(nb.authors[i], AUTHOR_FIELD)]
<1>1. own = LanguageTable[k] /\ own \in LangSlots
  BY TablesAgree
<1>2. \A i \in LangSlots : entry(i) # Unset /\ LanguageEntry(i) = IF Titled(i) THEN entry(i) ELSE Unset
  BY EntryIs
<1>3. LanguageEntryFor(k) = IF LanguageEntry(LanguageTable[k]) # Unset THEN LanguageEntry(LanguageTable[k])
                            ELSE IF populated # {} THEN LanguageEntry(Min(populated)) ELSE Unset
  BY DEF LanguageEntryFor
<1>. HIDE DEF own, entry
<1>4. populated = titled
  BY <1>2
<1>5. titled # {} => Min(titled) \in titled
  <2>1. titled \in SUBSET Nat
    BY DEF LangSlots
  <2>. QED
    BY <2>1, MinIs
<1>6. \A i \in titled : i \in LangSlots /\ LanguageEntry(i) = entry(i)
  BY <1>2
<1>7. own \notin titled => LanguageEntry(own) = Unset
  BY <1>1, <1>2
<1>8. \A i \in titled : LanguageEntry(i) # Unset
  BY <1>2
<1>. HIDE DEF titled, populated
<1>9. LanguageEntryFor(k) = IF titled = {} THEN Unset ELSE entry(shown)
  <2>1. CASE own \in titled
    BY <1>1, <1>3, <1>6, <1>8, <2>1
  <2>2. CASE own \notin titled
    BY <1>1, <1>3, <1>4, <1>5, <1>6, <1>7, <2>2
  <2>. QED
    BY <2>1, <2>2
<1>. QED
  BY <1>9 DEF own, titled, entry

LEMMA NacpInitInv == NacpInit => NacpInv
  BY DEF NacpInit, NacpInv, TextsOK, Text, NewNacp, TitleShown, LangSlots

\* A setter gives a slot a text and touches no answer.
LEMMA SetterInv ==
  ASSUME NacpInv, NEW after, NacpSetter(after), {"names", "authors"} \subseteq DOMAIN after,
         after["names"] \in [LangSlots -> Text], after["authors"] \in [LangSlots -> Text]
  PROVE  NacpInv'
<1>1. nacpPhase' = "set" /\ nb' = after /\ nacpResult' = nacpResult /\ nacpPhase = "set"
  BY DEF NacpSetter
<1>. QED
  BY <1>1 DEF NacpInv, TextsOK, TitleShown

LEMMA NacpStays ==
  ASSUME NacpInv, nb' = nb, nacpResult' = nacpResult, nacp' = nacp, nacpPhase' = nacpPhase
  PROVE  NacpInv'
  BY DEF NacpInv, TextsOK, TitleShown, Titled, NacpOf

\* After a failed call, or over a foreign structure, the property says nothing.
LEMMA NacpElsewhere ==
  ASSUME NacpInv, nb' = nb, nacpPhase' # "built", nacpPhase' \notin {"built", "open"} => nacpResult' = <<>>
  PROVE  NacpInv'
  BY DEF NacpInv, TextsOK, TitleShown

LEMMA AskInv ==
  ASSUME NacpInv, NEW question, NEW value, AskNacp(question, value),
         nacpPhase = "built" /\ question \in ToSet(SetLanguage) =>
           \E k \in DOMAIN SetLanguage : question = SetLanguage[k] /\ value = LanguageEntryFor(k)
  PROVE  NacpInv'
<1>1. nb' = nb /\ nacp' = nacp /\ nacpPhase' = nacpPhase /\ nacpPhase \in {"built", "open"} /\ nacpResult' = <<question, value>>
  BY DEF AskNacp
<1>2. TextsOK' /\ (nacpPhase' = "built" => nacp' = NacpOf')
  BY <1>1 DEF NacpInv, TextsOK, NacpOf
<1>3. TitleShown'
  <2>. SUFFICES ASSUME nacpPhase = "built", question \in ToSet(SetLanguage)
                PROVE  TitleShown'
    BY <1>1 DEF TitleShown
  <2>1. PICK k \in DOMAIN SetLanguage : question = SetLanguage[k] /\ value = LanguageEntryFor(k)
    OBVIOUS
  <2>. DEFINE own == language_to_index[question]
              titled == {i \in LangSlots : Titled(i)}
              shown == IF own \in titled THEN own ELSE Min(titled)
              want == IF titled = {} THEN Unset
                      ELSE [name |-> Field(nb.names[shown], NAME_FIELD), author |-> Field(nb.authors[shown], AUTHOR_FIELD)]
  <2>2. value = want
    BY <2>1, EntryForIs DEF NacpInv
  <2>3. nacpResult'[1] = question /\ nacpResult'[2] = want
    BY <1>1, <2>2
  <2>4. {i \in LangSlots : Titled(i)'} = titled
    BY <1>1 DEF Titled
  <2>. QED
    BY <1>1, <2>3, <2>4 DEF TitleShown
<1>. QED
  BY <1>1, <1>2, <1>3 DEF NacpInv

LEMMA NacpNextInv == NacpInv /\ [NacpNext]_nacpVars => NacpInv'
<1>. SUFFICES ASSUME NacpInv, [NacpNext]_nacpVars PROVE NacpInv'
  OBVIOUS
<1>0. TextsOK
  BY DEF NacpInv
<1>1. ASSUME NEW f \in {"names", "authors"} \intersect DOMAIN NacpCalls, NEW t \in NacpCalls[f], SetForAll(f, t)
      PROVE  NacpInv'
  <2>1. t \in Text
    BY TextsSupplied DEF Text
  <2>. QED
    BY <1>0, <1>1, <2>1, SetterInv DEF SetForAll, TextsOK
<1>2. ASSUME NEW f \in {"names", "authors"}, NEW l \in NacpCalls.languages[f], NEW t \in NacpCalls.texts[f],
             SetForLanguage(f, l, t)
      PROVE  NacpInv'
  <2>1. t \in Text
    BY TextsSupplied DEF Text
  <2>. QED
    BY <1>0, <1>2, <2>1, SetterInv DEF SetForLanguage, TextsOK
<1>3. ASSUME NEW f \in DOMAIN NacpCalls.fields, NEW v \in NacpCalls.fields[f], SetNacpField(f, v) PROVE NacpInv'
  <2>1. f # "names" /\ f # "authors"
    BY TextsSupplied
  <2>. QED
    BY <1>0, <1>3, <2>1, SetterInv DEF SetNacpField, TextsOK
<1>4. CASE BuildNacp
  <2>1. nb' = nb /\ nacpResult' = nacpResult /\ nacpPhase = "set" /\ nacpResult = <<>>
    BY <1>4 DEF BuildNacp, NacpInv
  <2>2. CASE NacpError # "none"
    <3>1. nacpPhase' \notin {"built", "open"}
      BY <1>4, <2>2 DEF BuildNacp, NacpError
    <3>. QED
      BY <2>1, <3>1, NacpElsewhere
  <2>3. CASE NacpError = "none"
    <3>1. nacpPhase' = "built" /\ nacp' = NacpOf
      BY <1>4, <2>3 DEF BuildNacp
    <3>. QED
      BY <2>1, <3>1 DEF NacpInv, TextsOK, TitleShown, NacpOf
  <2>. QED
    BY <2>2, <2>3
<1>5. CASE BuildNacpOverflows
  BY <1>5, NacpElsewhere DEF BuildNacpOverflows, NacpInv
<1>6. ASSUME NEW buffer \in NacpBuffers, OpenNacp(buffer) PROVE NacpInv'
  BY <1>6, NacpElsewhere DEF OpenNacp, NacpInv
<1>7. ASSUME NEW k \in DOMAIN SetLanguage, AskNacp(SetLanguage[k], LanguageEntryFor(k)) PROVE NacpInv'
  BY <1>7, AskInv
<1>8. "language_entry" \notin ToSet(SetLanguage) /\ "display_version" \notin ToSet(SetLanguage)
  <2>1. \A k \in DOMAIN SetLanguage : SetLanguage[k] # "language_entry" /\ SetLanguage[k] # "display_version"
    BY DEF SetLanguage
  <2>. QED
    BY <2>1 DEF ToSet
<1>9. ASSUME NEW i \in 0..16, AskNacp("language_entry", LanguageEntry(i)) PROVE NacpInv'
  BY <1>8, <1>9, AskInv
<1>10. CASE AskNacp("display_version", UpToNul(nacp.display_version))
  BY <1>8, <1>10, AskInv
<1>11. CASE UNCHANGED nacpVars
  BY <1>11, NacpStays DEF nacpVars
<1>. QED
  BY <1>1, <1>2, <1>3, <1>4, <1>5, <1>6, <1>7, <1>9, <1>10, <1>11 DEF NacpNext

\* For every sequence of setter calls and questions, and every width of the fields:
\* the title shown for a language is the one last set for it or for all.
THEOREM NacpTitleShown == NacpSpec => []TitleShown
<1>1. NacpInv => TitleShown
  BY DEF NacpInv
<1>. QED
  BY <1>1, NacpInitInv, NacpNextInv, PTL DEF NacpSpec

(***************************************************************************)
(* CNMT                                                                    *)
(***************************************************************************)
ContentRecord == [hash : Int \X Int, size : Nat, content_type : ContentTypes]

\* What add_content lets through: one record for a type, of a size that is kept whole.
RecordsOK ==
  /\ cb # <<>> /\ cb \in [title_id : Nat, title_version : Nat, records : Seq(ContentRecord)]
  /\ \A i, j \in DOMAIN cb.records : cb.records[i].content_type = cb.records[j].content_type => i = j
  /\ \A i \in DOMAIN cb.records : cb.records[i].size < SIZE_LIMIT

\* The answers are right because the buffer read is still what build wrote.
CnmtInv ==
  /\ cnmtPhase \in {"new", "set", "built", "foreign"} \union AddContentErrors
  /\ cnmtPhase \in {"new", "foreign"} => cb = <<>>
  /\ cnmtPhase \in {"set", "built"} => RecordsOK
  /\ cnmtPhase = "built" => cnmt = CnmtOf /\ cnmtOpen \in {"no", "yes"}
  /\ cnmtPhase \notin {"built", "foreign"} => cnmtOpen = "no"
  /\ cnmtOpen = "no" => cnmtResult = [kind |-> "none"]

\* Sorting keeps every record, at one place.
LEMMA RecordsSorted ==
  ASSUME RecordsOK
  PROVE  /\ Len(cb.records) \in Nat
         /\ \A k \in 1..Len(cb.records) : \E i \in DOMAIN cb.records : SortedRecord(k) = cb.records[i]
         /\ \A i \in DOMAIN cb.records : \E k \in 1..Len(cb.records) : SortedRecord(k) = cb.records[i]
<1>. DEFINE S == DOMAIN cb.records
            n == Len(cb.records)
            type(i) == cb.records[i].content_type
            R == {p \in S \X S : TypeBefore(p[1], p[2])}
            rank(i) == Cardinality({j \in S : TypeBefore(j, i)})
            place(k) == CHOOSE i \in S : rank(i) = k - 1
<1>1. n \in Nat /\ S = 1..n
  BY LenProperties DEF RecordsOK
<1>2. \A i \in S : i \in Int /\ type(i) \in Int
  <2>. SUFFICES ASSUME NEW i \in S PROVE i \in Int /\ type(i) \in Int
    OBVIOUS
  <2>1. cb.records[i] \in ContentRecord
    BY <1>1, ElementOfSeq DEF RecordsOK
  <2>. QED
    BY <1>1, <2>1 DEF ContentRecord, ContentTypes
<1>3. IsFiniteSet(S) /\ Cardinality(S) = n
  <2>. HIDE DEF S, n, R, rank, place, type
  <2>1. IsFiniteSet(1..n) /\ Cardinality(1..n) = IF 1 > n THEN 0 ELSE n - 1 + 1
    <3>1. n \in Nat
      BY <1>1
    <3>. QED
      BY ONLY <3>1, FS_Interval
  <2>. QED
    BY <1>1, <2>1
<1>4. \A i, j \in S : TypeBefore(i, j) <=> type(i) < type(j) \/ (type(i) = type(j) /\ i < j)
  BY DEF TypeBefore
<1>5. \A i, j \in S : <<i, j>> \in R <=> TypeBefore(i, j)
  OBVIOUS
<1>6. StrictTotalOrder(S, R)
  <2>. HIDE DEF S, R, type
  <2>. QED
    BY <1>2, <1>4, <1>5 DEF StrictTotalOrder
<1>7. \A i \in S : Below(S, R, i) = {j \in S : TypeBefore(j, i)}
  BY <1>5 DEF Below
<1>. HIDE DEF S, R, type
<1>8. /\ \A i \in S : rank(i) \in 0..(n - 1)
      /\ \A i, j \in S : <<i, j>> \in R => rank(i) < rank(j)
      /\ \A k \in 1..n : \E i \in S : rank(i) = k - 1
  <2>1. /\ \A i \in S : Cardinality(Below(S, R, i)) \in 0..(n - 1)
        /\ \A i, j \in S : <<i, j>> \in R => Cardinality(Below(S, R, i)) < Cardinality(Below(S, R, j))
        /\ \A k \in 1..n : \E i \in S : Cardinality(Below(S, R, i)) = k - 1
    BY <1>3, <1>6, Ranking
  <2>. QED
    BY <1>7, <2>1
<1>9. \A k : SortedRecord(k) = cb.records[place(k)]
  BY DEF SortedRecord, S
<1>. HIDE DEF n, rank
<1>10. \A k \in 1..n : place(k) \in S /\ rank(place(k)) = k - 1
  <2>. SUFFICES ASSUME NEW k \in 1..n PROVE place(k) \in S /\ rank(place(k)) = k - 1
    OBVIOUS
  <2>1. \E i \in S : rank(i) = k - 1
    BY <1>8
  <2>. QED
    BY <2>1
<1>. HIDE DEF place
<1>11. ASSUME NEW i \in S PROVE \E k \in 1..n : place(k) = i
  <2>. DEFINE k == rank(i) + 1
              j == place(k)
  <2>1. k \in 1..n /\ rank(i) = k - 1
    BY <1>1, <1>8
  <2>2. j \in S /\ rank(j) = k - 1
    BY <1>10, <2>1
  <2>. HIDE DEF k, j
  <2>3. ~(rank(i) < rank(j)) /\ ~(rank(j) < rank(i))
    BY <1>8, <2>1, <2>2
  <2>4. i = j
    BY <1>6, <1>8, <2>2, <2>3 DEF StrictTotalOrder
  <2>. QED
    BY <2>1, <2>4 DEF j
<1>. QED
  BY <1>1, <1>9, <1>10, <1>11 DEF S, n

LEMMA SortedRecordIs ==
  ASSUME RecordsOK, NEW k \in 1..Len(cb.records)
  PROVE  /\ SortedRecord(k) \in ContentRecord /\ SortedRecord(k).size < SIZE_LIMIT
         /\ RawRecord(SortedRecord(k)) \in Seq(Int) /\ Len(RawRecord(SortedRecord(k))) = CNMT_RECORD
<1>. DEFINE r == SortedRecord(k)
<1>1. PICK i \in DOMAIN cb.records : r = cb.records[i]
  BY RecordsSorted
<1>2. r \in ContentRecord /\ r.size < SIZE_LIMIT
  <2>1. cb.records[i] \in ContentRecord
    BY ElementOfSeq, LenProperties DEF RecordsOK
  <2>. QED
    BY <1>1, <2>1 DEF RecordsOK
<1>. HIDE DEF r
<1>3. r.hash[1] \in Int /\ r.hash[2] \in Int /\ r.size \in Nat /\ r.content_type \in Int
  BY <1>2 DEF ContentRecord, ContentTypes
<1>4. r.size % SIZE_LIMIT \in Int
  BY <1>3, CnmtUnits
<1>5. RawRecord(r) \in Seq(Int) /\ Len(RawRecord(r)) = CNMT_RECORD
  BY <1>3, <1>4 DEF RawRecord, CNMT_RECORD
<1>. QED
  BY <1>2, <1>5 DEF r

\* Header, extended header and records lie where the reader looks for them.
LEMMA CnmtBytes ==
  ASSUME RecordsOK
  PROVE  /\ CnmtOf \in Seq(Int) /\ RawRecords \in Seq(Int)
         /\ Len(RawRecords) = Len(cb.records) * CNMT_RECORD
         /\ Len(CnmtOf) = CNMT_HEADER + CNMT_EXTENDED + Len(cb.records) * CNMT_RECORD + 1
         /\ CnmtOf[3] = Application /\ CnmtOf[4] = CNMT_EXTENDED /\ CnmtOf[5] = Len(cb.records)
         /\ LiesAt(CnmtOf, CNMT_HEADER + CNMT_EXTENDED, RawRecords)
<1>. DEFINE n == Len(cb.records)
            head == <<cb.title_id, cb.title_version, Application, CNMT_EXTENDED, n, 0>>
            patch == (cb.title_id + PATCH_OFFSET) % CNMT_U64
            ext == <<patch, 0, 0>>
            zero == <<0>>
            h == head \o ext
            t == h \o RawRecords
            s == t \o zero
<1>0. n \in Nat /\ cb.title_id \in Nat /\ cb.title_version \in Nat
  BY RecordsSorted DEF RecordsOK
<1>1. RawRecords \in Seq(Int) /\ Len(RawRecords) = n * CNMT_RECORD
  <2>. DEFINE m == n * CNMT_RECORD
              unit(i) == RawRecord(SortedRecord(((i - 1) \div CNMT_RECORD) + 1))[((i - 1) % CNMT_RECORD) + 1]
  <2>1. m \in Nat /\ m = 5 * n
    BY <1>0 DEF CNMT_RECORD
  <2>2. ASSUME NEW i \in 1..m PROVE unit(i) \in Int
    <3>. DEFINE k == ((i - 1) \div CNMT_RECORD) + 1
                j == ((i - 1) % CNMT_RECORD) + 1
    <3>1. k \in 1..n /\ j \in 1..5
      <4>. HIDE DEF m, n
      <4>1. i \in Int /\ 1 =< i /\ i =< 5 * n
        BY <2>1, <2>2
      <4>. QED
        BY <1>0, <4>1 DEF CNMT_RECORD
    <3>. HIDE DEF k, j
    <3>2. RawRecord(SortedRecord(k)) \in Seq(Int) /\ Len(RawRecord(SortedRecord(k))) = 5
      BY <3>1, SortedRecordIs DEF CNMT_RECORD
    <3>3. RawRecord(SortedRecord(k))[j] \in Int
      BY <3>1, <3>2, ElementOfSeq
    <3>. QED
      BY <3>3 DEF k, j
  <2>3. RawRecords = [i \in 1..m |-> unit(i)]
    BY DEF RawRecords
  <2>. HIDE DEF m, unit
  <2>4. RawRecords \in Seq(Int) /\ Len(RawRecords) = m
    BY <2>1, <2>2, <2>3
  <2>. QED
    BY <2>4 DEF m
<1>2. patch \in Int
  BY <1>0, CnmtUnits
<1>. HIDE DEF n, patch
<1>3. head \in Seq(Int) /\ Len(head) = 6 /\ head[3] = Application /\ head[4] = CNMT_EXTENDED /\ head[5] = n
  BY <1>0 DEF Application, CNMT_EXTENDED
<1>4. ext \in Seq(Int) /\ Len(ext) = 3 /\ zero \in Seq(Int) /\ Len(zero) = 1
  BY <1>2
<1>5. CnmtOf = ((head \o ext) \o RawRecords) \o zero
  BY DEF CnmtOf, patch, n
<1>. HIDE DEF head, ext, zero
<1>6. h \in Seq(Int) /\ Len(h) = 9 /\ LiesAt(h, 0, head)
  <2>1. head \in Seq(Int) /\ ext \in Seq(Int)
    BY <1>3, <1>4
  <2>2. h \in Seq(Int) /\ Len(h) = Len(head) + Len(ext) /\ LiesAt(h, 0, head)
    BY <2>1, LiesAppended, Zenon
  <2>. QED
    BY <1>3, <1>4, <2>2
<1>. HIDE DEF h
<1>7. t \in Seq(Int) /\ Len(t) = 9 + Len(RawRecords) /\ LiesAt(t, 0, h) /\ LiesAt(t, 9, RawRecords)
  BY <1>1, <1>6, LiesAppended
<1>. HIDE DEF t
<1>8. s \in Seq(Int) /\ Len(s) = (9 + Len(RawRecords)) + 1 /\ LiesAt(s, 0, t)
  <2>1. t \in Seq(Int) /\ zero \in Seq(Int)
    BY <1>4, <1>7
  <2>2. s \in Seq(Int) /\ Len(s) = Len(t) + Len(zero) /\ LiesAt(s, 0, t)
    BY <2>1, LiesAppended, Zenon
  <2>. QED
    BY <1>4, <1>7, <2>2
<1>9. CnmtOf = s
  BY <1>5 DEF t, h
<1>. HIDE DEF s
<1>10. LiesAt(s, 9, RawRecords)
  BY <1>1, <1>7, <1>8, LiesInPrefix
<1>11. LiesAt(s, 0, head)
  <2>1. LiesAt(t, 0, head)
    BY <1>3, <1>6, <1>7, LiesInPrefix
  <2>. QED
    BY <1>3, <1>7, <1>8, <2>1, LiesInPrefix
<1>12. s[3] = head[3] /\ s[4] = head[4] /\ s[5] = head[5]
  <2>1. \A i \in 1..6 : s[0 + i] = head[i]
    BY <1>3, <1>11 DEF LiesAt
  <2>2. 0 + 3 = 3 /\ 0 + 4 = 4 /\ 0 + 5 = 5 /\ 3 \in 1..6 /\ 4 \in 1..6 /\ 5 \in 1..6
    OBVIOUS
  <2>. QED
    BY <2>1, <2>2
<1>. QED
  BY <1>0, <1>1, <1>3, <1>8, <1>9, <1>10, <1>12 DEF n, CNMT_HEADER, CNMT_EXTENDED

\* The k-th slice of the buffer is the k-th record in order of type.
LEMMA RecordAtIs ==
  ASSUME RecordsOK, cnmt = CnmtOf, NEW k \in 1..Len(cb.records)
  PROVE  RecordAt(k) = RawRecord(SortedRecord(k))
<1>. DEFINE n == Len(cb.records)
            u == RawRecord(SortedRecord(k))
            o == (k - 1) * CNMT_RECORD
            base == CNMT_HEADER + CNMT_EXTENDED
<1>1. n \in Nat /\ k \in 1..n /\ n \in Int
  BY RecordsSorted
<1>2. u \in Seq(Int) /\ Len(u) = 5
  BY SortedRecordIs DEF CNMT_RECORD
<1>. HIDE DEF n
<1>3. o \in Nat /\ o + 5 =< n * 5 /\ \A i \in 1..5 : /\ o + i \in 1..(n * 5)
                                                     /\ (((o + i) - 1) \div CNMT_RECORD) + 1 = k
                                                     /\ (((o + i) - 1) % CNMT_RECORD) + 1 = i
  BY <1>1 DEF CNMT_RECORD
<1>4. LiesAt(RawRecords, o, u)
  <2>1. Len(RawRecords) = n * 5
    BY CnmtBytes DEF n, CNMT_RECORD
  <2>2. ASSUME NEW i \in 1..5 PROVE RawRecords[o + i] = u[i]
    <3>1. o + i \in 1..(Len(cb.records) * CNMT_RECORD)
      BY <1>3 DEF n, CNMT_RECORD
    <3>. HIDE DEF o
    <3>2. RawRecords[o + i] = RawRecord(SortedRecord((((o + i) - 1) \div CNMT_RECORD) + 1))[(((o + i) - 1) % CNMT_RECORD) + 1]
      BY <3>1 DEF RawRecords
    <3>. QED
      BY <1>3, <3>2
  <2>. HIDE DEF u, o
  <2>. QED
    BY <1>2, <1>3, <2>1, <2>2 DEF LiesAt
<1>5. LiesAt(CnmtOf, base + o, u)
  <2>. HIDE DEF u, o
  <2>. QED
    BY <1>2, <1>4, CnmtBytes, LiesTransitive
<1>6. SubSeq(CnmtOf, (base + o) + 1, (base + o) + Len(u)) = u
  <2>. HIDE DEF u, o
  <2>. QED
    BY <1>2, <1>5, CnmtBytes, SliceIs
<1>7. ExtendedSize(cnmt) = CNMT_EXTENDED
  BY CnmtBytes DEF ExtendedSize
<1>8. RecordAt(k) = SubSeq(CnmtOf, CNMT_HEADER + CNMT_EXTENDED + (k - 1) * CNMT_RECORD + 1, CNMT_HEADER + CNMT_EXTENDED + k * CNMT_RECORD)
  BY <1>7 DEF RecordAt
<1>9. /\ CNMT_HEADER + CNMT_EXTENDED + (k - 1) * CNMT_RECORD + 1 = (base + o) + 1
      /\ CNMT_HEADER + CNMT_EXTENDED + k * CNMT_RECORD = (base + o) + Len(u)
  <2>1. Len(u) = 5
    BY <1>2
  <2>. HIDE DEF u
  <2>. QED
    BY <1>1, <2>1 DEF CNMT_HEADER, CNMT_EXTENDED, CNMT_RECORD
<1>. QED
  BY <1>6, <1>8, <1>9

LEMMA BuiltCnmtAccepted ==
  ASSUME RecordsOK, cnmt = CnmtOf
  PROVE  CnmtError(cnmt) = "none"
<1>1. Len(cb.records) \in Nat /\ Len(cnmt) = 6 + 3 + Len(cb.records) * 5 + 1 /\ cnmt[4] = 3 /\ cnmt[5] = Len(cb.records)
  BY CnmtBytes, RecordsSorted DEF CNMT_HEADER, CNMT_EXTENDED, CNMT_RECORD
<1>. QED
  BY <1>1 DEF CnmtError, CNMT_HEADER, CNMT_RECORD, ExtendedSize, RecordCount

\* Each of the four units that are kept of a record.
KeptOf(r) == <<r.hash[1], r.hash[2], r.hash[1], r.size>>

\* What a search for a type finds in the buffer is what was recorded under it.
LEMMA ContentComesBack ==
  ASSUME RecordsOK, cnmt = CnmtOf, NEW type \in ContentTypes
  PROVE  LET found == {k \in 1..RecordCount(cnmt) : ContentTypeOf(k) = type}
             first == CHOOSE k \in found : \A j \in found : k =< j
         IN  (IF found = {} THEN None ELSE SubSeq(RecordAt(first), 1, 4)) = RecordsKept[type]
<1>. DEFINE n == Len(cb.records)
            found == {k \in 1..RecordCount(cnmt) : ContentTypeOf(k) = type}
            first == CHOOSE k \in found : \A j \in found : k =< j
            S == DOMAIN cb.records
            has(i) == cb.records[i].content_type = type
            kept == CHOOSE i \in DOMAIN cb.records : cb.records[i].content_type = type
<1>1. RecordCount(cnmt) = n /\ n \in Nat
  BY CnmtBytes, RecordsSorted DEF RecordCount
<1>2. \A k \in 1..n : ContentTypeOf(k) = SortedRecord(k).content_type
  <2>. SUFFICES ASSUME NEW k \in 1..n PROVE ContentTypeOf(k) = SortedRecord(k).content_type
    OBVIOUS
  <2>1. RecordAt(k)[5] = SortedRecord(k).content_type
    BY RecordAtIs DEF RawRecord
  <2>2. SortedRecord(k).content_type \in ContentTypes
    BY SortedRecordIs DEF ContentRecord
  <2>. QED
    BY <2>1, <2>2 DEF ContentTypeOf
<1>3. RecordsKept[type] = IF \E i \in S : has(i) THEN KeptOf(cb.records[kept]) ELSE None
  BY DEF RecordsKept, RecordsOK, KeptOf
<1>4. found = {k \in 1..n : SortedRecord(k).content_type = type}
  BY <1>1, <1>2
<1>5. CASE ~\E i \in S : has(i)
  <2>1. found = {}
    BY <1>4, <1>5, RecordsSorted, ZenonT(60)
  <2>. QED
    BY <1>3, <1>5, <2>1
<1>6. CASE \E i \in S : has(i)
  <2>1. kept \in S /\ has(kept)
    BY <1>6
  <2>. HIDE DEF kept
  <2>2. \E k \in 1..n : SortedRecord(k) = cb.records[kept]
    BY <2>1, RecordsSorted
  <2>3. found # {} /\ found \in SUBSET Nat
    BY <1>1, <1>4, <2>1, <2>2
  <2>4. first \in found
    <3>1. Min(found) \in found
      BY <2>3, MinIs
    <3>. QED
      BY <3>1 DEF Min
  <2>. HIDE DEF first
  <2>5. first \in 1..n /\ SortedRecord(first).content_type = type
    BY <1>4, <2>4
  <2>6. PICK i \in S : SortedRecord(first) = cb.records[i]
    BY <2>5, RecordsSorted
  <2>7. SortedRecord(first) = cb.records[kept]
    BY <2>1, <2>5, <2>6 DEF RecordsOK
  <2>8. SubSeq(RecordAt(first), 1, 4) = KeptOf(cb.records[kept])
    <3>. DEFINE r == cb.records[kept]
    <3>1. RecordAt(first) = RawRecord(r)
      BY <2>5, <2>7, RecordAtIs
    <3>2. r \in ContentRecord /\ r.size < SIZE_LIMIT
      BY <2>5, <2>7, SortedRecordIs
    <3>. HIDE DEF r
    <3>3. r.size \in Nat
      BY <3>2 DEF ContentRecord
    <3>4. r.size % SIZE_LIMIT = r.size
      <4>1. r.size \in 0..(SIZE_LIMIT - 1) /\ 0 * SIZE_LIMIT + r.size = r.size /\ SIZE_LIMIT \in Nat \ {0} /\ 0 \in Nat
        BY <3>2, <3>3, CnmtUnits
      <4>. QED
        BY <4>1, DivModUnique
    <3>5. SubSeq(<<r.hash[1], r.hash[2], r.hash[1], r.size, r.content_type>>, 1, 4) = <<r.hash[1], r.hash[2], r.hash[1], r.size>>
      <4>. DEFINE whole == <<r.hash[1], r.hash[2], r.hash[1], r.size, r.content_type>>
                  part == <<r.hash[1], r.hash[2], r.hash[1], r.size>>
      <4>1. r.hash[1] \in Int /\ r.hash[2] \in Int /\ r.size \in Int /\ r.content_type \in Int
        BY <3>2 DEF ContentRecord, ContentTypes
      <4>2. whole \in Seq(Int) /\ part \in Seq(Int) /\ Len(part) = 4 /\ Len(whole) = 5
        BY <4>1
      <4>3. LiesAt(whole, 0, part)
        BY <4>2 DEF LiesAt
      <4>. HIDE DEF whole, part
      <4>4. SubSeq(whole, 0 + 1, 0 + Len(part)) = part
        BY <4>2, <4>3, SliceIs, Zenon
      <4>5. 0 + 1 = 1 /\ 0 + Len(part) = 4
        BY <4>2
      <4>6. SubSeq(whole, 1, 4) = part
        BY <4>4, <4>5
      <4>. QED
        BY <4>6 DEF whole, part
    <3>. QED
      BY <3>1, <3>4, <3>5 DEF RawRecord, KeptOf, r
  <2>. QED
    BY <1>3, <1>6, <2>3, <2>8 DEF first
<1>. QED
  BY <1>5, <1>6

(***************************************************************************)
(* The CNMT as a container of records by type                              *)
(***************************************************************************)
StateOf ==
  IF cnmtPhase = "built" THEN "sealed"
  ELSE IF cnmtPhase \in AddContentErrors THEN "failed"
  ELSE IF cnmtPhase = "foreign" THEN "foreign" ELSE "open"

AnswerOf ==
  IF cnmtResult.kind = "content" THEN cnmtResult.answer
  ELSE IF cnmtResult.kind = "extended" THEN <<"aside">>
  ELSE IF cnmtOpen \in {"no", "yes"} THEN <<"none">> ELSE <<"unread">>

\* The abstract steps, in terms of what is kept, the state and the answer.
LEMMA Invisible ==
  ASSUME RecordsKept' = RecordsKept, StateOf' = StateOf, AnswerOf' = AnswerOf
  PROVE  UNCHANGED CnmtAbstract!cVars
  BY DEF CnmtAbstract!cVars, StateOf, AnswerOf

LEMMA Steps ==
  /\ StateOf = "open" /\ StateOf' \in {"sealed", "failed"} /\ RecordsKept' = RecordsKept /\ AnswerOf' = AnswerOf
       => CnmtAbstract!Next
  /\ StateOf = "open" /\ StateOf' = "foreign" /\ RecordsKept' = RecordsKept => CnmtAbstract!Next
  /\ StateOf = "foreign" /\ RecordsKept' = RecordsKept /\ StateOf' = StateOf => CnmtAbstract!Next
  /\ StateOf = "sealed" /\ AnswerOf' = <<"aside">> /\ RecordsKept' = RecordsKept /\ StateOf' = StateOf
       => CnmtAbstract!Next
  /\ \A t \in ContentTypes :
       StateOf = "sealed" /\ AnswerOf' = <<t, RecordsKept[t]>> /\ RecordsKept' = RecordsKept /\ StateOf' = StateOf
         => CnmtAbstract!Next
<1>1. StateOf = "open" /\ StateOf' = "sealed" /\ RecordsKept' = RecordsKept /\ AnswerOf' = AnswerOf => CnmtAbstract!Seal
  BY DEF CnmtAbstract!Seal, StateOf, AnswerOf
<1>2. StateOf = "open" /\ StateOf' = "failed" /\ RecordsKept' = RecordsKept /\ AnswerOf' = AnswerOf => CnmtAbstract!Fail
  BY DEF CnmtAbstract!Fail, StateOf, AnswerOf
<1>3. StateOf = "open" /\ StateOf' = "foreign" /\ RecordsKept' = RecordsKept => CnmtAbstract!Open
  BY DEF CnmtAbstract!Open, StateOf
<1>4. StateOf = "foreign" /\ RecordsKept' = RecordsKept /\ StateOf' = StateOf => CnmtAbstract!GetAny
  BY DEF CnmtAbstract!GetAny, StateOf
<1>5. StateOf = "sealed" /\ AnswerOf' = <<"aside">> /\ RecordsKept' = RecordsKept /\ StateOf' = StateOf => CnmtAbstract!Aside
  BY DEF CnmtAbstract!Aside, StateOf, AnswerOf
<1>6. \A t \in ContentTypes :
        StateOf = "sealed" /\ AnswerOf' = <<t, RecordsKept[t]>> /\ RecordsKept' = RecordsKept /\ StateOf' = StateOf
          => CnmtAbstract!Get(t)
  BY DEF CnmtAbstract!Get, StateOf, AnswerOf
<1>. QED
  BY <1>1, <1>2, <1>3, <1>4, <1>5, <1>6 DEF CnmtAbstract!Next

LEMMA PutStep ==
  ASSUME NEW t \in ContentTypes, StateOf = "open", StateOf' = "open", AnswerOf' = AnswerOf,
         DOMAIN RecordsKept' = ContentTypes, \A j \in ContentTypes \ {t} : RecordsKept'[j] = RecordsKept[j]
  PROVE  CnmtAbstract!Next
<1>1. CnmtAbstract!Put(t)
  BY DEF CnmtAbstract!Put, StateOf, AnswerOf
<1>. QED
  BY <1>1 DEF CnmtAbstract!Next

\* What is kept depends on the builder alone.
LEMMA SameKept == cb' = cb => RecordsKept' = RecordsKept
<1>. SUFFICES ASSUME cb' = cb PROVE RecordsKept' = RecordsKept
  OBVIOUS
<1>. QED
  BY DEF RecordsKept

\* So does what build would write.
LEMMA SameBytes == cb' = cb => CnmtOf' = CnmtOf /\ RecordsOK' = RecordsOK
<1>. SUFFICES ASSUME cb' = cb PROVE CnmtOf' = CnmtOf /\ RecordsOK' = RecordsOK
  OBVIOUS
<1>1. CnmtOf' = CnmtOf
  BY DEF CnmtOf, RawRecords, SortedRecord, TypeBefore
<1>2. RecordsOK' = RecordsOK
  BY DEF RecordsOK
<1>. QED
  BY <1>1, <1>2

\* Nothing is kept without records.
LEMMA NothingKept ==
  ASSUME cb = <<>> \/ cb.records = <<>>
  PROVE  RecordsKept = [t \in ContentTypes |-> None]
<1>1. ~(cb # <<>> /\ \E i \in DOMAIN cb.records : TRUE)
  OBVIOUS
<1>. QED
  BY <1>1 DEF RecordsKept

LEMMA CnmtInitInv == CnmtInit => CnmtInv
  BY DEF CnmtInit, CnmtInv, AddContentErrors

LEMMA NewCnmtInv ==
  ASSUME CnmtInv, NEW t \in Titles, NewCnmt(t)
  PROVE  CnmtInv' /\ RecordsKept' = RecordsKept
<1>1. /\ cnmtPhase = "new" /\ cnmtPhase' = "set" /\ cb' = [title_id |-> t, title_version |-> 0, records |-> <<>>]
      /\ cnmt' = cnmt /\ cnmtOpen' = cnmtOpen /\ cnmtResult' = cnmtResult
  BY DEF NewCnmt
<1>2. cb' # <<>>
  <2>1. "title_id" \in DOMAIN cb'
    BY <1>1
  <2>2. DOMAIN <<>> = {}
    OBVIOUS
  <2>. QED
    BY <2>1, <2>2
<1>3. cb' \in [title_id : Nat, title_version : Nat, records : Seq(ContentRecord)] /\ cb'.records = <<>>
  BY <1>1, CnmtUnits
<1>4. RecordsOK'
  BY <1>2, <1>3 DEF RecordsOK
<1>5. RecordsKept = [k \in ContentTypes |-> None]
  BY <1>1, NothingKept DEF CnmtInv
<1>6. RecordsKept' = [k \in ContentTypes |-> None]
  <2>1. ~(cb' # <<>> /\ \E i \in DOMAIN cb'.records : TRUE)
    BY <1>3
  <2>. QED
    BY <2>1 DEF RecordsKept
<1>. QED
  BY <1>1, <1>3, <1>4, <1>5, <1>6 DEF CnmtInv, AddContentErrors

LEMMA TitleVersionInv ==
  ASSUME CnmtInv, NEW v \in Nat, TitleVersion(v)
  PROVE  CnmtInv' /\ RecordsKept' = RecordsKept
<1>1. /\ cnmtPhase = "set" /\ cnmtPhase' = "set" /\ cb' = [cb EXCEPT !.title_version = v]
      /\ cnmt' = cnmt /\ cnmtOpen' = cnmtOpen /\ cnmtResult' = cnmtResult
  BY DEF TitleVersion
<1>2. RecordsOK
  BY <1>1 DEF CnmtInv
<1>3. /\ cb' \in [title_id : Nat, title_version : Nat, records : Seq(ContentRecord)]
      /\ cb'.records = cb.records
  BY <1>1, <1>2 DEF RecordsOK
<1>4. cb' # <<>>
  <2>1. "title_id" \in DOMAIN cb'
    BY <1>3
  <2>2. DOMAIN <<>> = {}
    OBVIOUS
  <2>. QED
    BY <2>1, <2>2
<1>5. RecordsOK'
  BY <1>2, <1>3, <1>4 DEF RecordsOK
<1>6. RecordsKept' = RecordsKept
  <2>1. cb # <<>>
    BY <1>2 DEF RecordsOK
  <2>. QED
    BY <1>3, <1>4, <2>1 DEF RecordsKept
<1>. QED
  BY <1>1, <1>5, <1>6 DEF CnmtInv

\* add_content: a type that is new, put at the end.
LEMMA AddedRecord ==
  ASSUME RecordsOK, NEW r \in Contents, AddContentError(r) = "none", cb' = [cb EXCEPT !.records = Append(@, r)]
  PROVE  /\ RecordsOK'
         /\ r.content_type \in ContentTypes
         /\ \A j \in ContentTypes \ {r.content_type} : RecordsKept'[j] = RecordsKept[j]
<1>. DEFINE old == cb.records
            new == cb'.records
            n == Len(cb.records)
<1>1. r \in ContentRecord /\ r.content_type \in ContentTypes /\ r.size < SIZE_LIMIT
  <2>1. r \in ContentRecord
    BY RecordsSupplied DEF ContentRecord
  <2>2. r.size \in Nat /\ ~(r.size > SIZE_LIMIT - 1) /\ r.content_type \in ContentTypes
    BY <2>1 DEF ContentRecord, AddContentError
  <2>. QED
    BY <2>1, <2>2, CnmtUnits
<1>2. \A i \in DOMAIN old : old[i].content_type # r.content_type
  BY DEF AddContentError
<1>3. n \in Nat /\ DOMAIN old = 1..n /\ old \in Seq(ContentRecord)
  BY LenProperties DEF RecordsOK
<1>4. new = Append(old, r) /\ cb' \in [title_id : Nat, title_version : Nat, records : Seq(ContentRecord)]
  <2>1. Append(old, r) \in Seq(ContentRecord)
    BY <1>1, <1>3
  <2>. QED
    BY <2>1 DEF RecordsOK
<1>5. cb # <<>> /\ cb' # <<>>
  <2>1. "title_id" \in DOMAIN cb' /\ cb # <<>>
    BY <1>4 DEF RecordsOK
  <2>2. DOMAIN <<>> = {}
    OBVIOUS
  <2>. QED
    BY <2>1, <2>2
<1>6. /\ \A i, j \in DOMAIN old : old[i].content_type = old[j].content_type => i = j
      /\ \A i \in DOMAIN old : old[i].size < SIZE_LIMIT
  BY DEF RecordsOK
<1>. HIDE DEF old, new, n
<1>7. DOMAIN new = 1..(n + 1) /\ new[n + 1] = r /\ \A i \in DOMAIN old : new[i] = old[i] /\ i \in 1..n
  BY <1>3, <1>4 DEF n, old
<1>8. RecordsOK'
  <2>1. \A i, j \in DOMAIN new : new[i].content_type = new[j].content_type => i = j
    BY <1>2, <1>3, <1>6, <1>7
  <2>2. \A i \in DOMAIN new : new[i].size < SIZE_LIMIT
    BY <1>1, <1>3, <1>6, <1>7
  <2>. QED
    BY <1>4, <1>5, <2>1, <2>2 DEF RecordsOK, new
<1>9. ASSUME NEW t \in ContentTypes \ {r.content_type} PROVE RecordsKept'[t] = RecordsKept[t]
  <2>. DEFINE before == CHOOSE i \in DOMAIN old : old[i].content_type = t
              after == CHOOSE i \in DOMAIN new : new[i].content_type = t
  <2>1. RecordsKept[t] = IF \E i \in DOMAIN old : old[i].content_type = t THEN KeptOf(old[before]) ELSE None
    BY <1>5, <1>9 DEF RecordsKept, KeptOf, old
  <2>2. RecordsKept'[t] = IF \E i \in DOMAIN new : new[i].content_type = t THEN KeptOf(new[after]) ELSE None
    <3>1. RecordsKept' =
            [x \in ContentTypes |->
               IF cb' # <<>> /\ \E i \in DOMAIN cb'.records : cb'.records[i].content_type = x
               THEN KeptOf(cb'.records[CHOOSE i \in DOMAIN cb'.records : cb'.records[i].content_type = x])
               ELSE None]
      BY DEF RecordsKept, KeptOf
    <3>2. RecordsKept'[t] =
            IF cb' # <<>> /\ \E i \in DOMAIN cb'.records : cb'.records[i].content_type = t
            THEN KeptOf(cb'.records[CHOOSE i \in DOMAIN cb'.records : cb'.records[i].content_type = t])
            ELSE None
      BY ONLY <1>9, <3>1
    <3>. QED
      BY ONLY <1>5, <3>2 DEF new
  <2>3. \A i \in DOMAIN new : new[i].content_type = t => i \in DOMAIN old /\ old[i].content_type = t
    BY <1>3, <1>7, <1>9
  <2>4. \A i \in DOMAIN old : old[i].content_type = t => i \in DOMAIN new /\ new[i].content_type = t
    BY <1>3, <1>7
  <2>5. CASE \E i \in DOMAIN old : old[i].content_type = t
    <3>1. before \in DOMAIN old /\ old[before].content_type = t
      BY <2>5
    <3>2. \E i \in DOMAIN new : new[i].content_type = t
      BY <2>4, <3>1
    <3>3. after \in DOMAIN new /\ new[after].content_type = t
      BY <3>2
    <3>. HIDE DEF before, after
    <3>4. after \in DOMAIN old /\ old[after].content_type = t /\ new[after] = old[after]
      BY <1>7, <2>3, <3>3
    <3>5. after = before
      BY <1>6, <3>1, <3>4
    <3>. QED
      BY <2>1, <2>2, <2>5, <3>2, <3>4, <3>5
  <2>6. CASE ~\E i \in DOMAIN old : old[i].content_type = t
    <3>1. ~\E i \in DOMAIN new : new[i].content_type = t
      BY <2>3, <2>6
    <3>. QED
      BY <2>1, <2>2, <2>6, <3>1
  <2>. QED
    BY <2>5, <2>6
<1>. QED
  BY <1>1, <1>8, <1>9

\* add_content either puts one record or ends the building.
LEMMA AddContentStep ==
  ASSUME CnmtInv, NEW r \in Contents, AddContent(r)
  PROVE  CnmtInv' /\ CnmtAbstract!Next
<1>1. /\ cnmtPhase = "set" /\ cnmt' = cnmt /\ cnmtOpen' = cnmtOpen /\ cnmtResult' = cnmtResult
      /\ RecordsOK /\ cnmtOpen = "no" /\ cnmtResult = [kind |-> "none"]
  BY DEF AddContent, CnmtInv
<1>2. AnswerOf' = AnswerOf
  BY <1>1 DEF AnswerOf
<1>3. CASE AddContentError(r) = "none"
  <2>1. cb' = [cb EXCEPT !.records = Append(@, r)] /\ cnmtPhase' = "set"
    BY <1>1, <1>3 DEF AddContent
  <2>2. /\ RecordsOK'
        /\ r.content_type \in ContentTypes
        /\ \A j \in ContentTypes \ {r.content_type} : RecordsKept'[j] = RecordsKept[j]
    BY <1>1, <1>3, <2>1, AddedRecord
  <2>3. CnmtInv'
    BY <1>1, <2>1, <2>2 DEF CnmtInv
  <2>4. StateOf = "open" /\ StateOf' = "open"
    BY <1>1, <2>1 DEF StateOf, AddContentErrors
  <2>5. DOMAIN RecordsKept' = ContentTypes
    BY DEF RecordsKept
  <2>. QED
    BY <1>2, <2>2, <2>3, <2>4, <2>5, PutStep
<1>4. CASE AddContentError(r) # "none"
  <2>1. cb' = cb /\ cnmtPhase' = AddContentError(r)
    BY <1>4 DEF AddContent
  <2>2. cnmtPhase' \in AddContentErrors
    BY <1>4, <2>1 DEF AddContentError, AddContentErrors
  <2>3. CnmtInv'
    BY <1>1, <2>2 DEF CnmtInv, AddContentErrors
  <2>4. StateOf = "open" /\ StateOf' = "failed"
    BY <1>1, <2>2 DEF StateOf, AddContentErrors
  <2>5. RecordsKept' = RecordsKept
    BY <2>1, SameKept
  <2>. QED
    BY <1>2, <2>3, <2>4, <2>5, Steps
<1>. QED
  BY <1>3, <1>4

LEMMA BuildCnmtStep ==
  ASSUME CnmtInv, BuildCnmt
  PROVE  CnmtInv' /\ CnmtAbstract!Next
<1>1. /\ cnmtPhase = "set" /\ cnmtPhase' = "built" /\ cnmt' = CnmtOf /\ cb' = cb
      /\ cnmtOpen' = cnmtOpen /\ cnmtResult' = cnmtResult
      /\ RecordsOK /\ cnmtOpen = "no" /\ cnmtResult = [kind |-> "none"]
  BY DEF BuildCnmt, CnmtInv
<1>2. RecordsOK' /\ CnmtOf' = CnmtOf
  BY <1>1, SameBytes
<1>3. CnmtInv'
  BY <1>1, <1>2 DEF CnmtInv, AddContentErrors
<1>4. StateOf = "open" /\ StateOf' = "sealed" /\ AnswerOf' = AnswerOf
  BY <1>1 DEF StateOf, AnswerOf, AddContentErrors
<1>5. RecordsKept' = RecordsKept
  BY <1>1, SameKept
<1>. QED
  BY <1>3, <1>4, <1>5, Steps

\* try_from_bytes accepts every buffer that build returned.
LEMMA OpenBuiltCnmtStep ==
  ASSUME CnmtInv, OpenBuiltCnmt
  PROVE  CnmtInv' /\ UNCHANGED CnmtAbstract!cVars
<1>1. /\ cnmtPhase = "built" /\ cnmtPhase' = "built" /\ cnmt' = cnmt /\ cb' = cb /\ cnmtResult' = cnmtResult
      /\ cnmtOpen = "no" /\ cnmtOpen' = IF CnmtError(cnmt) = "none" THEN "yes" ELSE CnmtError(cnmt)
      /\ RecordsOK /\ cnmt = CnmtOf /\ cnmtResult = [kind |-> "none"]
  BY DEF OpenBuiltCnmt, OpenCnmt, CnmtInv
<1>2. cnmtOpen' = "yes"
  BY <1>1, BuiltCnmtAccepted
<1>3. RecordsOK' /\ CnmtOf' = CnmtOf
  BY <1>1, SameBytes
<1>4. CnmtInv'
  BY <1>1, <1>2, <1>3 DEF CnmtInv
<1>5. StateOf' = StateOf /\ AnswerOf' = AnswerOf
  BY <1>1, <1>2 DEF StateOf, AnswerOf
<1>6. RecordsKept' = RecordsKept
  BY <1>1, SameKept
<1>. QED
  BY <1>4, <1>5, <1>6, Invisible

LEMMA OpenForeignCnmtStep ==
  ASSUME CnmtInv, NEW s \in Cnmts, OpenForeignCnmt(s)
  PROVE  CnmtInv' /\ CnmtAbstract!Next
<1>1. /\ cnmtPhase = "new" /\ cnmtPhase' = "foreign" /\ cb' = cb /\ cb = <<>> /\ cnmtResult' = cnmtResult
      /\ cnmtOpen = "no" /\ cnmtResult = [kind |-> "none"]
  BY DEF OpenForeignCnmt, OpenCnmt, CnmtInv
<1>2. CnmtInv'
  BY <1>1 DEF CnmtInv, AddContentErrors
<1>3. StateOf = "open" /\ StateOf' = "foreign"
  BY <1>1 DEF StateOf, AddContentErrors
<1>4. RecordsKept' = RecordsKept
  BY <1>1, SameKept
<1>. QED
  BY <1>2, <1>3, <1>4, Steps

\* A question changes the last answer alone, and is put to a buffer that is open.
LEMMA Asked ==
  ASSUME CnmtInv, cnmtOpen = "yes", UNCHANGED <<cnmtPhase, cb, cnmt, cnmtOpen>>
  PROVE  /\ CnmtInv' /\ StateOf' = StateOf /\ RecordsKept' = RecordsKept
         /\ \/ cnmtPhase = "foreign" /\ StateOf = "foreign"
            \/ cnmtPhase = "built" /\ StateOf = "sealed" /\ RecordsOK /\ cnmt = CnmtOf
<1>1. cnmtPhase' = cnmtPhase /\ cb' = cb /\ cnmt' = cnmt /\ cnmtOpen' = cnmtOpen
  OBVIOUS
<1>2. cnmtPhase \in {"built", "foreign"} /\ (cnmtPhase = "built" => RecordsOK /\ cnmt = CnmtOf)
  BY DEF CnmtInv
<1>3. RecordsOK' = RecordsOK /\ CnmtOf' = CnmtOf
  BY <1>1, SameBytes
<1>4. CnmtInv'
  BY <1>1, <1>2, <1>3 DEF CnmtInv
<1>5. StateOf' = StateOf
  BY <1>1 DEF StateOf
<1>6. RecordsKept' = RecordsKept
  BY <1>1, SameKept
<1>7. cnmtPhase = "foreign" => StateOf = "foreign"
  BY DEF StateOf, AddContentErrors
<1>8. cnmtPhase = "built" => StateOf = "sealed"
  BY DEF StateOf
<1>. QED
  BY <1>2, <1>4, <1>5, <1>6, <1>7, <1>8

LEMMA FindContentStep ==
  ASSUME CnmtInv, NEW type \in ContentTypes, FindContent(type)
  PROVE  CnmtInv' /\ CnmtAbstract!Next
<1>. DEFINE found == {k \in 1..RecordCount(cnmt) : ContentTypeOf(k) = type}
            first == CHOOSE k \in found : \A j \in found : k =< j
            reply == IF found = {} THEN None ELSE SubSeq(RecordAt(first), 1, 4)
<1>1. /\ cnmtOpen = "yes" /\ UNCHANGED <<cnmtPhase, cb, cnmt, cnmtOpen>>
      /\ cnmtResult' = [kind |-> "content", answer |-> <<type, reply>>]
  BY DEF FindContent
<1>2. CASE cnmtPhase = "foreign"
  BY <1>1, <1>2, Asked, Steps
<1>3. CASE cnmtPhase = "built"
  <2>1. RecordsOK /\ cnmt = CnmtOf
    BY <1>3 DEF CnmtInv
  <2>2. reply = RecordsKept[type]
    BY <2>1, ContentComesBack
  <2>. HIDE DEF reply
  <2>3. AnswerOf' = <<type, RecordsKept[type]>>
    BY <1>1, <2>2 DEF AnswerOf
  <2>4. StateOf = "sealed" /\ StateOf' = StateOf /\ RecordsKept' = RecordsKept /\ CnmtInv'
    BY <1>1, <1>3, Asked
  <2>. QED
    BY <2>3, <2>4, Steps
<1>. QED
  BY <1>1, <1>2, <1>3, Asked

LEMMA ReadExtendedHeaderStep ==
  ASSUME CnmtInv, ReadExtendedHeader
  PROVE  CnmtInv' /\ CnmtAbstract!Next
<1>1. /\ cnmtOpen = "yes" /\ UNCHANGED <<cnmtPhase, cb, cnmt, cnmtOpen>>
      /\ cnmtResult' = [kind |-> "extended", header |-> ExtendedHeader]
  BY DEF ReadExtendedHeader
<1>2. AnswerOf' = <<"aside">>
  BY <1>1 DEF AnswerOf
<1>. QED
  BY <1>1, <1>2, Asked, Steps

\* Every step keeps the invariant and is a step of the container.
LEMMA CnmtStep ==
  ASSUME CnmtInv, [CnmtNext]_cnmtVars
  PROVE  CnmtInv' /\ [CnmtAbstract!Next]_(CnmtAbstract!cVars)
<1>1. ASSUME NEW t \in Titles, NewCnmt(t) PROVE CnmtInv' /\ UNCHANGED CnmtAbstract!cVars
  <2>1. CnmtInv' /\ RecordsKept' = RecordsKept
    BY <1>1, NewCnmtInv
  <2>2. StateOf' = StateOf /\ AnswerOf' = AnswerOf
    BY <1>1 DEF NewCnmt, StateOf, AnswerOf, AddContentErrors
  <2>. QED
    BY <2>1, <2>2, Invisible
<1>2. ASSUME NEW v \in {0, 7}, TitleVersion(v) PROVE CnmtInv' /\ UNCHANGED CnmtAbstract!cVars
  <2>1. CnmtInv' /\ RecordsKept' = RecordsKept
    BY <1>2, TitleVersionInv
  <2>2. StateOf' = StateOf /\ AnswerOf' = AnswerOf
    BY <1>2 DEF TitleVersion, StateOf, AnswerOf
  <2>. QED
    BY <2>1, <2>2, Invisible
<1>3. CASE UNCHANGED cnmtVars
  <2>1. cnmtPhase' = cnmtPhase /\ cb' = cb /\ cnmt' = cnmt /\ cnmtOpen' = cnmtOpen /\ cnmtResult' = cnmtResult
    BY <1>3 DEF cnmtVars
  <2>2. RecordsOK' = RecordsOK /\ CnmtOf' = CnmtOf
    BY <2>1, SameBytes
  <2>3. CnmtInv'
    BY <2>1, <2>2 DEF CnmtInv
  <2>4. StateOf' = StateOf /\ AnswerOf' = AnswerOf
    BY <2>1 DEF StateOf, AnswerOf
  <2>5. RecordsKept' = RecordsKept
    BY <2>1, SameKept
  <2>. QED
    BY <2>3, <2>4, <2>5, Invisible
<1>. QED
  BY <1>1, <1>2, <1>3, AddContentStep, BuildCnmtStep, OpenBuiltCnmtStep, OpenForeignCnmtStep, FindContentStep,
     ReadExtendedHeaderStep, Zenon DEF CnmtNext

LEMMA CnmtInitMaps == CnmtInit => CnmtAbstract!Init
<1>. SUFFICES ASSUME CnmtInit PROVE CnmtAbstract!Init
  OBVIOUS
<1>1. RecordsKept = [t \in ContentTypes |-> None]
  BY NothingKept DEF CnmtInit
<1>2. StateOf = "open" /\ AnswerOf = <<"none">>
  BY DEF CnmtInit, StateOf, AnswerOf, AddContentErrors
<1>. QED
  BY <1>1, <1>2 DEF CnmtAbstract!Init, StateOf, AnswerOf

\* CnmtBuilder and Cnmt: whatever is recorded, in whatever order and for whatever
\* types, the record a reader finds under a type is the one recorded for it, whole,
\* and a type that was not recorded has none.
THEOREM CnmtImplementsContainer == CnmtSpec => RecordsImplementContainer
  BY CnmtInitInv, CnmtInitMaps, CnmtStep, PTL DEF CnmtSpec, RecordsImplementContainer, CnmtAbstract!Spec

(***************************************************************************)
(* NPDM: what is written one after the other                               *)
(***************************************************************************)
(***************************************************************************)
(* Numbers                                                                 *)
(***************************************************************************)
\* What a u32 and a u64 hold, the latter in two's complement.
U32 == 256 * (256 * (256 * 256))
U32s == 0..(U32 - 1)
HalfU64 == 256 * (256 * (256 * (256 * (256 * (256 * (256 * 128))))))
U64s == (-HalfU64)..(HalfU64 - 1)

\* The number shifted byte by byte.
Shifts(f, v, n) == f = [k \in 0..(n - 1) |-> IF k = 0 THEN v ELSE f[k - 1] \div 256]

\* v without its k lowest bytes.
Shift7(v) ==
  [k \in 0..7 |->
     IF k = 0 THEN v ELSE IF k = 1 THEN v \div 256 ELSE IF k = 2 THEN (v \div 256) \div 256
     ELSE IF k = 3 THEN ((v \div 256) \div 256) \div 256
     ELSE IF k = 4 THEN (((v \div 256) \div 256) \div 256) \div 256
     ELSE IF k = 5 THEN ((((v \div 256) \div 256) \div 256) \div 256) \div 256
     ELSE IF k = 6 THEN (((((v \div 256) \div 256) \div 256) \div 256) \div 256) \div 256
     ELSE ((((((v \div 256) \div 256) \div 256) \div 256) \div 256) \div 256) \div 256]

LEMMA ShiftsExist ==
  ASSUME NEW v, NEW n \in {4, 8}
  PROVE  \E f : Shifts(f, v, n)
<1>. DEFINE f == [k \in 0..(n - 1) |-> Shift7(v)[k]]
<1>1. ASSUME NEW k \in 0..(n - 1) PROVE f[k] = IF k = 0 THEN v ELSE f[k - 1] \div 256
  <2>1. k \in {0, 1, 2, 3, 4, 5, 6, 7} /\ k \in 0..7 /\ (k # 0 => k - 1 \in 0..(n - 1) /\ k - 1 \in 0..7)
    OBVIOUS
  <2>2. Shift7(v)[k] = IF k = 0 THEN v ELSE Shift7(v)[k - 1] \div 256
    BY <2>1 DEF Shift7
  <2>. QED
    BY <2>1, <2>2
<1>2. f = [k \in 0..(n - 1) |-> f[k]]
  OBVIOUS
<1>. HIDE DEF f
<1>3. Shifts(f, v, n)
  BY <1>1, <1>2, ZenonT(60) DEF Shifts
<1>. QED
  BY <1>3

\* The bytes are the remainders of the shifts.
LEMMA BytesOf ==
  ASSUME NEW v \in Int, NEW n \in {4, 8}
  PROVE  /\ LittleEndian(v, n) \in Seq(0..255) /\ Len(LittleEndian(v, n)) = n
         /\ \E f \in [0..(n - 1) -> Int] :
              /\ f[0] = v
              /\ \A k \in 1..(n - 1) : f[k] = f[k - 1] \div 256
              /\ \A i \in 1..n : LittleEndian(v, n)[i] = f[i - 1] % 256
<1>. DEFINE f == CHOOSE f : f = [k \in 0..(n - 1) |-> IF k = 0 THEN v ELSE f[k - 1] \div 256]
            bs == LittleEndian(v, n)
<1>1. f = [k \in 0..(n - 1) |-> IF k = 0 THEN v ELSE f[k - 1] \div 256]
  <2>1. PICK h : Shifts(h, v, n)
    BY ShiftsExist
  <2>2. h = [k \in 0..(n - 1) |-> IF k = 0 THEN v ELSE h[k - 1] \div 256]
    BY <2>1, Zenon DEF Shifts
  <2>. QED
    BY <2>2, ZenonT(60)
<1>2. bs = [i \in 1..n |-> f[i - 1] % 256]
  BY DEF LittleEndian
<1>. HIDE DEF f, bs
<1>3. f[0] = v /\ \A k \in 1..(n - 1) : f[k] = f[k - 1] \div 256
  BY <1>1
<1>4. \A k \in 0..(n - 1) : f[k] \in Int
  <2>1. \A x \in Int : x \div 256 \in Int
    BY SMT
  <2>2. f[0] \in Int /\ f[1] \in Int /\ f[2] \in Int /\ f[3] \in Int
    BY <1>3, <2>1
  <2>3. n = 8 => f[4] \in Int /\ f[5] \in Int /\ f[6] \in Int /\ f[7] \in Int
    BY <1>3, <2>1, <2>2
  <2>. QED
    BY <2>2, <2>3
<1>5. f \in [0..(n - 1) -> Int]
  BY <1>1, <1>4
<1>6. bs \in [1..n -> 0..255]
  <2>1. \A x \in Int : x % 256 \in 0..255
    BY SMT
  <2>2. \A i \in 1..n : i - 1 \in 0..(n - 1)
    OBVIOUS
  <2>. QED
    BY <1>2, <1>4, <2>1, <2>2, ZenonT(60)
<1>7. bs \in Seq(0..255) /\ Len(bs) = n
  BY <1>6, ListIsSeq
<1>8. \E g \in [0..(n - 1) -> Int] :
        g[0] = v /\ (\A k \in 1..(n - 1) : g[k] = g[k - 1] \div 256) /\ (\A i \in 1..n : bs[i] = g[i - 1] % 256)
  <2>1. \A i \in 1..n : bs[i] = f[i - 1] % 256
    BY <1>2
  <2>. QED
    BY <1>3, <1>5, <2>1, ZenonT(60)
<1>. QED
  BY <1>7, <1>8, ZenonT(60) DEF bs

LEMMA Digit ==
  ASSUME NEW x \in Int
  PROVE  x \div 256 \in Int /\ x % 256 \in Int /\ x = (x % 256) + 256 * (x \div 256)
  OBVIOUS

\* A shift divides the range.
LEMMA ShiftRange ==
  ASSUME NEW x \in Int, NEW m \in Int, x \in 0..(256 * m - 1)
  PROVE  x \div 256 \in 0..(m - 1)
  OBVIOUS

LEMMA DigitAndRest == \A x, q, r : x \in Int /\ q = x \div 256 /\ r = x % 256 => x = r + 256 * q
  BY Digit, ZenonT(60)

\* Reading the bytes of a u32 gives the number back.
LEMMA U32Back ==
  ASSUME NEW v \in U32s, NEW s, NEW at, LiesAt(s, at, LittleEndian(v, 4))
  PROVE  U32At(s, at) = v
<1>1. v \in Int
  BY DEF U32s
<1>2. PICK f \in [0..3 -> Int] : /\ f[0] = v /\ \A k \in 1..3 : f[k] = f[k - 1] \div 256
                               /\ \A i \in 1..4 : LittleEndian(v, 4)[i] = f[i - 1] % 256
  BY <1>1, BytesOf
<1>3. Len(LittleEndian(v, 4)) = 4
  BY <1>1, BytesOf
<1>4. \A i \in 1..4 : s[at + i] = f[i - 1] % 256
  BY <1>2, <1>3, ZenonT(60) DEF LiesAt
<1>5. s[at + 1] = f[0] % 256 /\ s[at + 2] = f[1] % 256 /\ s[at + 3] = f[2] % 256 /\ s[at + 4] = f[3] % 256
  BY <1>4
<1>6. f[1] = f[0] \div 256 /\ f[2] = f[1] \div 256 /\ f[3] = f[2] \div 256
  BY <1>2
<1>7. f[0] \in Int /\ f[1] \in Int /\ f[2] \in Int /\ f[3] \in Int
  BY <1>2
<1>8. PICK a, bs, c, d : a = f[0] /\ bs = f[1] /\ c = f[2] /\ d = f[3]
  OBVIOUS
<1>9. a \in 0..(U32 - 1) /\ a = v
  BY <1>2, <1>8 DEF U32s
<1>10. bs = a \div 256 /\ c = bs \div 256 /\ d = c \div 256
  BY <1>6, <1>8, Zenon
<1>11. a \in Int /\ bs \in Int /\ c \in Int /\ d \in Int
  BY <1>7, <1>8, Zenon
<1>12. d \in 0..255
  <2>. DEFINE m1 == 256 * (256 * 256)
              m2 == 256 * 256
              m3 == 256
  <2>1. U32 = 256 * m1 /\ m1 = 256 * m2 /\ m2 = 256 * m3 /\ m1 \in Int /\ m2 \in Int /\ m3 \in Int
    BY SMT DEF U32
  <2>2. m3 - 1 = 255
    OBVIOUS
  <2>. HIDE DEF m1, m2, m3
  <2>3. bs \in 0..(m1 - 1)
    BY <1>9, <1>10, <1>11, <2>1, ShiftRange
  <2>4. c \in 0..(m2 - 1)
    BY <1>10, <1>11, <2>1, <2>3, ShiftRange
  <2>5. d \in 0..(m3 - 1)
    BY <1>10, <1>11, <2>1, <2>4, ShiftRange
  <2>. QED
    BY <2>2, <2>5
<1>13. PICK r1, r2, r3, r4 : r1 = a % 256 /\ r2 = bs % 256 /\ r3 = c % 256 /\ r4 = d % 256
  OBVIOUS
<1>14. r4 = d
  BY ONLY <1>12, <1>13
<1>15. a = r1 + 256 * bs
  BY <1>10, <1>11, <1>13, Digit
<1>16. bs = r2 + 256 * c
  BY <1>10, <1>11, <1>13, Digit
<1>17. c = r3 + 256 * r4
  BY <1>10, <1>11, <1>13, <1>14, Digit
<1>18. s[at + 1] = r1 /\ s[at + 2] = r2 /\ s[at + 3] = r3 /\ s[at + 4] = r4
  BY <1>5, <1>8, <1>13, Zenon
<1>. QED
  BY <1>9, <1>15, <1>16, <1>17, <1>18, ZenonT(60) DEF U32At

\* So does reading those of a u64.
LEMMA U64Back ==
  ASSUME NEW v \in U64s, NEW s, NEW at, LiesAt(s, at, LittleEndian(v, 8))
  PROVE  U64At(s, at) = v
<1>1. v \in Int
  BY DEF U64s
<1>2. PICK f \in [0..7 -> Int] : /\ f[0] = v /\ \A k \in 1..7 : f[k] = f[k - 1] \div 256
                               /\ \A i \in 1..8 : LittleEndian(v, 8)[i] = f[i - 1] % 256
  BY <1>1, BytesOf
<1>3. Len(LittleEndian(v, 8)) = 8
  BY <1>1, BytesOf
<1>4. \A i \in 1..8 : s[at + i] = f[i - 1] % 256
  BY <1>2, <1>3, ZenonT(60) DEF LiesAt
<1>5. /\ s[at + 1] = f[0] % 256 /\ s[at + 2] = f[1] % 256 /\ s[at + 3] = f[2] % 256 /\ s[at + 4] = f[3] % 256
      /\ s[at + 5] = f[4] % 256 /\ s[at + 6] = f[5] % 256 /\ s[at + 7] = f[6] % 256 /\ s[at + 8] = f[7] % 256
  BY <1>4
<1>6. PICK a, bs, c, d, e, g, h, i :
        a = f[0] /\ bs = f[1] /\ c = f[2] /\ d = f[3] /\ e = f[4] /\ g = f[5] /\ h = f[6] /\ i = f[7]
  OBVIOUS
<1>7. /\ bs = a \div 256 /\ c = bs \div 256 /\ d = c \div 256 /\ e = d \div 256
      /\ g = e \div 256 /\ h = g \div 256 /\ i = h \div 256
  BY <1>2, <1>6
<1>8. a \in Int /\ bs \in Int /\ c \in Int /\ d \in Int /\ e \in Int /\ g \in Int /\ h \in Int /\ i \in Int
  BY <1>2, <1>6
<1>9. a \in (-HalfU64)..(HalfU64 - 1) /\ a = v
  BY <1>2, <1>6 DEF U64s
<1>10. i \in -128..127
  <2>. DEFINE m7 == 128
              m6 == 256 * 128
              m5 == 256 * (256 * 128)
              m4 == 256 * (256 * (256 * 128))
              m3 == 256 * (256 * (256 * (256 * 128)))
              m2 == 256 * (256 * (256 * (256 * (256 * 128))))
              m1 == 256 * (256 * (256 * (256 * (256 * (256 * 128)))))
  <2>1. /\ HalfU64 = 256 * m1 /\ m1 = 256 * m2 /\ m2 = 256 * m3 /\ m3 = 256 * m4
        /\ m4 = 256 * m5 /\ m5 = 256 * m6 /\ m6 = 256 * m7
    BY DEF HalfU64
  <2>2. m7 = 128
    OBVIOUS
  <2>. HIDE DEF m1, m2, m3, m4, m5, m6, m7
  <2>3. m7 \in Int /\ m6 \in Int /\ m5 \in Int /\ m4 \in Int /\ m3 \in Int /\ m2 \in Int /\ m1 \in Int
    BY <2>1, <2>2
  <2>5. bs \in (-m1)..(m1 - 1)
    <3>1. a \in Int /\ bs = a \div 256
      BY <1>7, <1>8
    <3>2. m1 \in Int /\ HalfU64 = 256 * m1
      BY <2>1, <2>3
    <3>. QED
      BY ONLY <1>9, <3>1, <3>2, SMTT(60)
  <2>6. c \in (-m2)..(m2 - 1)
    <3>1. bs \in Int /\ c = bs \div 256
      BY <1>7, <1>8
    <3>2. m2 \in Int /\ m1 = 256 * m2
      BY <2>1, <2>3, SMTT(60)
    <3>. QED
      BY ONLY <2>5, <3>1, <3>2, SMTT(60)
  <2>7. d \in (-m3)..(m3 - 1)
    <3>1. c \in Int /\ d = c \div 256
      BY <1>7, <1>8
    <3>2. m3 \in Int /\ m2 = 256 * m3
      BY <2>1, <2>3, SMTT(60)
    <3>. QED
      BY ONLY <2>6, <3>1, <3>2
  <2>8. e \in (-m4)..(m4 - 1)
    <3>1. d \in Int /\ e = d \div 256
      BY <1>7, <1>8
    <3>2. m4 \in Int /\ m3 = 256 * m4
      BY <2>1, <2>3, SMTT(60)
    <3>. QED
      BY ONLY <2>7, <3>1, <3>2
  <2>9. g \in (-m5)..(m5 - 1)
    <3>1. e \in Int /\ g = e \div 256
      BY <1>7, <1>8
    <3>2. m5 \in Int /\ m4 = 256 * m5
      BY <2>1, <2>3, SMTT(60)
    <3>. QED
      BY ONLY <2>8, <3>1, <3>2
  <2>10. h \in (-m6)..(m6 - 1)
    <3>1. g \in Int /\ h = g \div 256
      BY <1>7, <1>8
    <3>2. m6 \in Int /\ m5 = 256 * m6
      BY <2>1, <2>3, SMTT(60)
    <3>. QED
      BY ONLY <2>9, <3>1, <3>2
  <2>11. i \in (-m7)..(m7 - 1)
    <3>1. h \in Int /\ i = h \div 256
      BY <1>7, <1>8
    <3>2. m7 \in Int /\ m6 = 256 * m7
      BY <2>1, <2>3
    <3>. QED
      BY ONLY <2>10, <3>1, <3>2
  <2>. QED
    BY <2>2, <2>11
<1>11. PICK r1, r2, r3, r4, r5, r6, r7, r8 :
         /\ r1 = a % 256 /\ r2 = bs % 256 /\ r3 = c % 256 /\ r4 = d % 256
         /\ r5 = e % 256 /\ r6 = g % 256 /\ r7 = h % 256 /\ r8 = i % 256
  OBVIOUS
<1>12. Signed(r8) = i
  BY ONLY <1>10, <1>11, SMT DEF Signed
<1>13. a = r1 + 256 * bs
  <2>1. a \in Int /\ bs = a \div 256 /\ r1 = a % 256
    BY <1>7, <1>8, <1>11
  <2>. QED
    BY ONLY <2>1, DigitAndRest, ZenonT(60)
<1>14. bs = r2 + 256 * c
  <2>1. bs \in Int /\ c = bs \div 256 /\ r2 = bs % 256
    BY <1>7, <1>8, <1>11
  <2>. QED
    BY ONLY <2>1, DigitAndRest, ZenonT(60)
<1>15. c = r3 + 256 * d
  <2>1. c \in Int /\ d = c \div 256 /\ r3 = c % 256
    BY <1>7, <1>8, <1>11, ZenonT(60)
  <2>. QED
    BY ONLY <2>1, DigitAndRest, Zenon
<1>16. d = r4 + 256 * e
  <2>1. d \in Int /\ e = d \div 256 /\ r4 = d % 256
    BY <1>7, <1>8, <1>11, ZenonT(60)
  <2>. QED
    BY ONLY <2>1, DigitAndRest, Zenon
<1>17. e = r5 + 256 * g
  <2>1. e \in Int /\ g = e \div 256 /\ r5 = e % 256
    BY <1>7, <1>8, <1>11, ZenonT(60)
  <2>. QED
    BY ONLY <2>1, DigitAndRest, Zenon
<1>18. g = r6 + 256 * h
  <2>1. g \in Int /\ h = g \div 256 /\ r6 = g % 256
    BY <1>7, <1>8, <1>11, ZenonT(60)
  <2>. QED
    BY ONLY <2>1, DigitAndRest, Zenon
<1>19. h = r7 + 256 * i
  <2>1. h \in Int /\ i = h \div 256 /\ r7 = h % 256
    BY <1>7, <1>8, <1>11
  <2>. QED
    BY ONLY <2>1, DigitAndRest, Zenon
<1>20. /\ s[at + 1] = r1 /\ s[at + 2] = r2 /\ s[at + 3] = r3 /\ s[at + 4] = r4
       /\ s[at + 5] = r5 /\ s[at + 6] = r6 /\ s[at + 7] = r7 /\ s[at + 8] = r8
  BY <1>5, <1>6, <1>11, ZenonT(60)
<1>21. v = r1 + 256 * (r2 + 256 * (r3 + 256 * (r4 + 256 * (r5 + 256 * (r6 + 256 * (r7 + 256 * Signed(r8)))))))
  <2>1. h = r7 + 256 * Signed(r8)
    BY ONLY <1>12, <1>19, Zenon
  <2>2. g = r6 + 256 * (r7 + 256 * Signed(r8))
    BY ONLY <1>18, <2>1, Zenon
  <2>3. e = r5 + 256 * (r6 + 256 * (r7 + 256 * Signed(r8)))
    BY ONLY <1>17, <2>2, Zenon
  <2>4. d = r4 + 256 * (r5 + 256 * (r6 + 256 * (r7 + 256 * Signed(r8))))
    BY ONLY <1>16, <2>3, Zenon
  <2>5. c = r3 + 256 * (r4 + 256 * (r5 + 256 * (r6 + 256 * (r7 + 256 * Signed(r8)))))
    BY ONLY <1>15, <2>4, Zenon
  <2>6. bs = r2 + 256 * (r3 + 256 * (r4 + 256 * (r5 + 256 * (r6 + 256 * (r7 + 256 * Signed(r8))))))
    BY ONLY <1>14, <2>5, Zenon
  <2>7. a = r1 + 256 * (r2 + 256 * (r3 + 256 * (r4 + 256 * (r5 + 256 * (r6 + 256 * (r7 + 256 * Signed(r8)))))))
    BY ONLY <1>13, <2>6, Zenon
  <2>. QED
    BY ONLY <1>9, <2>7, ZenonT(60)
<1>. QED
  <2>1. PICK x1, x2, x3, x4, x5, x6, x7, x8 :
          /\ x1 = s[at + 1] /\ x2 = s[at + 2] /\ x3 = s[at + 3] /\ x4 = s[at + 4]
          /\ x5 = s[at + 5] /\ x6 = s[at + 6] /\ x7 = s[at + 7] /\ x8 = s[at + 8]
    OBVIOUS
  <2>2. U64At(s, at) = x1 + 256 * (x2 + 256 * (x3 + 256 * (x4 + 256 * (x5 + 256 * (x6 + 256 * (x7 + 256 * Signed(x8)))))))
    BY ONLY <2>1, SMT DEF U64At
  <2>3. x1 = r1 /\ x2 = r2 /\ x3 = r3 /\ x4 = r4 /\ x5 = r5 /\ x6 = r6 /\ x7 = r7 /\ x8 = r8
    BY ONLY <1>20, <2>1, Zenon
  <2>. QED
    BY ONLY <1>21, <2>2, <2>3, ZenonT(60)

\* Round up to a multiple of 4 or of 16.
LEMMA RoundUpToIs ==
  ASSUME NEW v \in Nat
  PROVE  RoundUpTo(v, 4) \in v..(v + 3) /\ RoundUpTo(v, 16) \in v..(v + 15)
  BY SMT DEF RoundUpTo

\* A list of u64s, one after the other, reads back as the list.
LEMMA EachIs ==
  ASSUME NEW n \in Nat, NEW l \in [1..n -> U64s]
  PROVE  /\ Each(l) \in Seq(0..255) /\ Len(Each(l)) = 8 * n
         /\ \A i \in 1..n : LiesAt(Each(l), 8 * (i - 1), LittleEndian(l[i], 8))
<1>. DEFINE ss == [i \in 1..n |-> LittleEndian(l[i], 8)]
            S == 0..255
<1>1. \A i \in 1..n : l[i] \in Int
  BY DEF U64s
<1>2. \A i \in 1..n : ss[i] = LittleEndian(l[i], 8) /\ ss[i] \in Seq(S) /\ Len(ss[i]) = 8
  BY <1>1, BytesOf, ZenonT(60)
<1>3. ss \in [1..n -> Seq(S)]
  BY <1>2
<1>4. Each(l) = FlattenSeq(ss)
  BY DEF Each
<1>. HIDE DEF ss, S
<1>5. PICK fl \in [0..n -> Seq(S)] : Flattens(fl, ss) /\ FlattenSeq(ss) = fl[n] /\ Len(ss) = n
  BY <1>3, FlattenIs
<1>. DEFINE Good(k) == Len(fl[k]) = 8 * k /\ \A i \in 1..k : LiesAt(fl[k], 8 * (i - 1), ss[i])
            B == {k \in 0..n : ~Good(k)}
<1>6. Good(0)
  BY <1>5 DEF Flattens
<1>7. ASSUME NEW k \in 1..n, Good(k - 1) PROVE Good(k)
  <2>. DEFINE p == fl[k - 1]
              q == ss[k]
              w == fl[k]
  <2>0. k - 1 \in 0..n /\ k \in 0..n /\ k \in 1..Len(ss)
    BY <1>5
  <2>1. p \in Seq(S) /\ q \in Seq(S) /\ w = p \o q /\ Len(q) = 8 /\ w \in Seq(S)
    BY <1>2, <1>5, <2>0 DEF Flattens
  <2>10. Len(p) = 8 * (k - 1)
    BY <1>7
  <2>. HIDE DEF p, q, w
  <2>2. Len(w) = Len(p) + Len(q) /\ LiesAt(w, 0, p) /\ LiesAt(w, Len(p), q)
    BY <2>1, LiesAppended
  <2>3. ASSUME NEW i \in 1..k PROVE LiesAt(w, 8 * (i - 1), ss[i])
    <3>1. CASE i = k
      BY <2>2, <2>10, <3>1 DEF q
    <3>2. CASE i # k
      <4>1. i \in 1..(k - 1) /\ i \in 1..n
        BY <3>2
      <4>2. LiesAt(p, 8 * (i - 1), ss[i]) /\ ss[i] \in Seq(S)
        BY <1>2, <1>7, <4>1 DEF p
      <4>. QED
        BY <2>1, <2>2, <4>2, LiesInPrefix
    <3>. QED
      BY <3>1, <3>2
  <2>4. Len(w) = 8 * k
    BY <2>1, <2>2, <2>10
  <2>. QED
    BY <2>3, <2>4 DEF w
<1>. HIDE DEF Good
<1>8. ASSUME B # {} PROVE FALSE
  <2>1. B \in SUBSET Nat
    OBVIOUS
  <2>2. PICK k \in B : \A y \in B : k =< y
    BY <1>8, <2>1, MinIs
  <2>3. k \in 0..n /\ ~Good(k) /\ k # 0
    BY <1>6, <2>2
  <2>4. k \in 1..n /\ k - 1 \in 0..n /\ k - 1 \notin B
    BY <2>2, <2>3
  <2>5. Good(k - 1)
    BY <2>4
  <2>. QED
    BY <1>7, <2>3, <2>4, <2>5
<1>9. Good(n)
  <2>1. n \in 0..n
    OBVIOUS
  <2>. QED
    BY <1>8, <2>1
<1>. QED
  BY <1>2, <1>4, <1>5, <1>9 DEF Good, S

\* The bytes of a u64, and of a count.
LEMMA U64Bytes == \A v \in U64s : LittleEndian(v, 8) \in Seq(0..255) /\ Len(LittleEndian(v, 8)) = 8
<1>1. \A v \in U64s : v \in Int
  BY DEF U64s
<1>. QED
  BY <1>1, BytesOf

LEMMA CountBytes == \A v \in Nat : LittleEndian(v, 4) \in Seq(0..255) /\ Len(LittleEndian(v, 4)) = 4
  BY BytesOf

LEMMA SmallerFits == \A x, y \in Nat : x =< y /\ y \in U32s => x \in U32s
<1>1. U32 \in Int
  BY SMT DEF U32
<1>. QED
  BY <1>1 DEF U32s

\* A list read back, once each of its numbers is known to lie in its place.
LEMMA ListBack ==
  ASSUME NEW n \in Nat, NEW l \in [1..n -> U64s], NEW s, NEW at \in Nat,
         \A i \in 1..n : LiesAt(s, at + 8 * (i - 1), LittleEndian(l[i], 8))
  PROVE  ListAt(s, at, n) = l
<1>1. \A i \in 1..n : U64At(s, at + 8 * (i - 1)) = l[i]
  BY U64Back
<1>2. l = [i \in 1..n |-> l[i]]
  OBVIOUS
<1>. QED
  BY <1>1, <1>2 DEF ListAt

(***************************************************************************)
(* NPDM: the filesystem access header                                      *)
(***************************************************************************)
\* Sizes and counts are written as u32, permissions and ids as u64.
FsFits(fs) ==
  /\ fs.permissions \in U64s /\ fs.content_owner_ids \in Seq(U64s)
  /\ fs.save_data_owner_ids \in Seq([accessibility : 0..255, id : U64s])
  /\ fs.content_owner_id_min \in U64s /\ fs.content_owner_id_max \in U64s
  /\ fs.save_data_owner_id_min \in U64s /\ fs.save_data_owner_id_max \in U64s

HeaderFits(fs) == 28 + CoiSize(fs.content_owner_ids) + SdoiSize(fs.save_data_owner_ids) \in U32s

\* The list of content owners: a count and the ids.
LEMMA ContentOwnersAre ==
  ASSUME NEW ids \in Seq(U64s), 28 + CoiSize(ids) \in U32s, ids # <<>>,
         NEW c, c = LittleEndian(Len(ids), 4) \o Each(ids)
  PROVE  /\ c \in Seq(0..255) /\ Len(c) = CoiSize(ids) /\ CoiSize(ids) \in Nat /\ CoiSize(ids) # 0
         /\ Len(ids) \in U32s /\ LiesAt(c, 0, LittleEndian(Len(ids), 4))
         /\ \A i \in 1..Len(ids) : LiesAt(c, 4 + 8 * (i - 1), LittleEndian(ids[i], 8))
<1>. DEFINE n == Len(ids)
            a == LittleEndian(n, 4)
            bs == Each(ids)
            S == 0..255
<1>1. n \in Nat /\ ids \in [1..n -> U64s] /\ CoiSize(ids) = 4 + 8 * n
  BY LenProperties DEF CoiSize
<1>2. n \in U32s
  <2>1. 28 + CoiSize(ids) \in Nat /\ n =< 28 + CoiSize(ids)
    BY <1>1
  <2>. QED
    BY <1>1, <2>1, SmallerFits
<1>3. a \in Seq(S) /\ Len(a) = 4
  BY <1>1, BytesOf
<1>4. bs \in Seq(S) /\ Len(bs) = 8 * n /\ \A i \in 1..n : LiesAt(bs, 8 * (i - 1), LittleEndian(ids[i], 8))
  BY <1>1, EachIs
<1>5. \A i \in 1..n : LittleEndian(ids[i], 8) \in Seq(S)
  BY <1>1, U64Bytes
<1>6. c = a \o bs
  OBVIOUS
<1>. HIDE DEF a, bs, S
<1>7. c \in Seq(S) /\ Len(c) = Len(a) + Len(bs) /\ LiesAt(c, 0, a) /\ LiesAt(c, Len(a), bs)
  BY <1>3, <1>4, <1>6, LiesAppended, ZenonT(60)
<1>8. ASSUME NEW i \in 1..n PROVE LiesAt(c, 4 + 8 * (i - 1), LittleEndian(ids[i], 8))
  <2>1. LiesAt(c, 4, bs) /\ LiesAt(bs, 8 * (i - 1), LittleEndian(ids[i], 8)) /\ LittleEndian(ids[i], 8) \in Seq(S)
    BY <1>3, <1>4, <1>5, <1>7
  <2>. QED
    BY <1>4, <1>7, <2>1, LiesTransitive
<1>9. Len(c) = 4 + 8 * n
  BY <1>3, <1>4, <1>7, SMTT(60)
<1>. QED
  BY <1>1, <1>2, <1>7, <1>8, <1>9 DEF a, S

\* The list of save data owners: a count, a flag for each padded to four, the ids.
LEMMA SaveOwnersAre ==
  ASSUME NEW owners \in Seq([accessibility : 0..255, id : U64s]), 28 + SdoiSize(owners) \in U32s, owners # <<>>,
         NEW c, c = LittleEndian(Len(owners), 4)
                      \o [i \in DOMAIN owners |-> owners[i].accessibility]
                      \o Zeros(RoundUpTo(Len(owners), 4) - Len(owners))
                      \o Each([i \in DOMAIN owners |-> owners[i].id])
  PROVE  /\ c \in Seq(0..255) /\ Len(c) = SdoiSize(owners) /\ SdoiSize(owners) \in Nat /\ SdoiSize(owners) # 0
         /\ Len(owners) \in U32s /\ LiesAt(c, 0, LittleEndian(Len(owners), 4))
         /\ \A i \in 1..Len(owners) : /\ c[4 + i] = owners[i].accessibility
                                      /\ LiesAt(c, SdoiSize(owners) - 8 * (Len(owners) - i + 1), LittleEndian(owners[i].id, 8))
<1>. DEFINE n == Len(owners)
            R == RoundUpTo(n, 4)
            S == 0..255
            a == LittleEndian(n, 4)
            bs == [i \in DOMAIN owners |-> owners[i].accessibility]
            z == Zeros(R - n)
            l == [i \in DOMAIN owners |-> owners[i].id]
            e == Each(l)
<1>1. n \in Nat /\ DOMAIN owners = 1..n /\ SdoiSize(owners) = 4 + R + 8 * n
  BY LenProperties DEF SdoiSize
<1>2. R \in Nat /\ R - n \in Nat /\ R >= n
  <2>1. R \in n..(n + 3)
    BY <1>1, RoundUpToIs, Zenon
  <2>. HIDE DEF R
  <2>. QED
    BY <1>1, <2>1
<1>3. \A i \in 1..n : owners[i].accessibility \in S /\ owners[i].id \in U64s
  <2>1. \A i \in 1..n : owners[i] \in [accessibility : S, id : U64s]
    BY ElementOfSeq, ZenonT(60)
  <2>. QED
    BY <2>1
<1>4. n \in U32s
  <2>. HIDE DEF R
  <2>1. 28 + SdoiSize(owners) \in Nat /\ n =< 28 + SdoiSize(owners)
    BY <1>1, <1>2
  <2>. QED
    BY <1>1, <2>1, SmallerFits
<1>5. a \in Seq(S) /\ Len(a) = 4
  BY <1>1, BytesOf
<1>6. bs \in [1..n -> S] /\ bs \in Seq(S) /\ Len(bs) = n
  <2>1. bs \in [1..n -> S]
    BY <1>1, <1>3, ZenonT(60)
  <2>. HIDE DEF bs, S, n
  <2>. QED
    BY <1>1, <2>1, ListIsSeq
<1>7. z \in Seq(S) /\ Len(z) = R - n
  <2>1. z \in [1..(R - n) -> S]
    BY DEF Zeros
  <2>2. PICK m \in Nat : m = R - n
    BY <1>2
  <2>. HIDE DEF z, S
  <2>. QED
    BY <2>1, <2>2, ListIsSeq
<1>8. l \in [1..n -> U64s] /\ \A i \in 1..n : l[i] = owners[i].id
  BY <1>1, <1>3
<1>9. e \in Seq(S) /\ Len(e) = 8 * n /\ \A i \in 1..n : LiesAt(e, 8 * (i - 1), LittleEndian(l[i], 8))
  <2>. HIDE DEF l
  <2>. QED
    BY <1>1, <1>8, EachIs
<1>10. \A i \in 1..n : LittleEndian(l[i], 8) \in Seq(S)
  BY <1>8, U64Bytes
<1>11. c = a \o bs \o z \o e
  OBVIOUS
<1>12. \A i \in 1..n : bs[i] = owners[i].accessibility
  BY <1>1
<1>131. n \in Nat /\ SdoiSize(owners) = 4 + R + 8 * n
  BY <1>1
<1>. HIDE DEF a, bs, z, e, l, S, R, n
<1>13. PICK ab : ab = a \o bs
  OBVIOUS
<1>14. ab \in Seq(S) /\ Len(ab) = Len(a) + Len(bs) /\ LiesAt(ab, 0, a) /\ LiesAt(ab, Len(a), bs)
  BY <1>5, <1>6, <1>13, LiesAppended, ZenonT(60)
<1>15. PICK abz : abz = ab \o z
  OBVIOUS
<1>16. abz \in Seq(S) /\ Len(abz) = Len(ab) + Len(z) /\ LiesAt(abz, 0, ab)
  BY <1>7, <1>14, <1>15, LiesAppended, ZenonT(60)
<1>17. c = abz \o e
  BY <1>11, <1>13, <1>15
<1>18. c \in Seq(S) /\ Len(c) = Len(abz) + Len(e) /\ LiesAt(c, 0, abz) /\ LiesAt(c, Len(abz), e)
  <2>1. abz \o e \in Seq(S) /\ Len(abz \o e) = Len(abz) + Len(e) /\ LiesAt(abz \o e, 0, abz) /\ LiesAt(abz \o e, Len(abz), e)
    BY <1>9, <1>16, LiesAppended, ZenonT(60)
  <2>. QED
    BY <1>17, <2>1
<1>19. LiesAt(c, 0, ab)
  BY <1>14, <1>16, <1>18, LiesInPrefix
<1>20. LiesAt(c, 0, a) /\ LiesAt(c, 4, bs)
  <2>1. LiesAt(ab, 4, bs)
    BY <1>5, <1>14
  <2>. QED
    BY <1>5, <1>6, <1>14, <1>18, <1>19, <2>1, LiesInPrefix, ZenonT(60)
<1>21. Len(abz) = 4 + R /\ Len(c) = 4 + R + 8 * n
  <2>1. Len(ab) = 4 + n
    BY <1>5, <1>6, <1>14
  <2>2. Len(abz) = (4 + n) + (R - n)
    BY <1>7, <1>16, <2>1
  <2>3. Len(abz) = 4 + R
    BY <1>1, <1>2, <2>2
  <2>. QED
    BY <1>9, <1>18, <2>3
<1>22. ASSUME NEW i \in 1..n
       PROVE  /\ c[4 + i] = owners[i].accessibility
              /\ LiesAt(c, SdoiSize(owners) - 8 * (n - i + 1), LittleEndian(owners[i].id, 8))
  <2>1. c[4 + i] = bs[i]
    BY <1>6, <1>20 DEF LiesAt
  <2>2. LiesAt(c, 4 + R, e) /\ LiesAt(e, 8 * (i - 1), LittleEndian(l[i], 8)) /\ LittleEndian(l[i], 8) \in Seq(S)
    BY <1>9, <1>10, <1>18, <1>21
  <2>3. LiesAt(c, (4 + R) + 8 * (i - 1), LittleEndian(l[i], 8))
    BY <1>9, <1>18, <2>2, LiesTransitive
  <2>4. (4 + R) + 8 * (i - 1) = SdoiSize(owners) - 8 * (n - i + 1)
    BY <1>2, <1>131
  <2>. QED
    BY <1>8, <1>12, <2>1, <2>3, <2>4
<1>23. Len(c) = SdoiSize(owners) /\ SdoiSize(owners) \in Nat /\ SdoiSize(owners) # 0
  BY <1>2, <1>131, <1>21
<1>. QED
  BY <1>4, <1>18, <1>20, <1>22, <1>23 DEF a, S, n

\* The header decodes to the permissions and the owners it was built from, and its
\* last offset and size reach its end.
LEMMA HeaderDecodes ==
  ASSUME NEW fs, FsFits(fs), HeaderFits(fs), NEW h, h = build_filesystem_access_header(fs)
  PROVE  /\ h \in Seq(0..255) /\ Len(h) \in U32s
         /\ DecodeHeader(h) =
              [permissions |-> fs.permissions, content_owner_ids |-> fs.content_owner_ids,
               save_data_owner_ids |-> fs.save_data_owner_ids, ends |-> Len(h)]
<1>. DEFINE ids == fs.content_owner_ids
            owners == fs.save_data_owner_ids
            S == 0..255
            x == CoiSize(ids)
            y == SdoiSize(owners)
            p1 == LittleEndian(1, 4)
            p2 == LittleEndian(fs.permissions, 8)
            p3 == LittleEndian(28, 4)
            p4 == LittleEndian(x, 4)
            p5 == LittleEndian(28 + x, 4)
            p6 == LittleEndian(y, 4)
            A == IF ids = <<>> THEN <<>> ELSE LittleEndian(Len(ids), 4) \o Each(ids)
            B == IF owners = <<>> THEN <<>>
                 ELSE LittleEndian(Len(owners), 4)
                        \o [i \in DOMAIN owners |-> owners[i].accessibility]
                        \o Zeros(RoundUpTo(Len(owners), 4) - Len(owners))
                        \o Each([i \in DOMAIN owners |-> owners[i].id])
<1>1. /\ fs.permissions \in U64s /\ ids \in Seq(U64s) /\ owners \in Seq([accessibility : 0..255, id : U64s])
      /\ 28 + x + y \in U32s
  BY DEF FsFits, HeaderFits
<1>2. x \in Nat /\ y \in Nat
  <2>1. x \in Nat
    BY <1>1, LenProperties DEF CoiSize
  <2>2. y \in Nat
    <3>1. Len(owners) \in Nat
      BY <1>1, LenProperties
    <3>2. PICK n, r : n = Len(owners) /\ r = RoundUpTo(n, 4)
      OBVIOUS
    <3>3. r \in n..(n + 3)
      BY <3>1, <3>2, RoundUpToIs
    <3>4. SdoiSize(owners) = IF owners = <<>> THEN 0 ELSE 4 + r + 8 * n
      BY <3>2 DEF SdoiSize
    <3>. QED
      BY <3>1, <3>2, <3>3, <3>4
  <2>. QED
    BY <2>1, <2>2
<1>. HIDE DEF x, y
<1>3. x \in U32s /\ 28 + x \in U32s /\ 28 + y \in U32s /\ y \in U32s /\ 28 \in U32s /\ 1 \in U32s
  <2>1. \A z \in Nat : z =< 28 + x + y => z \in U32s
    BY <1>1, <1>2, SmallerFits
  <2>2. x =< 28 + x + y /\ 28 + x =< 28 + x + y /\ 28 + y =< 28 + x + y /\ y =< 28 + x + y
        /\ 28 =< 28 + x + y /\ 1 =< 28 + x + y
    BY <1>2
  <2>3. 28 + x \in Nat /\ 28 + y \in Nat
    BY <1>2
  <2>. QED
    BY <1>2, <2>1, <2>2, <2>3
<1>4. A \in Seq(S) /\ Len(A) = x
  <2>1. CASE ids = <<>>
    BY <2>1 DEF x, CoiSize
  <2>2. CASE ids # <<>>
    BY <1>1, <1>3, <2>2, ContentOwnersAre, ZenonT(60) DEF x
  <2>. QED
    BY <2>1, <2>2
<1>5. B \in Seq(S) /\ Len(B) = y
  <2>1. CASE owners = <<>>
    BY <2>1 DEF y, SdoiSize
  <2>2. CASE owners # <<>>
    BY <1>1, <1>3, <2>2, SaveOwnersAre, ZenonT(60) DEF y
  <2>. QED
    BY <2>1, <2>2
<1>6. /\ p1 \in Seq(S) /\ Len(p1) = 4 /\ p3 \in Seq(S) /\ Len(p3) = 4 /\ p4 \in Seq(S) /\ Len(p4) = 4
      /\ p5 \in Seq(S) /\ Len(p5) = 4 /\ p6 \in Seq(S) /\ Len(p6) = 4
  BY <1>2, BytesOf
<1>7. p2 \in Seq(S) /\ Len(p2) = 8
  BY <1>1, U64Bytes
<1>8. h = p1 \o p2 \o p3 \o p4 \o p5 \o p6 \o A \o B
  BY DEF build_filesystem_access_header, x, y
<1>. HIDE DEF A, B, S, p1, p2, p3, p4, p5, p6
<1>9. PICK h2 : h2 = p1 \o p2
  OBVIOUS
<1>10. h2 \in Seq(S) /\ Len(h2) = Len(p1) + Len(p2) /\ LiesAt(h2, 0, p1) /\ LiesAt(h2, Len(p1), p2)
  BY <1>7, <1>6, <1>9, LiesAppended
<1>11. PICK h3 : h3 = h2 \o p3
  OBVIOUS
<1>12. h3 \in Seq(S) /\ Len(h3) = Len(h2) + Len(p3) /\ LiesAt(h3, 0, h2) /\ LiesAt(h3, Len(h2), p3)
  BY <1>6, <1>10, <1>11, LiesAppended
<1>13. PICK h4 : h4 = h3 \o p4
  OBVIOUS
<1>14. h4 \in Seq(S) /\ Len(h4) = Len(h3) + Len(p4) /\ LiesAt(h4, 0, h3) /\ LiesAt(h4, Len(h3), p4)
  BY <1>6, <1>12, <1>13, LiesAppended
<1>15. PICK h5 : h5 = h4 \o p5
  OBVIOUS
<1>16. h5 \in Seq(S) /\ Len(h5) = Len(h4) + Len(p5) /\ LiesAt(h5, 0, h4) /\ LiesAt(h5, Len(h4), p5)
  BY <1>6, <1>14, <1>15, LiesAppended
<1>17. PICK h6 : h6 = h5 \o p6
  OBVIOUS
<1>18. h6 \in Seq(S) /\ Len(h6) = Len(h5) + Len(p6) /\ LiesAt(h6, 0, h5) /\ LiesAt(h6, Len(h5), p6)
  BY <1>6, <1>16, <1>17, LiesAppended
<1>19. PICK h7 : h7 = h6 \o A
  OBVIOUS
<1>20. h7 \in Seq(S) /\ Len(h7) = Len(h6) + Len(A) /\ LiesAt(h7, 0, h6) /\ LiesAt(h7, Len(h6), A)
  BY <1>4, <1>18, <1>19, LiesAppended
<1>21. PICK h8 : h8 = h7 \o B
  OBVIOUS
<1>22. h8 \in Seq(S) /\ Len(h8) = Len(h7) + Len(B) /\ LiesAt(h8, 0, h7) /\ LiesAt(h8, Len(h7), B)
  BY <1>5, <1>20, <1>21, LiesAppended
<1>23. h = h8
  BY <1>8, <1>9, <1>11, <1>13, <1>15, <1>17, <1>19, <1>21
<1>24. Len(h2) = 12 /\ Len(h3) = 16 /\ Len(h4) = 20 /\ Len(h5) = 24 /\ Len(h6) = 28 /\ Len(h7) = 28 + x /\ Len(h8) = 28 + x + y
  BY <1>2, <1>4, <1>5, <1>6, <1>7, <1>10, <1>12, <1>14, <1>16, <1>18, <1>20, <1>22
<1>25. LiesAt(h8, 0, h6)
  BY <1>22, <1>20, <1>18, <1>22, LiesInPrefix
<1>26. LiesAt(h8, 0, h5)
  BY <1>22, <1>18, <1>16, <1>25, LiesInPrefix
<1>27. LiesAt(h8, 0, h4)
  BY <1>22, <1>16, <1>14, <1>26, LiesInPrefix
<1>28. LiesAt(h8, 0, h3)
  BY <1>22, <1>14, <1>12, <1>27, LiesInPrefix
<1>29. LiesAt(h8, 0, h2)
  BY <1>22, <1>12, <1>10, <1>28, LiesInPrefix
<1>30. LiesAt(h8, 4, p2)
  <2>1. LiesAt(h2, 4, p2)
    BY <1>6, <1>10
  <2>. QED
    BY <1>7, <1>22, <1>10, <1>29, <2>1, LiesInPrefix
<1>31. LiesAt(h8, 12, p3)
  <2>1. LiesAt(h3, 12, p3)
    BY <1>24, <1>12
  <2>. QED
    BY <1>6, <1>22, <1>12, <1>28, <2>1, LiesInPrefix
<1>32. LiesAt(h8, 16, p4)
  <2>1. LiesAt(h4, 16, p4)
    BY <1>24, <1>14
  <2>. QED
    BY <1>6, <1>22, <1>14, <1>27, <2>1, LiesInPrefix
<1>33. LiesAt(h8, 20, p5)
  <2>1. LiesAt(h5, 20, p5)
    BY <1>24, <1>16
  <2>. QED
    BY <1>6, <1>22, <1>16, <1>26, <2>1, LiesInPrefix
<1>34. LiesAt(h8, 24, p6)
  <2>1. LiesAt(h6, 24, p6)
    BY <1>24, <1>18
  <2>. QED
    BY <1>6, <1>22, <1>18, <1>25, <2>1, LiesInPrefix
<1>35. LiesAt(h8, 28, A)
  <2>1. LiesAt(h7, 28, A)
    BY <1>24, <1>20
  <2>. QED
    BY <1>4, <1>22, <1>20, <1>22, <2>1, LiesInPrefix
<1>36. LiesAt(h8, 28 + x, B)
  BY <1>22, <1>24
<1>37. U64At(h8, 4) = fs.permissions
  BY <1>1, <1>30, U64Back DEF p2
<1>38. U32At(h8, 12) = 28 /\ U32At(h8, 16) = x /\ U32At(h8, 20) = 28 + x /\ U32At(h8, 24) = y
  BY <1>3, <1>31, <1>32, <1>33, <1>34, U32Back DEF p3, p4, p5, p6
<1>39. (IF x = 0 THEN <<>> ELSE ListAt(h8, 28 + 4, U32At(h8, 28))) = ids
  <2>1. CASE ids = <<>>
    BY <2>1 DEF x, CoiSize
  <2>2. CASE ids # <<>>
    <3>. DEFINE m == Len(ids)
    <3>1. A = LittleEndian(m, 4) \o Each(ids)
      BY <2>2 DEF A
    <3>2. /\ x # 0 /\ m \in U32s /\ LiesAt(A, 0, LittleEndian(m, 4))
          /\ \A i \in 1..m : LiesAt(A, 4 + 8 * (i - 1), LittleEndian(ids[i], 8))
      BY <1>1, <1>3, <2>2, <3>1, ContentOwnersAre, ZenonT(60) DEF x
    <3>3. m \in Nat /\ ids \in [1..m -> U64s]
      BY <1>1, LenProperties
    <3>4. LittleEndian(m, 4) \in Seq(S)
      BY <3>3, CountBytes DEF S
    <3>5. \A i \in 1..m : LittleEndian(ids[i], 8) \in Seq(S)
      BY <3>3, U64Bytes DEF S
    <3>. HIDE DEF m
    <3>6. U32At(h8, 28) = m
      <4>1. LiesAt(h8, 28 + 0, LittleEndian(m, 4))
        BY <1>4, <1>22, <1>35, <3>2, <3>4, LiesTransitive
      <4>2. 28 + 0 = 28
        OBVIOUS
      <4>3. LiesAt(h8, 28, LittleEndian(m, 4))
        BY <4>1, <4>2
      <4>. QED
        BY <3>2, <4>3, U32Back
    <3>7. ASSUME NEW i \in 1..m PROVE LiesAt(h8, 32 + 8 * (i - 1), LittleEndian(ids[i], 8))
      <4>1. LiesAt(h8, 28 + (4 + 8 * (i - 1)), LittleEndian(ids[i], 8))
        BY <1>4, <1>22, <1>35, <3>2, <3>5, LiesTransitive
      <4>2. 28 + (4 + 8 * (i - 1)) = 32 + 8 * (i - 1)
        BY <3>3
      <4>. QED
        BY <4>1, <4>2
    <3>8. ListAt(h8, 32, m) = ids
      BY <3>3, <3>7, ListBack
    <3>9. 28 + 4 = 32
      OBVIOUS
    <3>. QED
      BY <3>2, <3>6, <3>8, <3>9
  <2>. QED
    BY <2>1, <2>2
<1>. DEFINE count == IF y = 0 THEN 0 ELSE U32At(h8, 28 + x)
            read == [i \in 1..count |-> [accessibility |-> h8[28 + x + 4 + i],
                                         id |-> U64At(h8, 28 + x + y - 8 * (count - i + 1))]]
<1>40. read = owners
  <2>1. CASE owners = <<>>
    <3>1. count = 0
      BY <2>1 DEF y, SdoiSize
    <3>. HIDE DEF count
    <3>2. read = <<>>
      BY <3>1
    <3>. QED
      BY <2>1, <3>2
  <2>2. CASE owners # <<>>
    <3>. DEFINE m == Len(owners)
                T == [accessibility : 0..255, id : U64s]
    <3>1. B = LittleEndian(m, 4)
                \o [i \in DOMAIN owners |-> owners[i].accessibility]
                \o Zeros(RoundUpTo(m, 4) - m)
                \o Each([i \in DOMAIN owners |-> owners[i].id])
      BY <2>2, SMTT(60) DEF B
    <3>2. /\ y # 0 /\ m \in U32s /\ LiesAt(B, 0, LittleEndian(m, 4))
          /\ \A i \in 1..m : /\ B[4 + i] = owners[i].accessibility
                              /\ LiesAt(B, y - 8 * (m - i + 1), LittleEndian(owners[i].id, 8))
      BY <1>1, <1>3, <2>2, <3>1, SaveOwnersAre, ZenonT(60) DEF y
    <3>3. m \in Nat /\ owners \in [1..m -> T]
      BY <1>1, LenProperties, ZenonT(60)
    <3>31. \A i \in 1..m : owners[i] \in T /\ owners[i].id \in U64s
      <4>1. \A i \in 1..m : owners[i] \in T
        BY <3>3
      <4>. QED
        BY <4>1, ZenonT(60)
    <3>4. LittleEndian(m, 4) \in Seq(S)
      BY <3>3, CountBytes DEF S
    <3>5. \A i \in 1..m : LittleEndian(owners[i].id, 8) \in Seq(S)
      BY <3>31, U64Bytes DEF S
    <3>51. 4 + m =< y
      <4>1. PICK r : r = RoundUpTo(m, 4)
        OBVIOUS
      <4>2. r \in m..(m + 3)
        BY <3>3, <4>1, RoundUpToIs
      <4>3. y = 4 + r + 8 * m
        BY <2>2, <4>1 DEF y, SdoiSize
      <4>4. m \in Nat
        BY <3>3
      <4>. HIDE DEF m
      <4>. QED
        BY ONLY <4>2, <4>3, <4>4
    <3>. HIDE DEF m
    <3>6. count = m
      <4>1. LiesAt(h8, (28 + x) + 0, LittleEndian(m, 4))
        BY <1>5, <1>22, <1>36, <3>2, <3>4, LiesTransitive
      <4>2. (28 + x) + 0 = 28 + x
        BY <1>2
      <4>3. LiesAt(h8, 28 + x, LittleEndian(m, 4))
        BY <4>1, <4>2
      <4>4. U32At(h8, 28 + x) = m
        BY <3>2, <4>3, U32Back
      <4>. QED
        BY <3>2, <4>4
    <3>. HIDE DEF count
    <3>7. ASSUME NEW i \in 1..m
          PROVE  read[i] = owners[i]
      <4>. DEFINE k == y - 8 * (m - i + 1)
      <4>1. LiesAt(h8, (28 + x) + k, LittleEndian(owners[i].id, 8))
        BY <1>5, <1>22, <1>36, <3>2, <3>5, LiesTransitive
      <4>2. (28 + x) + k = 28 + x + y - 8 * (m - i + 1)
        BY <1>2, <3>3
      <4>3. U64At(h8, 28 + x + y - 8 * (m - i + 1)) = owners[i].id
        <5>1. LiesAt(h8, 28 + x + y - 8 * (m - i + 1), LittleEndian(owners[i].id, 8))
          BY <4>1, <4>2
        <5>. QED
          BY <3>31, <5>1, U64Back
      <4>4. h8[28 + x + 4 + i] = owners[i].accessibility
        <5>1. 4 + i \in 1..Len(B)
          BY <1>2, <1>5, <3>3, <3>51
        <5>2. h8[(28 + x) + (4 + i)] = B[4 + i]
          BY <1>36, <5>1 DEF LiesAt
        <5>3. (28 + x) + (4 + i) = 28 + x + 4 + i
          BY <1>2, <3>3
        <5>. QED
          BY <3>2, <5>2, <5>3
      <4>5. read[i] = [accessibility |-> owners[i].accessibility, id |-> owners[i].id]
        <5>1. read[i] = [accessibility |-> h8[28 + x + 4 + i], id |-> U64At(h8, 28 + x + y - 8 * (m - i + 1))]
          BY <3>6
        <5>. QED
          BY <4>3, <4>4, <5>1
      <4>6. owners[i] \in T
        BY <3>31
      <4>7. owners[i] = [accessibility |-> owners[i].accessibility, id |-> owners[i].id]
        BY <4>6
      <4>. QED
        BY <4>5, <4>7
    <3>8. read = [i \in 1..m |-> read[i]]
      BY <3>6
    <3>9. owners = [i \in 1..m |-> owners[i]]
      BY <3>3
    <3>. HIDE DEF read
    <3>. QED
      BY <3>7, <3>8, <3>9, SMTT(60)
  <2>. QED
    BY <2>1, <2>2
<1>41. DecodeHeader(h8) =
         [permissions |-> U64At(h8, 4), content_owner_ids |-> IF x = 0 THEN <<>> ELSE ListAt(h8, 28 + 4, U32At(h8, 28)),
          save_data_owner_ids |-> read, ends |-> 28 + x + y]
  BY <1>38, ZenonT(60) DEF DecodeHeader
<1>. HIDE DEF read
<1>. QED
  BY <1>1, <1>22, <1>23, <1>24, <1>37, <1>39, <1>40, <1>41 DEF S

(***************************************************************************)
(* NPDM: the services                                                      *)
(***************************************************************************)
\* Each part lies where the parts before it end.
LEMMA PartsLie ==
  ASSUME NEW S, NEW n \in Nat, NEW ss \in [1..n -> Seq(S)], NEW fl \in [0..n -> Seq(S)],
         Len(ss) = n, Flattens(fl, ss)
  PROVE  \A k \in 1..n : LiesAt(fl[n], Len(fl[k - 1]), ss[k])
<1>. DEFINE Good(j) == \A k \in 1..j : LiesAt(fl[j], Len(fl[k - 1]), ss[k])
            B == {j \in 0..n : ~Good(j)}
<1>1. ASSUME NEW j \in 1..n, Good(j - 1) PROVE Good(j)
  <2>. DEFINE p == fl[j - 1]
              q == ss[j]
              w == fl[j]
  <2>1. j - 1 \in 0..n /\ j \in 0..n /\ j \in 1..Len(ss)
    OBVIOUS
  <2>2. p \in Seq(S) /\ q \in Seq(S) /\ w \in Seq(S) /\ w = p \o q
    BY <2>1 DEF Flattens
  <2>. HIDE DEF p, q, w
  <2>3. LiesAt(w, 0, p) /\ LiesAt(w, Len(p), q)
    BY <2>2, LiesAppended
  <2>4. ASSUME NEW k \in 1..j PROVE LiesAt(w, Len(fl[k - 1]), ss[k])
    <3>1. CASE k = j
      BY <2>3, <3>1 DEF p, q
    <3>2. CASE k # j
      <4>1. k \in 1..(j - 1) /\ k \in 1..n
        BY <3>2
      <4>2. LiesAt(p, Len(fl[k - 1]), ss[k]) /\ ss[k] \in Seq(S)
        BY <1>1, <4>1 DEF p
      <4>. QED
        BY <2>2, <2>3, <4>2, LiesInPrefix
    <3>. QED
      BY <3>1, <3>2
  <2>. QED
    BY <2>4 DEF w
<1>2. Good(0)
  OBVIOUS
<1>. HIDE DEF Good
<1>3. ASSUME B # {} PROVE FALSE
  <2>1. B \in SUBSET Nat
    OBVIOUS
  <2>2. PICK j \in B : \A y \in B : j =< y
    BY <1>3, <2>1, MinIs
  <2>3. j \in 0..n /\ ~Good(j) /\ j # 0
    BY <1>2, <2>2
  <2>4. j \in 1..n /\ j - 1 \in 0..n /\ j - 1 \notin B
    BY <2>2, <2>3
  <2>5. Good(j - 1)
    BY <2>4
  <2>. QED
    BY <1>1, <2>3, <2>4, <2>5
<1>4. Good(n)
  <2>1. n \in 0..n
    OBVIOUS
  <2>. QED
    BY <1>3, <2>1
<1>. QED
  BY <1>4 DEF Good

\* `from` of DecodeServices, for the entries at `first` and after.
SizeOf(s, at) == (s[at] % 128) + 1
EntryAt(s, at) == [name |-> SubSeq(s, at + 1, at + SizeOf(s, at)), is_host |-> s[at] \div 128]
NoEntry(s, at) == at > Len(s) \/ at + SizeOf(s, at) > Len(s)

Walks(f, s, first) ==
  f = [at \in first..(Len(s) + 1) |-> IF NoEntry(s, at) THEN <<>> ELSE <<EntryAt(s, at)>> \o f[at + 1 + SizeOf(s, at)]]

\* An entry takes at least two bytes.
LEMMA EntryFits ==
  ASSUME NEW s \in Seq(0..255), NEW at \in 1..(Len(s) + 1), ~NoEntry(s, at)
  PROVE  /\ at \in 1..Len(s) /\ s[at] \in 0..255 /\ SizeOf(s, at) \in 1..128
         /\ at + 1 + SizeOf(s, at) \in 1..(Len(s) + 1) /\ at + 1 + SizeOf(s, at) > at
         /\ at + SizeOf(s, at) =< Len(s)
<1>1. Len(s) \in Nat
  BY LenProperties
<1>2. at \in 1..Len(s)
  BY <1>1 DEF NoEntry
<1>3. s[at] \in 0..255
  BY <1>2, ElementOfSeq, SMTT(60)
<1>4. PICK bs, z : bs = s[at] /\ z = SizeOf(s, at)
  OBVIOUS
<1>5. z = (bs % 128) + 1
  BY <1>4 DEF SizeOf
<1>6. z \in 1..128
  <2>1. bs \in 0..255
    BY <1>3, <1>4
  <2>. QED
    BY ONLY <1>5, <2>1
<1>7. at + z =< Len(s)
  BY <1>1, <1>2, <1>4, <1>6 DEF NoEntry
<1>8. at + 1 + z \in 1..(Len(s) + 1) /\ at + 1 + z > at
  BY <1>1, <1>2, <1>6, <1>7
<1>. QED
  BY ONLY <1>2, <1>3, <1>4, <1>6, <1>7, <1>8, Zenon

LEMMA WalkExists ==
  ASSUME NEW s \in Seq(0..255)
  PROVE  \E f : Walks(f, s, 1)
<1>. DEFINE N == Len(s)
            B == {m \in 0..N : ~\E f : Walks(f, s, N + 1 - m)}
<1>0. N \in Nat
  BY LenProperties
<1>1. ASSUME B # {} PROVE FALSE
  <2>0. B \in SUBSET Nat
    BY <1>0
  <2>1. PICK m \in B : \A y \in B : m =< y
    BY <1>1, <2>0, MinIs
  <2>2. m \in 0..N
    BY <2>1
  <2>. DEFINE first == N + 1 - m
              term(f, at) == IF NoEntry(s, at) THEN <<>> ELSE <<EntryAt(s, at)>> \o f[at + 1 + SizeOf(s, at)]
  <2>3. first \in 1..(N + 1)
    BY <1>0, <2>2
  <2>4. \E h : \A at \in (first + 1)..(N + 1) : h[at] = term(h, at)
    <3>1. CASE m = 0
      <4>1. (first + 1)..(N + 1) = {}
        BY <1>0, <3>1
      <4>. QED
        BY <4>1
    <3>2. CASE m # 0
      <4>0. m - 1 \in 0..N /\ ~(m =< m - 1)
        BY <1>0, <2>2, <3>2
      <4>1. m - 1 \in 0..N /\ m - 1 \notin B
        BY ONLY <2>1, <4>0, Zenon
      <4>2. PICK h : Walks(h, s, N + 1 - (m - 1))
        BY <4>1
      <4>3. N + 1 - (m - 1) = first + 1
        BY <1>0, <2>2
      <4>4. \A at \in (first + 1)..(N + 1) : h[at] = term(h, at)
        BY <4>2, <4>3 DEF Walks
      <4>. QED
        BY <4>4
    <3>. QED
      BY <3>1, <3>2
  <2>. HIDE DEF term
  <2>5. PICK h : \A at \in (first + 1)..(N + 1) : h[at] = term(h, at)
    BY <2>4
  <2>. DEFINE g == [at \in first..(N + 1) |-> term(h, at)]
  <2>6. ASSUME NEW at \in first..(N + 1) PROVE g[at] = term(g, at)
    <3>1. CASE NoEntry(s, at)
      BY <3>1 DEF term
    <3>2. CASE ~NoEntry(s, at)
      <4>. DEFINE next == at + 1 + SizeOf(s, at)
      <4>0. at \in 1..(Len(s) + 1)
        BY <1>0, <2>3
      <4>1. next \in 1..(N + 1) /\ next > at
        BY <3>2, <4>0, EntryFits
      <4>. HIDE DEF next
      <4>2. next \in (first + 1)..(N + 1) /\ next \in first..(N + 1)
        BY <1>0, <2>3, <4>1
      <4>3. g[next] = h[next]
        BY <2>5, <4>2
      <4>. HIDE DEF g
      <4>4. term(g, at) = term(h, at)
        BY <3>2, <4>3 DEF term, next
      <4>. QED
        BY <4>4 DEF g
    <3>. QED
      BY <3>1, <3>2
  <2>7. g = [at \in first..(N + 1) |-> g[at]]
    OBVIOUS
  <2>. HIDE DEF g
  <2>8. g = [at \in first..(N + 1) |-> term(g, at)]
    BY <2>6, <2>7
  <2>9. Walks(g, s, first)
    BY <2>8 DEF Walks, term
  <2>. QED
    BY <2>1, <2>9
<1>2. N \in 0..N /\ N \notin B
  BY <1>0, <1>1
<1>3. \E f : Walks(f, s, N + 1 - N)
  BY <1>2
<1>4. N + 1 - N = 1
  BY <1>0
<1>. QED
  BY <1>3, <1>4

LEMMA Joining ==
  ASSUME NEW S, NEW s \in Seq(S), NEW t \in Seq(S), NEW u \in Seq(S)
  PROVE  (s \o t) \o u = s \o (t \o u)
  BY SMTT(60)

\* What DecodeServices answers, entry by entry.
Shown == [name : Seq(0..255), is_host : Int]

LEMMA DecodeServicesIs ==
  ASSUME NEW s \in Seq(0..255)
  PROVE  \E f : /\ DecodeServices(s) = f[1]
                /\ \A at \in 1..(Len(s) + 1) :
                     /\ f[at] = IF NoEntry(s, at) THEN <<>> ELSE <<EntryAt(s, at)>> \o f[at + 1 + SizeOf(s, at)]
                     /\ f[at] \in Seq(Shown)
<1>. DEFINE N == Len(s)
            f == CHOOSE g : Walks(g, s, 1)
<1>0. N \in Nat
  BY LenProperties
<1>1. Walks(f, s, 1)
  BY WalkExists
<1>2. DecodeServices(s) = f[1]
  BY DEF DecodeServices, Walks, NoEntry, EntryAt, SizeOf
<1>. HIDE DEF f
<1>3. \A at \in 1..(N + 1) : f[at] = IF NoEntry(s, at) THEN <<>> ELSE <<EntryAt(s, at)>> \o f[at + 1 + SizeOf(s, at)]
  BY <1>1 DEF Walks
<1>. DEFINE B == {d \in 0..N : f[N + 1 - d] \notin Seq(Shown)}
<1>4. ASSUME B # {} PROVE FALSE
  <2>0. B \in SUBSET Nat
    BY <1>0
  <2>1. PICK d \in B : \A y \in B : d =< y
    BY <1>4, <2>0, MinIs
  <2>. DEFINE at == N + 1 - d
  <2>2. d \in 0..N /\ at \in 1..(N + 1) /\ f[at] \notin Seq(Shown)
    BY <1>0, <2>1
  <2>. HIDE DEF at
  <2>3. CASE NoEntry(s, at)
    <3>1. f[at] = <<>>
      BY <1>3, <2>2, <2>3, Zenon
    <3>2. <<>> \in Seq(Shown)
      OBVIOUS
    <3>. QED
      BY <2>2, <3>1, <3>2, Zenon
  <2>4. CASE ~NoEntry(s, at)
    <3>. DEFINE next == at + 1 + SizeOf(s, at)
    <3>1. /\ at \in 1..N /\ s[at] \in 0..255 /\ SizeOf(s, at) \in 1..128
          /\ next \in 1..(N + 1) /\ next > at /\ at + SizeOf(s, at) =< N
      BY <2>2, <2>4, EntryFits
    <3>2. f[at] = <<EntryAt(s, at)>> \o f[next]
      BY <1>3, <2>2, <2>4
    <3>. HIDE DEF next
    <3>3. N + 1 - next \in 0..N /\ N + 1 - next < d /\ N + 1 - (N + 1 - next) = next
      BY <1>0, <2>2, <3>1 DEF at
    <3>4. N + 1 - next \notin B
      <4>1. PICK y : y = N + 1 - next
        OBVIOUS
      <4>2. y < d /\ y \in 0..N /\ d \in 0..N
        BY <2>2, <3>3, <4>1
      <4>3. y \notin B
        BY <1>0, <2>1, <4>2
      <4>. QED
        BY <4>1, <4>3
    <3>5. f[next] \in Seq(Shown)
      BY <3>3, <3>4
    <3>6. EntryAt(s, at) \in Shown
      <4>0. PICK z, bs : z = SizeOf(s, at) /\ bs = s[at]
        OBVIOUS
      <4>01. z \in 1..128 /\ at + z =< N /\ at \in 1..N /\ bs \in 0..255
        BY <3>1, <4>0
      <4>1. SubSeq(s, at + 1, at + z) \in Seq(0..255)
        <5>. HIDE DEF N
        <5>1. \A i \in (at + 1)..(at + z) : i \in 1..N
          BY <1>0, <4>01
        <5>2. \A i \in (at + 1)..(at + z) : s[i] \in 0..255
          BY <5>1, ElementOfSeq, SMTT(60) DEF N
        <5>3. at + 1 \in Int /\ at + z \in Int
          BY <1>0, <4>01
        <5>. QED
          BY <5>2, <5>3, SubSeqProperties
      <4>2. bs \div 128 \in Int
        BY ONLY <4>01
      <4>3. EntryAt(s, at) = [name |-> SubSeq(s, at + 1, at + z), is_host |-> bs \div 128]
        BY <4>0 DEF EntryAt
      <4>. QED
        BY <4>1, <4>2, <4>3 DEF Shown
    <3>7. <<EntryAt(s, at)>> \in Seq(Shown)
      BY <3>6
    <3>8. <<EntryAt(s, at)>> \o f[next] \in Seq(Shown)
      BY <3>5, <3>7, ConcatProperties
    <3>. QED
      BY <2>2, <3>2, <3>8
  <2>. QED
    BY <2>3, <2>4
<1>5. \A at \in 1..(N + 1) : f[at] \in Seq(Shown)
  <2>1. SUFFICES ASSUME NEW at \in 1..(N + 1) PROVE f[at] \in Seq(Shown)
    OBVIOUS
  <2>2. N + 1 - at \in 0..N /\ N + 1 - (N + 1 - at) = at
    BY <1>0
  <2>3. N + 1 - at \notin B
    BY <1>4
  <2>. QED
    BY <2>2, <2>3
<1>. QED
  BY <1>2, <1>3, <1>5

\* What a service with a name is written as, and shown as.
ServiceSet == [name : Seq(0..255), is_host : {0, 1}]
Cut(sv) == SubSeq(sv.name, 1, Min({Len(sv.name), 8}))
EntryOf(sv) == IF sv.name = <<>> THEN <<>> ELSE <<Len(Cut(sv)) - 1 + 128 * sv.is_host>> \o Cut(sv)
ShownOf(sv) == IF sv.name = <<>> THEN <<>> ELSE <<[sv EXCEPT !.name = SubSeq(@, 1, Min({Len(@), 8}))]>>

LEMMA CutIs ==
  ASSUME NEW sv \in ServiceSet, sv.name # <<>>
  PROVE  Cut(sv) \in Seq(0..255) /\ Len(Cut(sv)) \in 1..8
<1>1. sv.name \in Seq(0..255) /\ Len(sv.name) \in Nat /\ Len(sv.name) # 0
  <2>1. sv.name \in Seq(0..255)
    BY DEF ServiceSet
  <2>. QED
    BY <2>1, LenProperties, EmptySeq
<1>2. PICK m : m = Min({Len(sv.name), 8})
  OBVIOUS
<1>3. m \in {Len(sv.name), 8} /\ m =< Len(sv.name) /\ m =< 8
  <2>1. {Len(sv.name), 8} \in SUBSET Nat /\ {Len(sv.name), 8} # {}
    BY <1>1
  <2>. QED
    BY <1>2, <2>1, MinIs
<1>4. m \in 1..8 /\ m =< Len(sv.name) /\ m \in Int /\ 1 \in Int
  BY <1>1, <1>3
<1>5. \A k \in 1..m : sv.name[k] \in 0..255
  <2>1. \A k \in 1..m : k \in 1..Len(sv.name)
    BY <1>1, <1>4
  <2>. QED
    BY <1>1, <2>1, ElementOfSeq, ZenonT(60)
<1>6. SubSeq(sv.name, 1, m) \in Seq(0..255) /\ Len(SubSeq(sv.name, 1, m)) = IF 1 =< m THEN m - 1 + 1 ELSE 0
  BY <1>4, <1>5, SubSeqProperties
<1>7. PICK c : c = SubSeq(sv.name, 1, m)
  OBVIOUS
<1>8. Len(c) = IF 1 =< m THEN m - 1 + 1 ELSE 0
  BY <1>6, <1>7, Zenon
<1>9. Len(c) \in 1..8
  BY ONLY <1>4, <1>8
<1>10. Cut(sv) = c
  BY <1>2, <1>7, ZenonT(60) DEF Cut
<1>. QED
  BY <1>6, <1>7, <1>9, <1>10, Zenon

LEMMA ServiceEntryIs ==
  ASSUME NEW sv \in ServiceSet, sv.name # <<>>
  PROVE  /\ EntryOf(sv) \in Seq(0..255) /\ Len(EntryOf(sv)) = 1 + Len(Cut(sv))
         /\ EntryOf(sv)[1] % 128 = Len(Cut(sv)) - 1 /\ EntryOf(sv)[1] \div 128 = sv.is_host
         /\ LiesAt(EntryOf(sv), 1, Cut(sv))
<1>1. PICK c \in Seq(0..255), bs \in 0..255, h \in {0, 1} : c = Cut(sv) /\ bs = Len(Cut(sv)) - 1 + 128 * sv.is_host /\ h = sv.is_host
  <2>1. sv.is_host \in {0, 1}
    BY DEF ServiceSet
  <2>2. PICK c, h, l : c = Cut(sv) /\ h = sv.is_host /\ l = Len(Cut(sv))
    OBVIOUS
  <2>3. c \in Seq(0..255) /\ l \in 1..8 /\ h \in {0, 1}
    BY <2>1, <2>2, CutIs
  <2>4. l - 1 + 128 * h \in 0..255
    <3>1. l \in 1..8
      BY <2>3
    <3>2. CASE h = 0
      BY ONLY <3>1, <3>2
    <3>3. CASE h = 1
      BY ONLY <3>1, <3>3
    <3>. QED
      BY <2>3, <3>2, <3>3
  <2>. QED
    BY <2>2, <2>3, <2>4, ZenonT(60)
<1>2. Len(c) \in 1..8 /\ bs = Len(c) - 1 + 128 * h
  BY <1>1, CutIs
<1>3. EntryOf(sv) = <<bs>> \o c
  BY <1>1 DEF EntryOf
<1>4. <<bs>> \in Seq(0..255) /\ Len(<<bs>>) = 1 /\ <<bs>>[1] = bs
  OBVIOUS
<1>5. PICK e, p : e = <<bs>> \o c /\ p = <<bs>>
  OBVIOUS
<1>6. e \in Seq(0..255) /\ Len(e) = 1 + Len(c) /\ LiesAt(e, 0, p) /\ LiesAt(e, 1, c)
  BY <1>4, <1>5, LiesAppended, ZenonT(60)
<1>7. e[1] = bs
  BY <1>4, <1>5, <1>6 DEF LiesAt
<1>8. bs % 128 = Len(c) - 1 /\ bs \div 128 = h
  <2>1. PICK l \in 1..8 : l = Len(c)
    BY <1>2
  <2>2. bs = l - 1 + 128 * h /\ h \in {0, 1}
    BY <1>2, <2>1
  <2>3. bs % 128 = l - 1 /\ bs \div 128 = h
    BY ONLY <2>2, l \in 1..8
  <2>. QED
    BY <2>1, <2>3
<1>. QED
  BY <1>1, <1>3, <1>5, <1>6, <1>7, <1>8

\* The service access control decodes to the services that have a name, in order.
LEMMA ServicesDecode ==
  ASSUME NEW services \in Seq(ServiceSet), NEW s, s = build_service_access_control(services)
  PROVE  s \in Seq(0..255) /\ DecodeServices(s) = Requested(services)
<1>. DEFINE n == Len(services)
            ss == [i \in 1..n |-> EntryOf(services[i])]
            rr == [i \in 1..n |-> ShownOf(services[i])]
            S == 0..255
<1>1. n \in Nat /\ DOMAIN services = 1..n /\ \A i \in 1..n : services[i] \in ServiceSet
  BY LenProperties, ElementOfSeq
<1>2. s = FlattenSeq(ss)
  BY <1>1 DEF build_service_access_control, EntryOf, Cut
<1>3. Requested(services) = FlattenSeq(rr)
  BY <1>1 DEF Requested, ShownOf
<1>4. \A i \in 1..n : ss[i] = EntryOf(services[i]) /\ ss[i] \in Seq(S)
  <2>1. SUFFICES ASSUME NEW i \in 1..n PROVE EntryOf(services[i]) \in Seq(S)
    OBVIOUS
  <2>2. CASE services[i].name = <<>>
    BY <2>2 DEF EntryOf
  <2>3. CASE services[i].name # <<>>
    BY <1>1, <2>3, ServiceEntryIs
  <2>. QED
    BY <2>2, <2>3
<1>5. \A i \in 1..n : services[i].name # <<>> =>
        LET e == [name |-> Cut(services[i]), is_host |-> services[i].is_host]
        IN  rr[i] = <<e>> /\ e \in Shown
  <2>1. SUFFICES ASSUME NEW i \in 1..n, services[i].name # <<>>
                 PROVE LET e == [name |-> Cut(services[i]), is_host |-> services[i].is_host]
                       IN  ShownOf(services[i]) = <<e>> /\ e \in Shown
    OBVIOUS
  <2>2. PICK sv \in ServiceSet : sv = services[i]
    BY <1>1
  <2>3. Cut(sv) \in Seq(0..255) /\ sv.is_host \in Int
    BY <2>1, <2>2, CutIs DEF ServiceSet
  <2>4. [sv EXCEPT !.name = Cut(sv)] = [name |-> Cut(sv), is_host |-> sv.is_host]
    BY SMTT(60) DEF ServiceSet
  <2>5. ShownOf(sv) = <<[sv EXCEPT !.name = Cut(sv)]>>
    BY <2>1, <2>2 DEF ShownOf, Cut
  <2>. QED
    BY <2>2, <2>3, <2>4, <2>5 DEF Shown
<1>6. \A i \in 1..n : rr[i] \in Seq(Shown)
  <2>1. SUFFICES ASSUME NEW i \in 1..n PROVE rr[i] \in Seq(Shown)
    OBVIOUS
  <2>2. CASE services[i].name = <<>>
    <3>1. rr[i] = <<>>
      BY <2>2 DEF ShownOf
    <3>2. <<>> \in Seq(Shown)
      OBVIOUS
    <3>. QED
      BY <3>1, <3>2, Zenon
  <2>3. CASE services[i].name # <<>>
    <3>1. PICK e \in Shown : rr[i] = <<e>>
      BY <1>5, <2>3
    <3>2. <<e>> \in Seq(Shown)
      BY <3>1
    <3>. QED
      BY <3>1, <3>2, Zenon
  <2>. QED
    BY <2>2, <2>3
<1>7. ss \in [1..n -> Seq(S)] /\ rr \in [1..n -> Seq(Shown)]
  BY <1>4, <1>6
<1>70. \A i \in 1..n : services[i].name = <<>> => ss[i] = <<>> /\ rr[i] = <<>>
  BY DEF EntryOf, ShownOf
<1>. HIDE DEF ss, rr, S
<1>8. PICK fl \in [0..n -> Seq(S)] : Flattens(fl, ss) /\ FlattenSeq(ss) = fl[n] /\ Len(ss) = n
  BY <1>1, <1>7, FlattenIs
<1>9. PICK gl \in [0..n -> Seq(Shown)] : Flattens(gl, rr) /\ FlattenSeq(rr) = gl[n] /\ Len(rr) = n
  BY <1>1, <1>7, FlattenIs
<1>10. s = fl[n] /\ s \in Seq(0..255)
  BY <1>1, <1>2, <1>8 DEF S
<1>11. \A k \in 1..n : LiesAt(s, Len(fl[k - 1]), ss[k])
  <2>1. \A k \in 1..n : LiesAt(fl[n], Len(fl[k - 1]), ss[k])
    BY <1>1, <1>7, <1>8, PartsLie
  <2>. QED
    BY <1>10, <2>1
<1>12. PICK f : /\ DecodeServices(s) = f[1]
                /\ \A at \in 1..(Len(s) + 1) :
                     /\ f[at] = IF NoEntry(s, at) THEN <<>> ELSE <<EntryAt(s, at)>> \o f[at + 1 + SizeOf(s, at)]
                     /\ f[at] \in Seq(Shown)
  BY <1>10, DecodeServicesIs
<1>. DEFINE Good(k) == Len(fl[k]) + 1 \in 1..(Len(s) + 1) /\ gl[k] \o f[Len(fl[k]) + 1] = f[1]
            B == {k \in 0..n : ~Good(k)}
<1>13. Good(0)
  <2>0. fl[0] = <<>> /\ gl[0] = <<>> /\ Len(s) \in Nat
    BY <1>8, <1>9, <1>10, LenProperties DEF Flattens
  <2>1. Len(fl[0]) + 1 = 1 /\ 1 \in 1..(Len(s) + 1)
    BY <2>0
  <2>2. <<>> \o f[1] = f[1]
    BY <1>12, <2>1, ConcatEmptySeq
  <2>. QED
    BY <2>0, <2>1, <2>2
<1>14. ASSUME NEW k \in 1..n, Good(k - 1) PROVE Good(k)
  <2>. DEFINE p == fl[k - 1]
              q == gl[k - 1]
              at == Len(p) + 1
  <2>1. k - 1 \in 0..n /\ k \in 0..n /\ k \in 1..Len(ss) /\ k \in 1..Len(rr)
    BY <1>8, <1>9
  <2>2. p \in Seq(S) /\ q \in Seq(Shown) /\ fl[k] = p \o ss[k] /\ gl[k] = q \o rr[k]
    BY <1>8, <1>9, <2>1 DEF Flattens
  <2>3. at \in 1..(Len(s) + 1) /\ q \o f[at] = f[1] /\ f[at] \in Seq(Shown) /\ Len(p) \in Nat
    BY <1>12, <1>14, <2>2, LenProperties
  <2>31. LiesAt(s, Len(p), ss[k]) /\ at = Len(p) + 1
    BY <1>11
  <2>. HIDE DEF p, q, at
  <2>4. CASE services[k].name = <<>>
    <3>1. fl[k] = p /\ gl[k] = q
      BY <1>70, <2>2, <2>4, ConcatEmptySeq
    <3>. QED
      BY <2>3, <2>31, <3>1
  <2>5. CASE services[k].name # <<>>
    <3>1. PICK sv \in ServiceSet : sv = services[k] /\ sv.name # <<>>
      BY <1>1, <2>5
    <3>2. PICK e : e = EntryOf(sv) /\ e = ss[k]
      BY <1>4, <3>1 DEF ss
    <3>3. PICK c : c = Cut(sv)
      OBVIOUS
    <3>4. /\ e \in Seq(0..255) /\ Len(e) = 1 + Len(c) /\ e[1] % 128 = Len(c) - 1 /\ e[1] \div 128 = sv.is_host
          /\ LiesAt(e, 1, c) /\ c \in Seq(0..255) /\ Len(c) \in 1..8
      BY <3>1, <3>2, <3>3, ServiceEntryIs, CutIs, ZenonT(60)
    <3>5. LiesAt(s, Len(p), e)
      BY <2>31, <3>2
    <3>6. s[at] = e[1] /\ Len(p) + Len(e) =< Len(s)
      <4>1. 1 \in 1..Len(e)
        BY <3>4
      <4>. QED
        BY <2>31, <3>5, <4>1 DEF LiesAt
    <3>61. PICK pl, l, z, el : pl = Len(p) /\ l = Len(c) /\ z = Len(s) /\ el = Len(e)
      OBVIOUS
    <3>62. pl \in Nat /\ l \in 1..8 /\ z \in Nat /\ el = 1 + l /\ at = pl + 1 /\ pl + el =< z
      BY <1>10, <2>3, <2>31, <3>4, <3>6, <3>61, LenProperties, ZenonT(60)
    <3>7. SizeOf(s, at) = Len(c)
      BY <3>4, <3>6 DEF SizeOf
    <3>9. ~NoEntry(s, at)
      <4>1. ~(at > z \/ at + l > z)
        BY ONLY <3>62
      <4>. QED
        BY <3>61, <3>7, <4>1, Zenon DEF NoEntry
    <3>10. LiesAt(s, at, c)
      BY <1>10, <2>31, <3>4, <3>5, LiesTransitive, ZenonT(60)
    <3>11. SubSeq(s, at + 1, at + Len(c)) = c
      BY <1>10, <3>4, <3>10, SliceIs, SMTT(60)
    <3>12. EntryAt(s, at) = [name |-> c, is_host |-> sv.is_host]
      BY <3>4, <3>6, <3>7, <3>11 DEF EntryAt
    <3>13. PICK r : r = EntryAt(s, at)
      OBVIOUS
    <3>14. rr[k] = <<r>> /\ r \in Shown
      BY <1>5, <3>1, <3>3, <3>12, <3>13 DEF rr
    <3>15. PICK next : next = at + 1 + SizeOf(s, at)
      OBVIOUS
    <3>16. next \in 1..(Len(s) + 1) /\ next = at + Len(e)
      <4>1. next = at + 1 + l
        BY <3>7, <3>15, <3>61, Zenon
      <4>2. next \in 1..(z + 1) /\ next = at + el
        BY ONLY <3>62, <4>1
      <4>. QED
        BY <3>61, <4>2, Zenon
    <3>17. f[at] = <<r>> \o f[next] /\ f[next] \in Seq(Shown)
      BY <1>12, <2>3, <3>9, <3>13, <3>15, <3>16
    <3>18. Len(fl[k]) = Len(p) + Len(e)
      <4>1. e \in Seq(S)
        BY <3>4 DEF S
      <4>2. Len(p \o e) = Len(p) + Len(e)
        BY <2>2, <4>1, ConcatProperties
      <4>. QED
        BY <2>2, <3>2, <4>2
    <3>19. Len(fl[k]) + 1 = next
      <4>1. Len(fl[k]) = pl + el /\ next = at + el
        BY <3>16, <3>18, <3>61, Zenon
      <4>. QED
        BY <3>62, <4>1
    <3>20. (q \o <<r>>) \o f[next] = q \o (<<r>> \o f[next])
      <4>1. <<r>> \in Seq(Shown)
        BY <3>14
      <4>2. PICK x, y : x = f[next] /\ y = <<r>>
        OBVIOUS
      <4>3. (q \o y) \o x = q \o (y \o x)
        <5>1. q \in Seq(Shown) /\ y \in Seq(Shown) /\ x \in Seq(Shown)
          BY <2>2, <3>17, <4>1, <4>2
        <5>2. \A T : \A i1, i2, i3 \in Seq(T) : (i1 \o i2) \o i3 = i1 \o (i2 \o i3)
          BY Joining
        <5>. QED
          BY ONLY <5>1, SMTT(30)
      <4>. QED
        BY <4>2, <4>3
    <3>21. gl[k] \o f[next] = f[1]
      BY <2>2, <2>3, <3>14, <3>17, <3>20
    <3>. QED
      BY <3>16, <3>19, <3>21
  <2>. QED
    BY <2>4, <2>5
<1>. HIDE DEF Good
<1>15. ASSUME B # {} PROVE FALSE
  <2>0. B \in SUBSET Nat
    BY <1>1
  <2>1. PICK k \in B : \A y \in B : k =< y
    BY <1>15, <2>0, MinIs
  <2>2. k \in 0..n /\ ~Good(k) /\ k # 0
    BY <1>13, <2>1
  <2>3. k \in 1..n /\ k - 1 \in 0..n /\ ~(k =< k - 1)
    BY <1>1, <2>2
  <2>4. k - 1 \notin B
    BY ONLY <2>1, <2>3, Zenon
  <2>5. Good(k - 1)
    BY <2>3, <2>4
  <2>. QED
    BY <1>14, <2>2, <2>3, <2>5
<1>16. Good(n)
  <2>1. n \in 0..n
    BY <1>1
  <2>. QED
    BY <1>15, <2>1
<1>17. f[Len(s) + 1] = <<>>
  <2>1. Len(s) + 1 \in 1..(Len(s) + 1) /\ Len(s) + 1 > Len(s)
    BY <1>10, LenProperties
  <2>2. NoEntry(s, Len(s) + 1)
    BY <2>1 DEF NoEntry
  <2>. QED
    BY <1>12, <2>1, <2>2
<1>18. gl[n] \o <<>> = gl[n]
  <2>1. gl[n] \in Seq(Shown)
    BY <1>1, <1>9
  <2>. QED
    BY <2>1, ConcatEmptySeq
<1>19. gl[n] \o f[Len(fl[n]) + 1] = f[1]
  BY <1>16 DEF Good
<1>20. gl[n] = f[1]
  BY <1>10, <1>17, <1>18, <1>19
<1>. QED
  BY <1>3, <1>9, <1>10, <1>12, <1>20

(***************************************************************************)
(* NPDM: the sections                                                      *)
(***************************************************************************)
\* The ranges of the filesystem access control, read back from it.
LEMMA ControlDecodes ==
  ASSUME NEW fs, FsFits(fs), NEW c, c = build_filesystem_access_control(fs)
  PROVE  /\ c \in Seq(0..255)
         /\ ListAt(c, 4, 5) = <<fs.permissions, fs.content_owner_id_min, fs.content_owner_id_max,
                                fs.save_data_owner_id_min, fs.save_data_owner_id_max>>
<1>. DEFINE l == <<fs.permissions, fs.content_owner_id_min, fs.content_owner_id_max,
                   fs.save_data_owner_id_min, fs.save_data_owner_id_max>>
            S == 0..255
            v == <<1, 0, 0, 0>>
            e == Each(l)
<1>1. l \in [1..5 -> U64s]
  BY DEF FsFits
<1>2. v \in Seq(S) /\ Len(v) = 4
  OBVIOUS
<1>3. c = v \o e
  BY DEF build_filesystem_access_control
<1>. HIDE DEF l, v
<1>4. e \in Seq(S) /\ \A i \in 1..5 : LiesAt(e, 8 * (i - 1), LittleEndian(l[i], 8))
  BY <1>1, EachIs
<1>5. \A i \in 1..5 : LittleEndian(l[i], 8) \in Seq(S)
  BY <1>1, U64Bytes
<1>. HIDE DEF e, S
<1>6. c \in Seq(S) /\ LiesAt(c, 4, e)
  BY <1>2, <1>3, <1>4, LiesAppended
<1>7. \A i \in 1..5 : LiesAt(c, 4 + 8 * (i - 1), LittleEndian(l[i], 8))
  BY <1>4, <1>5, <1>6, LiesTransitive
<1>8. ListAt(c, 4, 5) = l
  BY <1>1, <1>7, ListBack
<1>. QED
  BY <1>6, <1>8 DEF l, S

LEMMA AlignUpIs ==
  ASSUME NEW v \in Nat
  PROVE  align_up_16(v) \in Nat /\ align_up_16(v) >= v
  BY RoundUpToIs DEF align_up_16

\* What the header l of a section of bytes bs says of its blocks.
Laid(S, header, fac, sac, kc, l, bs) ==
  /\ l.fac_offset = header /\ l.fac_size = Len(fac) /\ l.sac_size = Len(sac) /\ l.kc_size = Len(kc)
  /\ l.sac_offset \in Nat /\ l.kc_offset \in Nat /\ l.total \in Nat
  /\ header + Len(fac) =< l.sac_offset /\ l.sac_offset + Len(sac) =< l.kc_offset
  /\ l.total = l.kc_offset + Len(kc)
  /\ bs \in Seq(S) /\ Len(bs) = l.total
  /\ LiesAt(bs, l.fac_offset, fac) /\ LiesAt(bs, l.sac_offset, sac) /\ LiesAt(bs, l.kc_offset, kc)

\* The blocks lie at the offsets a section's header gives, one after the other, and
\* end where the section does.
LEMMA SectionIs ==
  ASSUME NEW S, HEADER_BYTE \in S, 0 \in S, NEW header \in Nat,
         NEW fac \in Seq(S), NEW sac \in Seq(S), NEW kc \in Seq(S),
         NEW l, l = Layout(header, fac, sac, kc), NEW bs, bs = SectionBytes(l, fac, sac, kc)
  PROVE  Laid(S, header, fac, sac, kc, l, bs)
<1>1. PICK f, g, k : f = Len(fac) /\ g = Len(sac) /\ k = Len(kc)
  OBVIOUS
<1>2. f \in Nat /\ g \in Nat /\ k \in Nat
  BY <1>1, LenProperties
<1>3. PICK so, ko : so = align_up_16(header + f) /\ ko = align_up_16(so + g)
  OBVIOUS
<1>4. so \in Nat /\ so >= header + f
  <2>1. PICK v \in Nat : v = header + f
    BY <1>2
  <2>2. align_up_16(v) \in Nat /\ align_up_16(v) >= v
    BY AlignUpIs
  <2>. QED
    BY <1>3, <2>1, <2>2
<1>5. ko \in Nat /\ ko >= so + g
  <2>1. PICK v \in Nat : v = so + g
    BY <1>2, <1>4
  <2>2. align_up_16(v) \in Nat /\ align_up_16(v) >= v
    BY AlignUpIs
  <2>. QED
    BY <1>3, <2>1, <2>2
<1>6. l = [fac_offset |-> header, fac_size |-> f, sac_offset |-> so, sac_size |-> g,
           kc_offset |-> ko, kc_size |-> k, total |-> ko + k]
  BY <1>1, <1>3 DEF Layout
<1>. DEFINE h == [i \in 1..header |-> HEADER_BYTE]
            z1 == Zeros(so - header - f)
            z2 == Zeros(ko - so - g)
<1>7. bs = h \o fac \o z1 \o sac \o z2 \o kc
  BY <1>6, SMTT(60) DEF SectionBytes
<1>8. h \in Seq(S) /\ Len(h) = header
  <2>1. h \in [1..header -> S]
    OBVIOUS
  <2>. HIDE DEF h
  <2>. QED
    BY <2>1, ListIsSeq
<1>9. z1 \in Seq(S) /\ Len(z1) = so - header - f
  <2>1. PICK n \in Nat : n = so - header - f
    BY <1>2, <1>4
  <2>2. Zeros(n) \in [1..n -> S]
    BY DEF Zeros
  <2>. QED
    BY <2>1, <2>2, ListIsSeq
<1>10. z2 \in Seq(S) /\ Len(z2) = ko - so - g
  <2>1. PICK n \in Nat : n = ko - so - g
    BY <1>2, <1>4, <1>5
  <2>2. Zeros(n) \in [1..n -> S]
    BY DEF Zeros
  <2>. QED
    BY <2>1, <2>2, ListIsSeq
<1>. HIDE DEF h, z1, z2
<1>11. PICK b2 : b2 = h \o fac
  OBVIOUS
<1>12. b2 \in Seq(S) /\ Len(b2) = Len(h) + Len(fac) /\ LiesAt(b2, 0, h) /\ LiesAt(b2, Len(h), fac)
  BY <1>8, <1>11, LiesAppended
<1>13. PICK b3 : b3 = b2 \o z1
  OBVIOUS
<1>14. b3 \in Seq(S) /\ Len(b3) = Len(b2) + Len(z1) /\ LiesAt(b3, 0, b2)
  BY <1>9, <1>12, <1>13, LiesAppended
<1>15. PICK b4 : b4 = b3 \o sac
  OBVIOUS
<1>16. b4 \in Seq(S) /\ Len(b4) = Len(b3) + Len(sac) /\ LiesAt(b4, 0, b3) /\ LiesAt(b4, Len(b3), sac)
  BY <1>14, <1>15, LiesAppended
<1>17. PICK b5 : b5 = b4 \o z2
  OBVIOUS
<1>18. b5 \in Seq(S) /\ Len(b5) = Len(b4) + Len(z2) /\ LiesAt(b5, 0, b4)
  BY <1>10, <1>16, <1>17, LiesAppended
<1>19. PICK b6 : b6 = b5 \o kc
  OBVIOUS
<1>20. b6 \in Seq(S) /\ Len(b6) = Len(b5) + Len(kc) /\ LiesAt(b6, 0, b5) /\ LiesAt(b6, Len(b5), kc)
  BY <1>18, <1>19, LiesAppended
<1>21. bs = b6
  BY <1>7, <1>11, <1>13, <1>15, <1>17, <1>19
<1>22. Len(b3) = so /\ Len(b5) = ko /\ Len(b6) = ko + k
  <2>1. Len(b2) = header + f
    BY <1>1, <1>8, <1>12
  <2>2. Len(b3) = so
    BY <1>2, <1>4, <1>9, <1>14, <2>1
  <2>3. Len(b4) = so + g
    BY <1>1, <1>16, <2>2
  <2>4. Len(b5) = ko
    BY <1>2, <1>4, <1>5, <1>10, <1>18, <2>3
  <2>. QED
    BY <1>1, <1>20, <2>2, <2>4
<1>23. LiesAt(b6, 0, b4)
  BY <1>16, <1>18, <1>20, LiesInPrefix
<1>24. LiesAt(b6, so, sac)
  BY <1>16, <1>20, <1>22, <1>23, LiesInPrefix
<1>25. LiesAt(b6, 0, b3)
  BY <1>14, <1>16, <1>20, <1>23, LiesInPrefix
<1>26. LiesAt(b6, 0, b2)
  BY <1>12, <1>14, <1>20, <1>25, LiesInPrefix
<1>27. LiesAt(b6, header, fac)
  BY <1>8, <1>12, <1>20, <1>26, LiesInPrefix
<1>28. /\ l.fac_offset = header /\ l.fac_size = f /\ l.sac_offset = so /\ l.sac_size = g
       /\ l.kc_offset = ko /\ l.kc_size = k /\ l.total = ko + k
  BY <1>6
<1>29. /\ so \in Nat /\ ko \in Nat /\ ko + k \in Nat /\ header + f =< so /\ so + g =< ko
  BY <1>2, <1>4, <1>5
<1>. QED
  BY ONLY <1>1, <1>20, <1>21, <1>22, <1>24, <1>27, <1>28, <1>29, Zenon DEF Laid

(***************************************************************************)
(* NPDM: the capabilities are descriptors, whatever they ask for           *)
(***************************************************************************)
LEMMA BitsAre ==
  ASSUME NEW v, NEW width \in Int, NEW at \in Int
  PROVE  BitsOf(v, width, at) \in SUBSET Int
  BY DEF BitsOf

LEMMA TrailerIs ==
  ASSUME NEW n \in Int
  PROVE  Trailer(n) \in SUBSET Int
  BY DEF Trailer

LEMMA SyscallsAre ==
  ASSUME NEW ids \in SUBSET Nat
  PROVE  EncodeSyscalls(ids) \in Seq(SUBSET Int)
<1>. DEFINE ss == [g \in 1..8 |-> IF \E id \in ids : id \div 24 = g - 1 THEN <<SyscallMask(ids, g - 1)>> ELSE <<>>]
            W == SUBSET Int
<1>1. ASSUME NEW g \in 1..8 PROVE SyscallMask(ids, g - 1) \in W
  <2>1. {(id % 24) + 5 : id \in {i \in ids : i \div 24 = g - 1}} \in W
    <3>1. \A id \in ids : (id % 24) + 5 \in Int
      BY SMT
    <3>. QED
      BY <3>1
  <2>2. Trailer(4) \in W /\ BitsOf(g - 1, 3, 29) \in W
    BY BitsAre, TrailerIs
  <2>. QED
    BY <2>1, <2>2 DEF SyscallMask
<1>2. ss \in [1..8 -> Seq(W)]
  <2>1. \A g \in 1..8 : <<SyscallMask(ids, g - 1)>> \in Seq(W)
    BY <1>1
  <2>2. <<>> \in Seq(W)
    OBVIOUS
  <2>. QED
    BY <2>1, <2>2
<1>3. EncodeSyscalls(ids) = FlattenSeq(ss)
  BY DEF EncodeSyscalls
<1>. HIDE DEF ss, W
<1>4. PICK fl \in [0..8 -> Seq(W)] : Flattens(fl, ss) /\ FlattenSeq(ss) = fl[8] /\ Len(ss) = 8
  <2>1. PICK n \in Nat : n = 8
    OBVIOUS
  <2>2. ss \in [1..n -> Seq(W)]
    BY <1>2, <2>1
  <2>3. \E fl \in [0..n -> Seq(W)] : Flattens(fl, ss) /\ FlattenSeq(ss) = fl[n] /\ Len(ss) = n
    BY <2>2, FlattenIs
  <2>. QED
    BY <2>1, <2>3
<1>. QED
  BY <1>3, <1>4 DEF W

LEMMA EncodedAre ==
  ASSUME NEW c, c.kind \in CapabilityKinds, c.kind = "Syscalls" => c.ids \in SUBSET Nat
  PROVE  encode(c) \in Seq(SUBSET Int)
<1>. DEFINE W == SUBSET Int
<1>0. \A x, y \in W : <<x>> \in Seq(W) /\ <<x, y>> \in Seq(W)
  OBVIOUS
<1>1. CASE c.kind = "KernelFlags"
  <2>1. Trailer(3) \union BitsOf(c.lowest_thread_priority, 6, 4) \union BitsOf(c.highest_thread_priority, 6, 10)
          \union BitsOf(c.lowest_cpu_id, 8, 16) \union BitsOf(c.highest_cpu_id, 8, 24) \in W
    BY BitsAre, TrailerIs
  <2>. QED
    BY <1>0, <1>1, <2>1 DEF encode
<1>2. CASE c.kind = "Syscalls"
  BY <1>2, SyscallsAre DEF encode
<1>3. CASE c.kind = "Map"
  <2>1. /\ Trailer(6) \union BitsOf(c.address, 24, 7) \union BitsOf(c.is_ro, 1, 31) \in W
        /\ Trailer(6) \union BitsOf(c.size, 20, 7) \union BitsOf(c.address \div 2^24, 4, 27)
             \union BitsOf(1 - c.is_io, 1, 31) \in W
    BY BitsAre, TrailerIs
  <2>2. EncodeMap(c) \in Seq(W)
    BY <1>0, <2>1 DEF EncodeMap
  <2>. QED
    BY <1>3, <2>2 DEF encode
<1>4. CASE c.kind = "MapPage"
  <2>1. Trailer(7) \union BitsOf(c.page, 24, 8) \in W
    BY BitsAre, TrailerIs
  <2>. QED
    BY <1>0, <1>4, <2>1 DEF encode
<1>5. CASE c.kind = "MapRegion"
  <2>1. \A i \in 1..3 : BitsOf(c.regions[i].type, 6, 4 + 7 * i) \union BitsOf(c.regions[i].is_ro, 1, 10 + 7 * i) \in W
    BY BitsAre
  <2>2. Trailer(10) \in W
    BY TrailerIs
  <2>3. EncodeRegions(c.regions) \in W
    BY <2>1, <2>2 DEF EncodeRegions
  <2>. QED
    BY <1>0, <1>5, <2>3 DEF encode
<1>6. CASE c.kind = "IrqPair"
  <2>1. Trailer(11) \union BitsOf(c.irqs[1], 10, 12) \union BitsOf(c.irqs[2], 10, 22) \in W
    BY BitsAre, TrailerIs
  <2>. QED
    BY <1>0, <1>6, <2>1 DEF encode
<1>7. CASE c.kind = "ApplicationType"
  <2>1. Trailer(13) \union BitsOf(c.value, 3, 14) \in W
    BY BitsAre, TrailerIs
  <2>. QED
    BY <1>0, <1>7, <2>1 DEF encode
<1>8. CASE c.kind = "MinKernelVersion"
  <2>1. Trailer(14) \union BitsOf(c.value, 17, 15) \in W
    BY BitsAre, TrailerIs
  <2>. QED
    BY <1>0, <1>8, <2>1 DEF encode
<1>9. CASE c.kind = "HandleTableSize"
  <2>1. Trailer(15) \union BitsOf(c.value, 10, 16) \in W
    BY BitsAre, TrailerIs
  <2>. QED
    BY <1>0, <1>9, <2>1 DEF encode
<1>10. CASE c.kind = "DebugFlags"
  <2>1. Trailer(16) \union BitsOf(c.allow_debug, 1, 17) \union BitsOf(c.force_debug_prod, 1, 18)
          \union BitsOf(c.force_debug, 1, 19) \in W
    BY BitsAre, TrailerIs
  <2>. QED
    BY <1>0, <1>10, <2>1 DEF encode
<1>. QED
  BY <1>1, <1>2, <1>3, <1>4, <1>5, <1>6, <1>7, <1>8, <1>9, <1>10 DEF CapabilityKinds

LEMMA KernelIs ==
  ASSUME NEW caps, NEW n \in Nat, DOMAIN caps = 1..n,
         \A i \in 1..n : caps[i].kind \in CapabilityKinds /\ (caps[i].kind = "Syscalls" => caps[i].ids \in SUBSET Nat)
  PROVE  \E S : build_kernel_capabilities(caps) \in Seq(S)
<1>. DEFINE ss == [i \in 1..n |-> encode(caps[i])]
            words == FlattenSeq(ss)
            byte(w, j) == SumSet({2^(k - 8 * j) : k \in {bit \in w : bit \div 8 = j}})
            row(i) == [j \in 1..4 |-> byte(words[i], j - 1)]
            bb == [i \in DOMAIN words |-> row(i)]
<1>1. ss \in [1..n -> Seq(SUBSET Int)]
  BY EncodedAre
<1>2. build_kernel_capabilities(caps) = FlattenSeq(bb)
  BY DEF build_kernel_capabilities
<1>. HIDE DEF ss
<1>3. words \in Seq(SUBSET Int)
  <2>1. PICK fl \in [0..n -> Seq(SUBSET Int)] : Flattens(fl, ss) /\ FlattenSeq(ss) = fl[n] /\ Len(ss) = n
    BY <1>1, FlattenIs
  <2>. QED
    BY <2>1
<1>. HIDE DEF words, byte
<1>4. PICK m \in Nat : DOMAIN words = 1..m
  BY <1>3, LenProperties
<1>. DEFINE S == {byte(words[i], j - 1) : i \in 1..m, j \in 1..4}
<1>5. bb \in [1..m -> Seq(S)]
  <2>1. ASSUME NEW i \in 1..m PROVE row(i) \in Seq(S)
    <3>1. row(i) \in [1..4 -> S]
      OBVIOUS
    <3>. HIDE DEF S, row
    <3>. QED
      BY <3>1, ListIsSeq
  <2>. HIDE DEF row
  <2>. QED
    BY <1>4, <2>1
<1>. HIDE DEF bb, S
<1>6. PICK fl \in [0..m -> Seq(S)] : Flattens(fl, bb) /\ FlattenSeq(bb) = fl[m] /\ Len(bb) = m
  BY <1>5, FlattenIs
<1>. QED
  BY <1>2, <1>6

(***************************************************************************)
(* NPDM: what comes back                                                   *)
(***************************************************************************)
\* The numbers are what u32 and u64 hold, and the access header's sizes fit the u32
\* they are added up in.
NumbersFit ==
  /\ \A a \in Acis \union Acids : FsFits(a.fs)
  /\ \A a \in Acis : HeaderFits(a.fs)

\* The builder holds data it was given, or none.
Held ==
  /\ pb = [metadata |-> pb.metadata, aci |-> pb.aci, acid |-> pb.acid]
  /\ pb.aci \in Acis \union {NoData} /\ pb.acid \in Acids \union {NoData}

\* AccessComesBack is not inductive: an answer is right because the file it is read
\* from is still the one the builder's data spell, and opening it does not fail.
NpdmInv ==
  /\ NumbersFit
  /\ npdmPhase \in {"new", "set", "built", "foreign"}
  /\ npdmPhase \in {"set", "built"} => Held
  /\ npdmPhase \in {"new", "set"} => npdmOpen = "no" /\ npdmResult = [status |-> "none"]
  /\ npdmPhase = "built" =>
       /\ npdm = NpdmOf
       /\ npdmOpen \in {"no", "yes"}
       /\ npdmResult \in {[status |-> "none"],
                          [status |-> "ok", block |-> "fac", data |-> build_filesystem_access_header(Aci.fs)],
                          [status |-> "ok", block |-> "sac", data |-> build_service_access_control(Aci.services)],
                          [status |-> "ok", block |-> "kc", data |-> build_kernel_capabilities(Aci.capabilities)]}

LEMMA DefaultFits == FsFits(DefaultFs) /\ HeaderFits(DefaultFs)
<1>1. 0 \in U64s /\ -1 \in U64s
  <2>1. HalfU64 \in Nat /\ HalfU64 > 0
    <3>. DEFINE m7 == 128
                m6 == 256 * 128
                m5 == 256 * (256 * 128)
                m4 == 256 * (256 * (256 * 128))
                m3 == 256 * (256 * (256 * (256 * 128)))
                m2 == 256 * (256 * (256 * (256 * (256 * 128))))
                m1 == 256 * (256 * (256 * (256 * (256 * (256 * 128)))))
    <3>2. /\ HalfU64 = 256 * m1 /\ m1 = 256 * m2 /\ m2 = 256 * m3 /\ m3 = 256 * m4
          /\ m4 = 256 * m5 /\ m5 = 256 * m6 /\ m6 = 256 * m7
      BY DEF HalfU64
    <3>3. m7 \in Nat /\ m7 > 0
      OBVIOUS
    <3>. HIDE DEF m1, m2, m3, m4, m5, m6, m7
    <3>4. m6 \in Nat /\ m6 > 0
      <4>1. m6 = 256 * m7
        BY <3>2
      <4>. QED
        BY ONLY <3>3, <4>1
    <3>5. m5 \in Nat /\ m5 > 0
      <4>1. m5 = 256 * m6
        BY <3>2
      <4>. QED
        BY ONLY <3>4, <4>1
    <3>6. m4 \in Nat /\ m4 > 0
      <4>1. m4 = 256 * m5
        BY <3>2
      <4>. QED
        BY ONLY <3>5, <4>1
    <3>7. m3 \in Nat /\ m3 > 0
      <4>1. m3 = 256 * m4
        BY <3>2
      <4>. QED
        BY ONLY <3>6, <4>1
    <3>8. m2 \in Nat /\ m2 > 0
      <4>1. m2 = 256 * m3
        BY <3>2
      <4>. QED
        BY ONLY <3>7, <4>1
    <3>9. m1 \in Nat /\ m1 > 0
      <4>1. m1 = 256 * m2
        BY <3>2
      <4>. QED
        BY ONLY <3>8, <4>1
    <3>10. HalfU64 = 256 * m1
      BY <3>2
    <3>. QED
      BY ONLY <3>9, <3>10
  <2>. QED
    BY <2>1 DEF U64s
<1>2. 28 \in U32s
  <2>1. U32 \in Nat /\ U32 > 28
    BY SMT DEF U32
  <2>. QED
    BY <2>1 DEF U32s
<1>3. CoiSize(<<>>) = 0 /\ SdoiSize(<<>>) = 0
  BY DEF CoiSize, SdoiSize
<1>4. /\ DefaultFs.permissions = -1 /\ DefaultFs.content_owner_ids = <<>> /\ DefaultFs.save_data_owner_ids = <<>>
      /\ DefaultFs.content_owner_id_min = 0 /\ DefaultFs.content_owner_id_max = -1
      /\ DefaultFs.save_data_owner_id_min = 0 /\ DefaultFs.save_data_owner_id_max = -1
  BY DEF DefaultFs, MAX_U64
<1>5. <<>> \in Seq(U64s) /\ <<>> \in Seq([accessibility : 0..255, id : U64s])
  OBVIOUS
<1>. QED
  BY <1>1, <1>2, <1>3, <1>4, <1>5 DEF FsFits, HeaderFits

\* Capabilities of the types AciData and AcidData admit.
CapabilitiesOK(caps) ==
  \E n \in Nat : /\ DOMAIN caps = 1..n
                 /\ \A i \in 1..n : /\ caps[i].kind \in CapabilityKinds
                                    /\ caps[i].kind = "Syscalls" => caps[i].ids \in SUBSET Nat

LEMMA SuppliedOK ==
  ASSUME NEW a, AccessSupplied(a)
  PROVE  a.services \in Seq(ServiceSet) /\ CapabilitiesOK(a.capabilities)
<1>1. a.services \in Seq(ServiceSet)
  BY DEF AccessSupplied, ServiceSet
<1>2. PICK caps : caps = a.capabilities
  OBVIOUS
<1>3. caps \in Seq({caps[i] : i \in DOMAIN caps})
  BY <1>2 DEF AccessSupplied
<1>4. Len(caps) \in Nat /\ DOMAIN caps = 1..Len(caps)
  BY <1>3, LenProperties
<1>5. \A i \in DOMAIN caps : caps[i].kind \in CapabilityKinds /\ (caps[i].kind = "Syscalls" => caps[i].ids \in SUBSET Nat)
  BY <1>2 DEF AccessSupplied
<1>. QED
  BY <1>1, <1>2, <1>4, <1>5 DEF CapabilitiesOK

LEMMA NoneOK == <<>> \in Seq(ServiceSet) /\ CapabilitiesOK(<<>>)
<1>1. 0 \in Nat /\ DOMAIN <<>> = 1..0 /\ \A i \in 1..0 : FALSE
  OBVIOUS
<1>2. CapabilitiesOK(<<>>)
  BY <1>1 DEF CapabilitiesOK
<1>. QED
  BY <1>2

LEMMA BothSupplied ==
  ASSUME NumbersFit, Held
  PROVE  /\ FsFits(Aci.fs) /\ HeaderFits(Aci.fs) /\ Aci.services \in Seq(ServiceSet) /\ CapabilitiesOK(Aci.capabilities)
         /\ FsFits(Acid.fs) /\ Acid.services \in Seq(ServiceSet) /\ CapabilitiesOK(Acid.capabilities)
<1>1. FsFits(Aci.fs) /\ HeaderFits(Aci.fs) /\ Aci.services \in Seq(ServiceSet) /\ CapabilitiesOK(Aci.capabilities)
  <2>1. CASE pb.aci = NoData
    <3>1. Aci.fs = DefaultFs /\ Aci.services = <<>> /\ Aci.capabilities = <<>>
      BY <2>1 DEF Aci
    <3>. QED
      BY <3>1, DefaultFits, NoneOK
  <2>2. CASE pb.aci # NoData
    <3>1. Aci = pb.aci /\ pb.aci \in Acis
      BY <2>2 DEF Aci, Held
    <3>2. AccessSupplied(pb.aci)
      BY <3>1, AccessesSupplied
    <3>. QED
      BY <3>1, <3>2, SuppliedOK DEF NumbersFit
  <2>. QED
    BY <2>1, <2>2
<1>2. FsFits(Acid.fs) /\ Acid.services \in Seq(ServiceSet) /\ CapabilitiesOK(Acid.capabilities)
  <2>1. CASE pb.acid = NoData
    <3>1. Acid.fs = DefaultFs /\ Acid.services = <<>> /\ Acid.capabilities = <<>>
      BY <2>1 DEF Acid
    <3>. QED
      BY <3>1, DefaultFits, NoneOK
  <2>2. CASE pb.acid # NoData
    <3>1. Acid = pb.acid /\ pb.acid \in Acids
      BY <2>2 DEF Acid, Held
    <3>2. AccessSupplied(pb.acid)
      BY <3>1, AccessesSupplied
    <3>. QED
      BY <3>1, <3>2, SuppliedOK DEF NumbersFit
  <2>. QED
    BY <2>1, <2>2
<1>. QED
  BY <1>1, <1>2

\* A block of a section of the file, by the file's offset of the section.
LEMMA BlockOfSection ==
  ASSUME NEW S, NEW bytes \in Seq(S), NEW section \in Seq(S), NEW block \in Seq(S), NEW start \in Nat, NEW offset \in Nat,
         LiesAt(bytes, start, section), LiesAt(section, offset, block)
  PROVE  /\ SubSeq(bytes, start + offset + 1, start + offset + Len(block)) = block
         /\ start + offset + Len(block) =< Len(bytes)
<1>1. LiesAt(bytes, start + offset, block)
  BY LiesTransitive
<1>2. SubSeq(bytes, (start + offset) + 1, (start + offset) + Len(block)) = block
  BY <1>1, SliceIs
<1>. QED
  BY <1>1, <1>2 DEF LiesAt

\* What build returns opens, and each block is read where it was written.
LEMMA BuiltIs ==
  ASSUME NumbersFit, Held, NEW n, n = NpdmOf
  PROVE  LET fac == build_filesystem_access_header(Aci.fs)
             sac == build_service_access_control(Aci.services)
             kc == build_kernel_capabilities(Aci.capabilities)
             acid_fac == build_filesystem_access_control(Acid.fs)
             acid_sac == build_service_access_control(Acid.services)
             l == n.aci0.blocks
             m == n.acid.blocks
             start == n.aci_offset
         IN  /\ NpdmError(n) = "none"
             /\ ~(start + l.fac_offset + l.fac_size > n.len) /\ ~(start + l.sac_offset + l.sac_size > n.len)
             /\ ~(start + l.kc_offset + l.kc_size > n.len)
             /\ SubSeq(n.bytes, start + l.fac_offset + 1, start + l.fac_offset + l.fac_size) = fac
             /\ SubSeq(n.bytes, start + l.sac_offset + 1, start + l.sac_offset + l.sac_size) = sac
             /\ SubSeq(n.bytes, start + l.kc_offset + 1, start + l.kc_offset + l.kc_size) = kc
             /\ SubSeq(n.bytes, META_SIZE + m.fac_offset + 1, META_SIZE + m.fac_offset + m.fac_size) = acid_fac
             /\ SubSeq(n.bytes, META_SIZE + m.sac_offset + 1, META_SIZE + m.sac_offset + m.sac_size) = acid_sac
<1>1. PICK fac, sac, kc, acid_fac, acid_sac, acid_kc :
        /\ fac = build_filesystem_access_header(Aci.fs) /\ sac = build_service_access_control(Aci.services)
        /\ kc = build_kernel_capabilities(Aci.capabilities)
        /\ acid_fac = build_filesystem_access_control(Acid.fs) /\ acid_sac = build_service_access_control(Acid.services)
        /\ acid_kc = build_kernel_capabilities(Acid.capabilities)
  OBVIOUS
<1>2. /\ fac \in Seq(0..255) /\ sac \in Seq(0..255) /\ acid_fac \in Seq(0..255) /\ acid_sac \in Seq(0..255)
  BY <1>1, BothSupplied, HeaderDecodes, ServicesDecode, ControlDecodes
<1>3. PICK K1, K2 : kc \in Seq(K1) /\ acid_kc \in Seq(K2)
  BY <1>1, BothSupplied, KernelIs DEF CapabilitiesOK
<1>. DEFINE S == (-1..255) \union K1 \union K2
<1>4. /\ fac \in Seq(S) /\ sac \in Seq(S) /\ kc \in Seq(S)
      /\ acid_fac \in Seq(S) /\ acid_sac \in Seq(S) /\ acid_kc \in Seq(S) /\ HEADER_BYTE \in S /\ 0 \in S
  <2>1. \A A, B, q : A \subseteq B /\ q \in Seq(A) => q \in Seq(B)
    BY SeqMonotonic
  <2>0. PICK D : D = 0..255
    OBVIOUS
  <2>2. 0..255 \subseteq S /\ K1 \subseteq S /\ K2 \subseteq S /\ HEADER_BYTE \in S /\ 0 \in S
    BY DEF HEADER_BYTE
  <2>. HIDE DEF S
  <2>3. /\ D \subseteq S /\ fac \in Seq(D) /\ sac \in Seq(D) /\ acid_fac \in Seq(D) /\ acid_sac \in Seq(D)
    BY <1>2, <2>0, <2>2
  <2>. QED
    BY ONLY <1>3, <2>1, <2>2, <2>3, Zenon
<1>. HIDE DEF S
<1>5. PICK l, m : l = Layout(ACI0_SIZE, fac, sac, kc) /\ m = Layout(ACID_SIZE, acid_fac, acid_sac, acid_kc)
  OBVIOUS
<1>6. PICK s, t : s = SectionBytes(l, fac, sac, kc) /\ t = SectionBytes(m, acid_fac, acid_sac, acid_kc)
  OBVIOUS
<1>7. /\ l.fac_offset = ACI0_SIZE /\ l.fac_size = Len(fac) /\ l.sac_size = Len(sac) /\ l.kc_size = Len(kc)
      /\ l.sac_offset \in Nat /\ l.kc_offset \in Nat /\ l.total \in Nat
      /\ ACI0_SIZE + Len(fac) =< l.sac_offset /\ l.sac_offset + Len(sac) =< l.kc_offset
      /\ l.total = l.kc_offset + Len(kc)
      /\ s \in Seq(S) /\ Len(s) = l.total /\ LiesAt(s, l.fac_offset, fac) /\ LiesAt(s, l.sac_offset, sac)
      /\ LiesAt(s, l.kc_offset, kc)
  <2>1. PICK hd \in Nat : hd = ACI0_SIZE
    BY NpdmSizes
  <2>2. l = Layout(hd, fac, sac, kc) /\ s = SectionBytes(l, fac, sac, kc)
    BY <1>5, <1>6, <2>1
  <2>. QED
    <3>1. Laid(S, hd, fac, sac, kc, l, s)
      BY ONLY <1>4, <2>1, <2>2, SectionIs
    <3>. QED
      BY <2>1, <3>1, Zenon DEF Laid
<1>8. /\ m.fac_offset = ACID_SIZE /\ m.fac_size = Len(acid_fac) /\ m.sac_size = Len(acid_sac) /\ m.kc_size = Len(acid_kc)
      /\ m.sac_offset \in Nat /\ m.kc_offset \in Nat /\ m.total \in Nat
      /\ ACID_SIZE + Len(acid_fac) =< m.sac_offset /\ m.sac_offset + Len(acid_sac) =< m.kc_offset
      /\ m.total = m.kc_offset + Len(acid_kc)
      /\ t \in Seq(S) /\ Len(t) = m.total /\ LiesAt(t, m.fac_offset, acid_fac) /\ LiesAt(t, m.sac_offset, acid_sac)
  <2>1. PICK hd \in Nat : hd = ACID_SIZE
    BY NpdmSizes
  <2>2. m = Layout(hd, acid_fac, acid_sac, acid_kc) /\ t = SectionBytes(m, acid_fac, acid_sac, acid_kc)
    BY <1>5, <1>6, <2>1
  <2>. QED
    <3>1. Laid(S, hd, acid_fac, acid_sac, acid_kc, m, t)
      BY ONLY <1>4, <2>1, <2>2, SectionIs
    <3>. QED
      BY <2>1, <3>1, Zenon DEF Laid
<1>9. PICK lt, mt, start : lt = l.total /\ mt = m.total /\ start = align_up_16(META_SIZE + mt)
  OBVIOUS
<1>10. lt \in Nat /\ mt \in Nat /\ META_SIZE \in Nat /\ ACI0_SIZE \in Nat /\ ACID_SIZE \in Nat
  BY <1>7, <1>8, <1>9, NpdmSizes
<1>11. start \in Nat /\ start >= META_SIZE + mt
  <2>1. PICK v \in Nat : v = META_SIZE + mt
    BY <1>10
  <2>2. align_up_16(v) \in Nat /\ align_up_16(v) >= v
    BY AlignUpIs, SMTT(60)
  <2>. QED
    BY <1>9, <2>1, <2>2
<1>. DEFINE h == [i \in 1..META_SIZE |-> HEADER_BYTE]
            z == Zeros(start - META_SIZE - mt)
<1>12. /\ n.len = start + lt /\ n.magic = "META" /\ n.acid_offset = META_SIZE /\ n.acid_size = mt
       /\ n.aci_offset = start /\ n.aci_size = lt /\ n.acid.magic = "ACID" /\ n.acid.blocks = m
       /\ n.aci0.magic = "ACI0" /\ n.aci0.blocks = l /\ n.bytes = h \o t \o z \o s
  BY <1>1, <1>5, <1>6, <1>9 DEF NpdmOf
<1>13. h \in Seq(S) /\ Len(h) = META_SIZE
  <2>1. h \in [1..META_SIZE -> S]
    BY <1>4
  <2>. HIDE DEF h
  <2>. QED
    BY <1>10, <2>1, ListIsSeq
<1>14. z \in Seq(S) /\ Len(z) = start - META_SIZE - mt
  <2>1. PICK k \in Nat : k = start - META_SIZE - mt
    BY <1>10, <1>11
  <2>2. Zeros(k) \in [1..k -> S]
    BY <1>4 DEF Zeros
  <2>. QED
    BY <2>1, <2>2, ListIsSeq
<1>. HIDE DEF h, z
<1>15. PICK b2 : b2 = h \o t
  OBVIOUS
<1>16. b2 \in Seq(S) /\ Len(b2) = Len(h) + Len(t) /\ LiesAt(b2, Len(h), t)
  BY <1>8, <1>13, <1>15, LiesAppended
<1>17. PICK b3 : b3 = b2 \o z
  OBVIOUS
<1>18. b3 \in Seq(S) /\ Len(b3) = Len(b2) + Len(z) /\ LiesAt(b3, 0, b2)
  BY <1>14, <1>16, <1>17, LiesAppended
<1>19. PICK b4 : b4 = b3 \o s
  OBVIOUS
<1>20. b4 \in Seq(S) /\ Len(b4) = Len(b3) + Len(s) /\ LiesAt(b4, 0, b3) /\ LiesAt(b4, Len(b3), s)
  BY <1>7, <1>18, <1>19, LiesAppended
<1>21. n.bytes = b4
  BY <1>12, <1>15, <1>17, <1>19
<1>22. Len(b3) = start /\ Len(b4) = start + lt
  <2>1. Len(b2) = META_SIZE + mt
    BY <1>8, <1>9, <1>13, <1>16
  <2>2. Len(b3) = start
    BY <1>10, <1>11, <1>14, <1>18, <2>1
  <2>3. Len(s) = lt
    BY <1>7, <1>9
  <2>. QED
    BY <1>20, <2>2, <2>3
<1>23. LiesAt(b4, start, s)
  BY <1>20, <1>22
<1>24. LiesAt(b4, META_SIZE, t)
  <2>1. LiesAt(b3, META_SIZE, t)
    BY <1>8, <1>13, <1>16, <1>18, LiesInPrefix
  <2>. QED
    BY <1>8, <1>18, <1>20, <2>1, LiesInPrefix
<1>25. /\ SubSeq(b4, start + ACI0_SIZE + 1, start + ACI0_SIZE + Len(fac)) = fac
       /\ start + ACI0_SIZE + Len(fac) =< Len(b4)
  <2>1. LiesAt(s, ACI0_SIZE, fac) /\ s \in Seq(S)
    BY <1>7
  <2>. QED
    BY ONLY <1>4, <1>10, <1>11, <1>20, <1>23, <2>1, BlockOfSection
<1>26. /\ SubSeq(b4, start + l.sac_offset + 1, start + l.sac_offset + Len(sac)) = sac
       /\ start + l.sac_offset + Len(sac) =< Len(b4)
  BY <1>4, <1>7, <1>11, <1>20, <1>23, BlockOfSection
<1>27. /\ SubSeq(b4, start + l.kc_offset + 1, start + l.kc_offset + Len(kc)) = kc
       /\ start + l.kc_offset + Len(kc) =< Len(b4)
  BY <1>4, <1>7, <1>11, <1>20, <1>23, BlockOfSection
<1>28. SubSeq(b4, META_SIZE + ACID_SIZE + 1, META_SIZE + ACID_SIZE + Len(acid_fac)) = acid_fac
  <2>1. LiesAt(t, ACID_SIZE, acid_fac) /\ t \in Seq(S)
    BY <1>8
  <2>2. PICK md \in Nat : md = META_SIZE
    BY <1>10
  <2>3. LiesAt(b4, md, t)
    BY <1>24, <2>2
  <2>4. /\ SubSeq(b4, md + ACID_SIZE + 1, md + ACID_SIZE + Len(acid_fac)) = acid_fac
        /\ md + ACID_SIZE + Len(acid_fac) =< Len(b4)
    BY ONLY <1>4, <1>10, <1>20, <2>1, <2>3, md \in Nat, BlockOfSection
  <2>. QED
    BY <2>2, <2>4
<1>29. SubSeq(b4, META_SIZE + m.sac_offset + 1, META_SIZE + m.sac_offset + Len(acid_sac)) = acid_sac
  <2>1. PICK o \in Nat : o = m.sac_offset
    BY <1>8
  <2>2. LiesAt(t, o, acid_sac) /\ t \in Seq(S)
    BY <1>8, <2>1
  <2>3. PICK md \in Nat : md = META_SIZE
    BY <1>10
  <2>4. LiesAt(b4, md, t)
    BY <1>24, <2>3
  <2>5. /\ SubSeq(b4, md + o + 1, md + o + Len(acid_sac)) = acid_sac
        /\ md + o + Len(acid_sac) =< Len(b4)
    BY ONLY <1>4, <1>20, <2>2, <2>4, md \in Nat, o \in Nat, BlockOfSection
  <2>. QED
    BY <2>1, <2>3, <2>5
<1>30. NpdmError(n) = "none"
  <2>1. lt >= ACI0_SIZE /\ mt >= ACID_SIZE
    <3>1. /\ Len(fac) \in Nat /\ Len(sac) \in Nat /\ Len(kc) \in Nat
          /\ Len(acid_fac) \in Nat /\ Len(acid_sac) \in Nat /\ Len(acid_kc) \in Nat
      BY <1>4, LenProperties
    <3>2. lt >= ACI0_SIZE
      <4>1. PICK f, g, k, so, ko : /\ f = Len(fac) /\ g = Len(sac) /\ k = Len(kc)
                                   /\ so = l.sac_offset /\ ko = l.kc_offset
        OBVIOUS
      <4>2. /\ f \in Nat /\ g \in Nat /\ k \in Nat /\ so \in Nat /\ ko \in Nat
            /\ ACI0_SIZE + f =< so /\ so + g =< ko /\ lt = ko + k
        BY <1>7, <1>9, <3>1, <4>1, Zenon
      <4>. QED
        BY ONLY <1>10, <4>2
    <3>3. mt >= ACID_SIZE
      <4>1. PICK f, g, k, so, ko : /\ f = Len(acid_fac) /\ g = Len(acid_sac) /\ k = Len(acid_kc)
                                   /\ so = m.sac_offset /\ ko = m.kc_offset
        OBVIOUS
      <4>2. /\ f \in Nat /\ g \in Nat /\ k \in Nat /\ so \in Nat /\ ko \in Nat
            /\ ACID_SIZE + f =< so /\ so + g =< ko /\ mt = ko + k
        BY <1>8, <1>9, <3>1, <4>1, Zenon
      <4>. QED
        BY ONLY <1>10, <4>2
    <3>. QED
      BY <3>2, <3>3
  <2>2. ~(start + lt < META_SIZE) /\ ~(META_SIZE + mt > start + lt) /\ ~(mt < ACID_SIZE) /\ ~(lt < ACI0_SIZE)
        /\ ~(start + lt > start + lt)
    BY <1>10, <1>11, <2>1
  <2>. QED
    BY <1>12, <2>2, Zenon DEF NpdmError
<1>31. /\ ~(start + ACI0_SIZE + Len(fac) > n.len) /\ ~(start + l.sac_offset + Len(sac) > n.len)
       /\ ~(start + l.kc_offset + Len(kc) > n.len)
  <2>1. Len(fac) \in Nat /\ Len(sac) \in Nat /\ Len(kc) \in Nat
    BY <1>4, LenProperties
  <2>2. PICK f, g, k, so, ko, z1 : /\ f = Len(fac) /\ g = Len(sac) /\ k = Len(kc) /\ z1 = n.len
                                   /\ so = l.sac_offset /\ ko = l.kc_offset
    OBVIOUS
  <2>3. /\ f \in Nat /\ g \in Nat /\ k \in Nat /\ so \in Nat /\ ko \in Nat /\ z1 = start + lt
        /\ start + ACI0_SIZE + f =< start + lt /\ start + so + g =< start + lt /\ start + ko + k =< start + lt
    BY <1>7, <1>12, <1>22, <1>25, <1>26, <1>27, <2>1, <2>2, Zenon
  <2>4. ~(start + ACI0_SIZE + f > z1) /\ ~(start + so + g > z1) /\ ~(start + ko + k > z1)
    BY ONLY <1>10, <1>11, <2>3
  <2>. QED
    BY <2>2, <2>4, Zenon
<1>. QED
  BY <1>1, <1>7, <1>8, <1>12, <1>21, <1>25, <1>26, <1>27, <1>28, <1>29, <1>30, <1>31, ZenonT(60)

\* The bytes and the file are the builder's alone.
LEMMA SameBuilder ==
  ASSUME pb' = pb
  PROVE  Aci' = Aci /\ Acid' = Acid /\ NpdmOf' = NpdmOf /\ (Held => Held')
  BY DEF Aci, Acid, NpdmOf, Held

LEMMA NpdmInvInitially == NumbersFit /\ NpdmInit => NpdmInv
  BY DEF NpdmInit, NpdmInv

LEMMA NpdmInvStep ==
  ASSUME NpdmInv, [NpdmNext]_npdmVars
  PROVE  NpdmInv'
<1>0. NumbersFit'
  BY DEF NpdmInv, NumbersFit
<1>. USE DEF NpdmInv
<1>1. ASSUME NEW m \in Metadatas, NewNpdm(m) PROVE NpdmInv'
  BY <1>0, <1>1 DEF NewNpdm, Held
<1>2. ASSUME NEW a \in Acis, WithData("aci", a) PROVE NpdmInv'
  <2>1. pb' = [metadata |-> pb.metadata, aci |-> a, acid |-> pb.acid]
    BY <1>2 DEF WithData, Held
  <2>2. Held'
    BY <1>2, <2>1 DEF WithData, Held
  <2>. QED
    BY <1>0, <1>2, <2>2 DEF WithData
<1>3. ASSUME NEW a \in Acids, WithData("acid", a) PROVE NpdmInv'
  <2>1. pb' = [metadata |-> pb.metadata, aci |-> pb.aci, acid |-> a]
    BY <1>3 DEF WithData, Held
  <2>2. Held'
    BY <1>3, <2>1 DEF WithData, Held
  <2>. QED
    BY <1>0, <1>3, <2>2 DEF WithData
<1>4. CASE BuildNpdm
  <2>1. pb' = pb /\ npdm' = NpdmOf /\ npdmPhase = "set" /\ npdmPhase' = "built"
        /\ npdmOpen' = npdmOpen /\ npdmResult' = npdmResult
    BY <1>4 DEF BuildNpdm
  <2>2. Held' /\ NpdmOf' = NpdmOf
    BY <2>1, SameBuilder
  <2>. QED
    BY <1>0, <2>1, <2>2
<1>5. CASE OpenBuiltNpdm
  <2>1. npdmPhase = "built" /\ npdmPhase' = "built" /\ npdm' = npdm /\ pb' = pb /\ npdmResult' = npdmResult
        /\ npdmOpen' = IF NpdmError(npdm) = "none" THEN "yes" ELSE NpdmError(npdm)
    BY <1>5 DEF OpenBuiltNpdm, OpenNpdm
  <2>2. Held' /\ NpdmOf' = NpdmOf /\ Aci' = Aci
    BY <2>1, SameBuilder
  <2>3. npdmOpen' = "yes"
    BY <2>1, BuiltIs
  <2>. QED
    BY <1>0, <2>1, <2>2, <2>3
<1>6. ASSUME NEW n \in Npdms, OpenForeignNpdm(n) PROVE NpdmInv'
  BY <1>0, <1>6 DEF OpenForeignNpdm, OpenNpdm
<1>. DEFINE Reads(name, offset, size) ==
              npdmPhase = "built" =>
                /\ ~(npdm.aci_offset + offset + size > npdm.len)
                /\ [status |-> "ok", block |-> name,
                    data |-> SubSeq(npdm.bytes, npdm.aci_offset + offset + 1, npdm.aci_offset + offset + size)] \in
                     {[status |-> "ok", block |-> "fac", data |-> build_filesystem_access_header(Aci.fs)],
                      [status |-> "ok", block |-> "sac", data |-> build_service_access_control(Aci.services)],
                      [status |-> "ok", block |-> "kc", data |-> build_kernel_capabilities(Aci.capabilities)]}
<1>7. /\ Reads("fac", npdm.aci0.blocks.fac_offset, npdm.aci0.blocks.fac_size)
      /\ Reads("sac", npdm.aci0.blocks.sac_offset, npdm.aci0.blocks.sac_size)
      /\ Reads("kc", npdm.aci0.blocks.kc_offset, npdm.aci0.blocks.kc_size)
  BY BuiltIs, Zenon
<1>8. ASSUME NEW name, NEW offset, NEW size, Block(name, offset, size), Reads(name, offset, size) PROVE NpdmInv'
  <2>1. /\ npdmOpen = "yes" /\ npdmPhase' = npdmPhase /\ npdm' = npdm /\ pb' = pb /\ npdmOpen' = npdmOpen
        /\ npdmResult' = IF npdm.aci_offset + offset + size > npdm.len
                         THEN [status |-> "err", error |-> "Aci0InnerSectionOutOfBounds"]
                         ELSE [status |-> "ok", block |-> name,
                               data |-> SubSeq(npdm.bytes, npdm.aci_offset + offset + 1, npdm.aci_offset + offset + size)]
    BY <1>8 DEF Block
  <2>2. NpdmOf' = NpdmOf /\ Aci' = Aci /\ (Held => Held')
    BY <2>1, SameBuilder
  <2>3. npdmPhase # "new" /\ npdmPhase # "set"
    BY <2>1
  <2>4. CASE npdmPhase # "built"
    BY <1>0, <2>1, <2>2, <2>3, <2>4
  <2>5. CASE npdmPhase = "built"
    <3>1. PICK r, from, to : /\ from = npdm.aci_offset + offset + 1 /\ to = npdm.aci_offset + offset + size
                             /\ r = [status |-> "ok", block |-> name, data |-> SubSeq(npdm.bytes, from, to)]
      OBVIOUS
    <3>2. /\ ~(to > npdm.len)
          /\ r \in {[status |-> "ok", block |-> "fac", data |-> build_filesystem_access_header(Aci.fs)],
                    [status |-> "ok", block |-> "sac", data |-> build_service_access_control(Aci.services)],
                    [status |-> "ok", block |-> "kc", data |-> build_kernel_capabilities(Aci.capabilities)]}
      BY <1>8, <2>5, <3>1, Zenon
    <3>3. npdmResult' = IF to > npdm.len THEN [status |-> "err", error |-> "Aci0InnerSectionOutOfBounds"] ELSE r
      BY <2>1, <3>1, Zenon
    <3>5. npdmResult' = r
      BY <3>2, <3>3
    <3>. QED
      BY <1>0, <2>1, <2>2, <2>5, <3>2, <3>5, Zenon
  <2>. QED
    BY <2>4, <2>5
<1>9. CASE aci0_fac_data
  BY <1>7, <1>8, <1>9, Zenon DEF aci0_fac_data
<1>10. CASE aci0_sac_data
  BY <1>7, <1>8, <1>10, Zenon DEF aci0_sac_data
<1>11. CASE aci0_kc_data
  BY <1>7, <1>8, <1>11, Zenon DEF aci0_kc_data
<1>12. CASE UNCHANGED npdmVars
  <2>1. pb' = pb /\ npdmPhase' = npdmPhase /\ npdm' = npdm /\ npdmOpen' = npdmOpen /\ npdmResult' = npdmResult
    BY <1>12 DEF npdmVars
  <2>2. Aci' = Aci /\ NpdmOf' = NpdmOf /\ (Held => Held')
    BY <2>1, SameBuilder
  <2>. QED
    BY <1>0, <2>1, <2>2
<1>. HIDE DEF NpdmInv
<1>. QED
  BY <1>1, <1>2, <1>3, <1>4, <1>5, <1>6, <1>9, <1>10, <1>11, <1>12 DEF NpdmNext

LEMMA NpdmInvAnswers == NpdmInv => AccessComesBack
<1>. SUFFICES ASSUME NpdmInv, npdmPhase = "built" PROVE AccessComesBack
  BY DEF AccessComesBack
<1>1. Held /\ NumbersFit /\ npdm = NpdmOf /\ npdmOpen \in {"no", "yes"}
  BY DEF NpdmInv
<1>2. npdmResult \in {[status |-> "none"],
                      [status |-> "ok", block |-> "fac", data |-> build_filesystem_access_header(Aci.fs)],
                      [status |-> "ok", block |-> "sac", data |-> build_service_access_control(Aci.services)],
                      [status |-> "ok", block |-> "kc", data |-> build_kernel_capabilities(Aci.capabilities)]}
  BY DEF NpdmInv
<1>3. /\ npdmResult.status # "err"
      /\ npdmResult.status = "ok" /\ npdmResult.block = "fac" => npdmResult.data = build_filesystem_access_header(Aci.fs)
      /\ npdmResult.status = "ok" /\ npdmResult.block = "sac" => npdmResult.data = build_service_access_control(Aci.services)
  BY <1>2
<1>4. /\ FsFits(Aci.fs) /\ HeaderFits(Aci.fs) /\ Aci.services \in Seq(ServiceSet)
      /\ FsFits(Acid.fs) /\ Acid.services \in Seq(ServiceSet)
  BY <1>1, BothSupplied
<1>5. PICK h, s, c, t : h = build_filesystem_access_header(Aci.fs) /\ s = build_service_access_control(Aci.services)
                        /\ c = build_filesystem_access_control(Acid.fs) /\ t = build_service_access_control(Acid.services)
  OBVIOUS
<1>6. DecodeHeader(h) = [permissions |-> Aci.fs.permissions, content_owner_ids |-> Aci.fs.content_owner_ids,
                         save_data_owner_ids |-> Aci.fs.save_data_owner_ids, ends |-> Len(h)]
  BY <1>4, <1>5, HeaderDecodes
<1>7. DecodeServices(s) = Requested(Aci.services) /\ DecodeServices(t) = Requested(Acid.services)
  BY <1>4, <1>5, ServicesDecode
<1>8. ListAt(c, 4, 5) = <<Acid.fs.permissions, Acid.fs.content_owner_id_min, Acid.fs.content_owner_id_max,
                          Acid.fs.save_data_owner_id_min, Acid.fs.save_data_owner_id_max>>
  BY <1>4, <1>5, ControlDecodes
<1>9. /\ AcidBlock(npdm.acid.blocks.fac_offset, npdm.acid.blocks.fac_size) = c
      /\ AcidBlock(npdm.acid.blocks.sac_offset, npdm.acid.blocks.sac_size) = t
  BY <1>1, <1>5, BuiltIs, Zenon DEF AcidBlock
<1>. QED
  BY <1>1, <1>3, <1>5, <1>6, <1>7, <1>8, <1>9 DEF AccessComesBack

\* Whatever lists and names the sections are given, both read back from the file as
\* what the builder was given, and no accessor of a file it built fails.
THEOREM NpdmAccessComesBack == NumbersFit /\ NpdmSpec => []AccessComesBack
<1>1. NpdmInv /\ [NpdmNext]_npdmVars => NpdmInv'
  BY NpdmInvStep
<1>. QED
  BY <1>1, NpdmInvInitially, NpdmInvAnswers, PTL DEF NpdmSpec

(***************************************************************************)
(* KIP1                                                                    *)
(***************************************************************************)
\* Three streams back to back: where each one lies.
LEMMA ThreeParts ==
  ASSUME NEW S, NEW x \in Seq(S), NEW y \in Seq(S), NEW z \in Seq(S)
  PROVE  /\ Len(x \o y \o z) = Len(x) + Len(y) + Len(z)
         /\ SubSeq(x \o y \o z, 1, Len(x)) = x
         /\ SubSeq(x \o y \o z, Len(x) + 1, Len(x) + Len(y)) = y
         /\ SubSeq(x \o y \o z, Len(x) + Len(y) + 1, Len(x) + Len(y) + Len(z)) = z
<1>. DEFINE xy == x \o y
            s == xy \o z
<1>1. Len(x) \in Nat /\ Len(y) \in Nat /\ Len(z) \in Nat
  BY LenProperties
<1>2. xy \in Seq(S) /\ Len(xy) = Len(x) + Len(y) /\ LiesAt(xy, 0, x) /\ LiesAt(xy, Len(x), y)
  BY LiesAppended, Zenon
<1>. HIDE DEF xy
<1>3. s \in Seq(S) /\ Len(s) = Len(xy) + Len(z) /\ LiesAt(s, 0, xy) /\ LiesAt(s, Len(xy), z)
  BY <1>2, LiesAppended, Zenon
<1>. HIDE DEF s
<1>4. LiesAt(s, 0, x) /\ LiesAt(s, Len(x), y)
  BY <1>2, <1>3, LiesInPrefix, Zenon
<1>5. SubSeq(s, 0 + 1, 0 + Len(x)) = x
  BY <1>3, <1>4, SliceIs, Zenon
<1>6. SubSeq(s, Len(x) + 1, Len(x) + Len(y)) = y
  BY <1>3, <1>4, SliceIs, Zenon
<1>7. SubSeq(s, Len(xy) + 1, Len(xy) + Len(z)) = z
  BY <1>3, SliceIs, Zenon
<1>8. /\ Len(s) = Len(x) + Len(y) + Len(z)
      /\ SubSeq(s, 1, Len(x)) = x
      /\ SubSeq(s, Len(x) + 1, Len(x) + Len(y)) = y
      /\ SubSeq(s, Len(x) + Len(y) + 1, Len(x) + Len(y) + Len(z)) = z
  BY <1>1, <1>2, <1>3, <1>5, <1>6, <1>7
<1>. QED
  BY <1>8, Zenon DEF s, xy

(***************************************************************************)
(* The inductive invariant                                                 *)
(***************************************************************************)
Stored == {"text", "rodata", "data"}

\* A segment the builder holds is one its setter was given.
HoldsGiven == \A f \in Stored : f \in DOMAIN b /\ b[f] \in Given(f) \union {NotSet}

\* What build returned is what the builder, unchanged since, describes.
ImageCurrent == phase = "built" => BuildError = "none" /\ image = ImageOf

\* The buffer being read is the image, or came from outside.
ReadsKnown ==
  /\ rpc \in {"none", "ready", "segment", "done"}
  /\ rpc # "none" => IF phase = "built" THEN kip = image /\ rpc # "done" ELSE kip \in Kips

\* Only an accepted buffer is ever sliced.
ReadsAccepted == rpc \in {"ready", "segment"} => HeaderError(kip) = "none"

\* The segment in hand is a slice of the buffer, and the result is of it.
SliceCurrent ==
  rpc = "segment" =>
    /\ seg.index \in 0..BSS_INDEX
    /\ seg = SegmentOf(kip, seg.index)

ResultOfCall ==
  CASE rpc = "none"    -> result = NoResult
    [] rpc = "ready"   -> result.status \in {"none", "absent"}
    [] rpc = "segment" -> result = NoResult \/ result = Expanded(seg)
    [] rpc = "done"    -> result.status = "err"

IInv == HoldsGiven /\ ImageCurrent /\ ReadsKnown /\ ReadsAccepted /\ SliceCurrent /\ ResultOfCall

(***************************************************************************)
(* What the reader accepts, and what build writes                          *)
(***************************************************************************)
\* try_from_bytes returns a Kip1 only when all four segments are inside.
LEMMA AcceptedInside ==
  ASSUME NEW k, HeaderError(k) = "none", NEW i \in 0..3
  PROVE  ~OutOfBounds(k, i)
  BY DEF HeaderError, LOADED_SEGMENT_COUNT

\* A builder that passes validation holds three segments callers gave it.
LEMMA BuiltParts ==
  ASSUME HoldsGiven, BuildError = "none"
  PROVE  /\ b.text \in Given("text") /\ b.rodata \in Given("rodata") /\ b.data \in Given("data")
         /\ (b.bss_vaddr = NotSet) <=> (b.bss_size = NotSet)
<1>1. b.text # NotSet /\ b.rodata # NotSet /\ b.data # NotSet
  BY DEF BuildError
<1>2. (b.bss_vaddr = NotSet) <=> (b.bss_size = NotSet)
  BY DEF BuildError
<1>. QED
  BY <1>1, <1>2 DEF HoldsGiven, Stored

\* The three streams of the payload, by the sizes the header records.
LEMMA BuiltLayout ==
  ASSUME HoldsGiven, BuildError = "none"
  PROVE  /\ Len(Compress(b.text)) \in Nat /\ Len(Compress(b.rodata)) \in Nat /\ Len(Compress(b.data)) \in Nat
         /\ Len(Payload) = Len(Compress(b.text)) + Len(Compress(b.rodata)) + Len(Compress(b.data))
         /\ 256 + Len(Payload) =< USIZE_MAX
         /\ SubSeq(Payload, 1, Len(Compress(b.text))) = Compress(b.text)
         /\ SubSeq(Payload, Len(Compress(b.text)) + 1, Len(Compress(b.text)) + Len(Compress(b.rodata)))
              = Compress(b.rodata)
         /\ SubSeq(Payload, Len(Compress(b.text)) + Len(Compress(b.rodata)) + 1,
                   Len(Compress(b.text)) + Len(Compress(b.rodata)) + Len(Compress(b.data)))
              = Compress(b.data)
<1>. DEFINE x == Compress(b.text)
            y == Compress(b.rodata)
            z == Compress(b.data)
<1>1. b.text \in Given("text") /\ b.rodata \in Given("rodata") /\ b.data \in Given("data")
  BY BuiltParts
<1>2. x \in Seq(0..255) /\ y \in Seq(0..255) /\ z \in Seq(0..255)
  BY <1>1, BlzRoundTrip, ZenonT(60)
<1>3. USIZE_MAX \in Nat /\ 256 + Len(x) + Len(y) + Len(z) =< USIZE_MAX
  BY <1>1, ImagesFit
<1>4. Payload = x \o y \o z
  BY DEF Payload
<1>. HIDE DEF x, y, z
<1>5. Len(x) \in Nat /\ Len(y) \in Nat /\ Len(z) \in Nat
  BY <1>2, LenProperties
<1>6. /\ Len(Payload) = Len(x) + Len(y) + Len(z)
      /\ SubSeq(Payload, 1, Len(x)) = x
      /\ SubSeq(Payload, Len(x) + 1, Len(x) + Len(y)) = y
      /\ SubSeq(Payload, Len(x) + Len(y) + 1, Len(x) + Len(y) + Len(z)) = z
  <2>1. /\ Len(x \o y \o z) = Len(x) + Len(y) + Len(z)
        /\ SubSeq(x \o y \o z, 1, Len(x)) = x
        /\ SubSeq(x \o y \o z, Len(x) + 1, Len(x) + Len(y)) = y
        /\ SubSeq(x \o y \o z, Len(x) + Len(y) + 1, Len(x) + Len(y) + Len(z)) = z
    BY ONLY <1>2, ThreeParts, SMTT(30)
  <2>. QED
    BY <1>4, <2>1
<1>7. 256 + Len(Payload) =< USIZE_MAX
  BY <1>3, <1>5, <1>6
<1>. QED
  BY <1>5, <1>6, <1>7, Zenon DEF x, y, z

\* The reader's running sum over the descriptors build wrote.
LEMMA BuiltOffsets ==
  ASSUME HoldsGiven, BuildError = "none"
  PROVE  LET x == Len(Compress(b.text))
             y == Len(Compress(b.rodata))
             z == Len(Compress(b.data))
         IN  /\ OffsetOf(ImageOf, 0) = 256         /\ EndOf(ImageOf, 0) = 256 + x
             /\ OffsetOf(ImageOf, 1) = 256 + x     /\ EndOf(ImageOf, 1) = 256 + x + y
             /\ OffsetOf(ImageOf, 2) = 256 + x + y /\ EndOf(ImageOf, 2) = 256 + x + y + z
             /\ OffsetOf(ImageOf, 3) = 256 + x + y + z /\ EndOf(ImageOf, 3) = 256 + x + y + z
             /\ ImageOf.len = 256 + x + y + z
<1>. DEFINE x == Len(Compress(b.text))
            y == Len(Compress(b.rodata))
            z == Len(Compress(b.data))
<1>1. x \in Nat /\ y \in Nat /\ z \in Nat /\ Len(Payload) = x + y + z
  BY BuiltLayout
<1>2. ImageOf.segments = Segments /\ ImageOf.len = 256 + Len(Payload)
  BY DEF ImageOf, HEADER_SIZE
<1>3. /\ Segments[0].comp_size = x
      /\ Segments[1].comp_size = y
      /\ Segments[2].comp_size = z
  BY DEF Segments, StoredSegment, PlainSegment
<1>. HIDE DEF x, y, z
<1>4. /\ stored_size(ImageOf, 0) = x /\ stored_size(ImageOf, 1) = y
      /\ stored_size(ImageOf, 2) = z /\ stored_size(ImageOf, 3) = 0
  BY <1>2, <1>3 DEF stored_size, BSS_INDEX
<1>5. /\ OffsetOf(ImageOf, 0) = 256 /\ OffsetOf(ImageOf, 1) = 256 + x
      /\ OffsetOf(ImageOf, 2) = 256 + x + y /\ OffsetOf(ImageOf, 3) = 256 + x + y + z
  BY <1>1, <1>4 DEF OffsetOf, Before, HEADER_SIZE
<1>6. /\ EndOf(ImageOf, 0) = 256 + x /\ EndOf(ImageOf, 1) = 256 + x + y
      /\ EndOf(ImageOf, 2) = 256 + x + y + z /\ EndOf(ImageOf, 3) = 256 + x + y + z
  BY <1>1, <1>4, <1>5 DEF EndOf
<1>7. ImageOf.len = 256 + x + y + z
  BY <1>1, <1>2
<1>. QED
  BY <1>5, <1>6, <1>7 DEF x, y, z

\* The reader accepts whatever build returns.
LEMMA BuiltAccepted ==
  ASSUME HoldsGiven, BuildError = "none"
  PROVE  HeaderError(ImageOf) = "none"
<1>. DEFINE x == Len(Compress(b.text))
            y == Len(Compress(b.rodata))
            z == Len(Compress(b.data))
<1>1. x \in Nat /\ y \in Nat /\ z \in Nat /\ 256 + x + y + z =< USIZE_MAX /\ USIZE_MAX \in Nat
  BY BuiltLayout, ImagesFit
<1>2. /\ EndOf(ImageOf, 0) = 256 + x /\ EndOf(ImageOf, 1) = 256 + x + y
      /\ EndOf(ImageOf, 2) = 256 + x + y + z /\ EndOf(ImageOf, 3) = 256 + x + y + z
      /\ ImageOf.len = 256 + x + y + z
  BY BuiltOffsets
<1>. HIDE DEF x, y, z
<1>3. \A i \in 0..3 : ~OutOfBounds(ImageOf, i)
  <2>. SUFFICES ASSUME NEW i \in 0..3 PROVE ~OutOfBounds(ImageOf, i)
    OBVIOUS
  <2>1. i = 0 \/ i = 1 \/ i = 2 \/ i = 3
    OBVIOUS
  <2>. QED
    BY <1>1, <1>2, <2>1 DEF OutOfBounds
<1>4. ImageOf.magic = KIP1_MAGIC
  BY DEF ImageOf
<1>5. ~(ImageOf.len < HEADER_SIZE)
  BY <1>1, <1>2 DEF HEADER_SIZE
<1>. QED
  BY <1>3, <1>4, <1>5 DEF HeaderError, LOADED_SEGMENT_COUNT

\* segment(i) of what build returns: the streams, and nothing for bss.
LEMMA BuiltSlices ==
  ASSUME HoldsGiven, BuildError = "none"
  PROVE  /\ \A i \in 0..2 : SegmentOf(ImageOf, i).stored = Compress(Supplied[i + 1])
         /\ SegmentOf(ImageOf, 3).stored = <<>>
<1>. DEFINE x == Len(Compress(b.text))
            y == Len(Compress(b.rodata))
            z == Len(Compress(b.data))
<1>1. x \in Nat /\ y \in Nat /\ z \in Nat /\ Len(Payload) = x + y + z
  BY BuiltLayout
<1>2. /\ OffsetOf(ImageOf, 0) = 256         /\ EndOf(ImageOf, 0) = 256 + x
      /\ OffsetOf(ImageOf, 1) = 256 + x     /\ EndOf(ImageOf, 1) = 256 + x + y
      /\ OffsetOf(ImageOf, 2) = 256 + x + y /\ EndOf(ImageOf, 2) = 256 + x + y + z
      /\ OffsetOf(ImageOf, 3) = 256 + x + y + z /\ EndOf(ImageOf, 3) = 256 + x + y + z
  BY BuiltOffsets
<1>3. \A i \in 0..3 : SegmentOf(ImageOf, i).stored
                      = SubSeq(Payload, OffsetOf(ImageOf, i) - 256 + 1, EndOf(ImageOf, i) - 256)
  <2>1. ImageOf.payload = Payload
    BY DEF ImageOf
  <2>. QED
    BY <2>1 DEF SegmentOf, HEADER_SIZE
<1>4. /\ SubSeq(Payload, 1, x) = Compress(b.text)
      /\ SubSeq(Payload, x + 1, x + y) = Compress(b.rodata)
      /\ SubSeq(Payload, x + y + 1, x + y + z) = Compress(b.data)
  BY BuiltLayout
<1>5. SubSeq(Payload, x + y + z + 1, x + y + z) = <<>>
  <2>1. Payload \in Seq(0..255)
    <3>1. b.text \in Given("text") /\ b.rodata \in Given("rodata") /\ b.data \in Given("data")
      BY BuiltParts
    <3>2. Compress(b.text) \in Seq(0..255) /\ Compress(b.rodata) \in Seq(0..255) /\ Compress(b.data) \in Seq(0..255)
      BY <3>1, BlzRoundTrip, ZenonT(60)
    <3>. QED
      BY <3>2 DEF Payload
  <2>. QED
    BY <1>1, <2>1, EmptySlice
<1>. HIDE DEF x, y, z
<1>6. /\ OffsetOf(ImageOf, 0) - 256 + 1 = 1 /\ EndOf(ImageOf, 0) - 256 = x
      /\ OffsetOf(ImageOf, 1) - 256 + 1 = x + 1 /\ EndOf(ImageOf, 1) - 256 = x + y
      /\ OffsetOf(ImageOf, 2) - 256 + 1 = x + y + 1 /\ EndOf(ImageOf, 2) - 256 = x + y + z
      /\ OffsetOf(ImageOf, 3) - 256 + 1 = x + y + z + 1 /\ EndOf(ImageOf, 3) - 256 = x + y + z
  BY <1>1, <1>2, SMTT(60)
<1>7. /\ SegmentOf(ImageOf, 0).stored = Compress(b.text)
      /\ SegmentOf(ImageOf, 1).stored = Compress(b.rodata)
      /\ SegmentOf(ImageOf, 2).stored = Compress(b.data)
      /\ SegmentOf(ImageOf, 3).stored = <<>>
  <2>1. /\ SegmentOf(ImageOf, 0).stored = SubSeq(Payload, OffsetOf(ImageOf, 0) - 256 + 1, EndOf(ImageOf, 0) - 256)
        /\ SegmentOf(ImageOf, 1).stored = SubSeq(Payload, OffsetOf(ImageOf, 1) - 256 + 1, EndOf(ImageOf, 1) - 256)
        /\ SegmentOf(ImageOf, 2).stored = SubSeq(Payload, OffsetOf(ImageOf, 2) - 256 + 1, EndOf(ImageOf, 2) - 256)
        /\ SegmentOf(ImageOf, 3).stored = SubSeq(Payload, OffsetOf(ImageOf, 3) - 256 + 1, EndOf(ImageOf, 3) - 256)
    BY <1>3
  <2>2. SegmentOf(ImageOf, 0).stored = SubSeq(Payload, 1, x)
    BY <1>6, <2>1
  <2>3. SegmentOf(ImageOf, 1).stored = SubSeq(Payload, x + 1, x + y)
    BY <1>6, <2>1
  <2>4. SegmentOf(ImageOf, 2).stored = SubSeq(Payload, x + y + 1, x + y + z)
    BY <1>6, <2>1
  <2>5. SegmentOf(ImageOf, 3).stored = SubSeq(Payload, x + y + z + 1, x + y + z)
    BY <1>6, <2>1
  <2>. QED
    BY <1>4, <1>5, <2>2, <2>3, <2>4, <2>5
<1>8. Supplied[0 + 1] = b.text /\ Supplied[1 + 1] = b.rodata /\ Supplied[2 + 1] = b.data
  BY DEF Supplied
<1>9. \A i \in 0..2 : SegmentOf(ImageOf, i).stored = Compress(Supplied[i + 1])
  <2>. SUFFICES ASSUME NEW i \in 0..2 PROVE SegmentOf(ImageOf, i).stored = Compress(Supplied[i + 1])
    OBVIOUS
  <2>1. i = 0 \/ i = 1 \/ i = 2
    OBVIOUS
  <2>. QED
    BY <1>7, <1>8, <2>1
<1>. QED
  BY <1>7, <1>9

\* What segment(i) says of an image: the address and the room set for it.
LEMMA BuiltDescriptors ==
  ASSUME HoldsGiven, BuildError = "none"
  PROVE  /\ \A i \in 0..2 :
              /\ ImageOf.segments[i].decomp_size = Len(Supplied[i + 1])
              /\ ImageOf.segments[i].dst_addr = <<b.text_vaddr, b.rodata_vaddr, b.data_vaddr>>[i + 1]
         /\ <<ImageOf.segments[3].dst_addr, ImageOf.segments[3].decomp_size>>
              = IF b.bss_vaddr = NotSet /\ b.bss_size = NotSet THEN <<0, 0>> ELSE <<b.bss_vaddr, b.bss_size>>
<1>1. ImageOf.segments = Segments
  BY DEF ImageOf
<1>2. /\ Segments[0].decomp_size = Len(b.text) /\ Segments[0].dst_addr = b.text_vaddr
      /\ Segments[1].decomp_size = Len(b.rodata) /\ Segments[1].dst_addr = b.rodata_vaddr
      /\ Segments[2].decomp_size = Len(b.data) /\ Segments[2].dst_addr = b.data_vaddr
  BY DEF Segments, StoredSegment, PlainSegment
<1>3. <<Segments[3].dst_addr, Segments[3].decomp_size>>
        = IF b.bss_vaddr = NotSet /\ b.bss_size = NotSet THEN <<0, 0>> ELSE <<b.bss_vaddr, b.bss_size>>
  <2>1. (b.bss_vaddr = NotSet) <=> (b.bss_size = NotSet)
    BY BuiltParts
  <2>2. Segments[3] = IF b.bss_size # NotSet THEN PlainSegment(b.bss_vaddr, b.bss_size, 0, 0)
                                           ELSE PlainSegment(0, 0, 0, 0)
    BY DEF Segments
  <2>. QED
    BY <2>1, <2>2 DEF PlainSegment
<1>4. \A i \in 0..2 :
        /\ Segments[i].decomp_size = Len(Supplied[i + 1])
        /\ Segments[i].dst_addr = <<b.text_vaddr, b.rodata_vaddr, b.data_vaddr>>[i + 1]
  <2>. SUFFICES ASSUME NEW i \in 0..2
                PROVE  /\ Segments[i].decomp_size = Len(Supplied[i + 1])
                       /\ Segments[i].dst_addr = <<b.text_vaddr, b.rodata_vaddr, b.data_vaddr>>[i + 1]
    OBVIOUS
  <2>1. i = 0 \/ i = 1 \/ i = 2
    OBVIOUS
  <2>. QED
    BY <1>2, <2>1 DEF Supplied
<1>. QED
  BY <1>1, <1>3, <1>4

\* Decompressing a segment of an image the crate built never fails.
LEMMA BuiltExpands ==
  ASSUME HoldsGiven, BuildError = "none", NEW i \in 0..2, i \in ImageOf.flags
  PROVE  Expanded(SegmentOf(ImageOf, i)) = [status |-> "ok", data |-> Supplied[i + 1]]
<1>1. /\ SegmentOf(ImageOf, i).stored = Compress(Supplied[i + 1])
      /\ SegmentOf(ImageOf, i).descriptor.decomp_size = Len(Supplied[i + 1])
  BY BuiltSlices, BuiltDescriptors DEF SegmentOf
<1>2. SegmentOf(ImageOf, i).compressed
  <2>1. SegmentOf(ImageOf, i).compressed = is_compressed(ImageOf, i)
    BY Zenon DEF SegmentOf
  <2>2. is_compressed(ImageOf, i)
    BY DEF is_compressed, BSS_INDEX
  <2>. QED
    BY <2>1, <2>2, Zenon
<1>3. \E f \in Stored : Supplied[i + 1] \in Given(f)
  <2>1. b.text \in Given("text") /\ b.rodata \in Given("rodata") /\ b.data \in Given("data")
    BY BuiltParts
  <2>2. i = 0 \/ i = 1 \/ i = 2
    OBVIOUS
  <2>. QED
    BY <2>1, <2>2 DEF Supplied, Stored
<1>4. Decompress(Compress(Supplied[i + 1]), Len(Supplied[i + 1])) = [status |-> "ok", data |-> Supplied[i + 1]]
  BY <1>3, BlzRoundTrip, ZenonT(60) DEF Stored
<1>. QED
  BY <1>1, <1>2, <1>4 DEF Expanded

\* A segment no flag marks packed comes back as it is stored, without error.
LEMMA NotPacked ==
  ASSUME NEW k, NEW i \in 0..3, ~(i \in 0..2 /\ i \in k.flags)
  PROVE  Expanded(SegmentOf(k, i)).status = "ok"
<1>1. ~is_compressed(k, i)
  BY DEF is_compressed, BSS_INDEX
<1>2. SegmentOf(k, i).compressed = is_compressed(k, i)
  BY Zenon DEF SegmentOf
<1>3. Expanded(SegmentOf(k, i)) = [status |-> "ok", data |-> SegmentOf(k, i).stored]
  BY <1>1, <1>2, Zenon DEF Expanded
<1>. QED
  BY <1>3

\* No buffer a Kip1 can exist for makes decompress panic.
LEMMA ExpandedReturns ==
  ASSUME HoldsGiven, NEW k, HeaderError(k) = "none", NEW i \in 0..3,
         (BuildError = "none" /\ k = ImageOf) \/ k \in Kips
  PROVE  Expanded(SegmentOf(k, i)).status # "panic"
<1>1. CASE k \in Kips
  BY <1>1, AcceptedInside, DecompressReturns DEF LOADED_SEGMENT_COUNT
<1>2. CASE BuildError = "none" /\ k = ImageOf
  <2>1. CASE i \in 0..2 /\ i \in ImageOf.flags
    BY <1>2, <2>1, BuiltExpands
  <2>2. CASE ~(i \in 0..2 /\ i \in ImageOf.flags)
    <3>1. ~(i \in 0..2 /\ i \in k.flags)
      BY <1>2, <2>2
    <3>2. Expanded(SegmentOf(k, i)).status = "ok"
      BY <3>1, NotPacked
    <3>. QED
      BY <3>2
  <2>. QED
    BY <2>1, <2>2
<1>. QED
  BY <1>1, <1>2

(***************************************************************************)
(* The invariant is inductive                                              *)
(***************************************************************************)
LEMMA InitIInv == Init => IInv
<1>. SUFFICES ASSUME Init PROVE IInv
  OBVIOUS
<1>1. HoldsGiven
  BY DEF Init, BInit, NewBuilder, Options, Numbers, HoldsGiven, Stored
<1>2. ImageCurrent /\ ReadsKnown /\ ReadsAccepted /\ SliceCurrent
  BY DEF Init, BInit, RInit, ImageCurrent, ReadsKnown, ReadsAccepted, SliceCurrent
<1>3. ResultOfCall
  BY DEF Init, RInit, ResultOfCall
<1>. QED
  BY <1>1, <1>2, <1>3 DEF IInv

\* The reader's half of a step that leaves the reader alone.
LEMMA ReaderAlone ==
  ASSUME IInv, rpc = "none", UNCHANGED rVars
  PROVE  ReadsKnown' /\ ReadsAccepted' /\ SliceCurrent' /\ ResultOfCall'
<1>1. rpc' = "none" /\ result' = result
  BY DEF rVars
<1>. QED
  BY <1>1 DEF IInv, ReadsKnown, ReadsAccepted, SliceCurrent, ResultOfCall, NoResult

\* What build checks and writes depends on the builder alone.
LEMMA SameKip1Builder ==
  ASSUME b' = b
  PROVE  BuildError' = BuildError /\ ImageOf' = ImageOf
<1>1. BuildError' = BuildError
  BY DEF BuildError
<1>2. Payload' = Payload
  BY DEF Payload
<1>3. Segments' = Segments
  BY DEF Segments, StoredSegment
<1>4. Capabilities' = Capabilities
  BY DEF Capabilities
<1>. QED
  BY <1>1, <1>2, <1>3, <1>4 DEF ImageOf

\* The builder's half of a step that leaves the builder alone.
LEMMA BuilderAlone ==
  ASSUME IInv, UNCHANGED bVars
  PROVE  HoldsGiven' /\ ImageCurrent' /\ (BuildError' = BuildError) /\ (ImageOf' = ImageOf)
<1>1. phase' = phase /\ b' = b /\ image' = image
  BY DEF bVars
<1>2. BuildError' = BuildError /\ ImageOf' = ImageOf
  BY <1>1, SameKip1Builder
<1>3. HoldsGiven'
  BY <1>1 DEF IInv, HoldsGiven
<1>4. ImageCurrent'
  BY <1>1, <1>2 DEF IInv, ImageCurrent
<1>. QED
  BY <1>2, <1>3, <1>4

LEMMA SetFieldKeeps ==
  ASSUME IInv, rpc = "none", UNCHANGED rVars,
         NEW f \in DOMAIN Settings, NEW v \in Settings[f], SetField(f, v)
  PROVE  IInv'
<1>1. b' = [b EXCEPT ![f] = v] /\ phase' = "set"
  BY DEF SetField, Setting
<1>2. v \in Given(f)
  BY DEF Given
<1>3. HoldsGiven'
  BY <1>1, <1>2 DEF IInv, HoldsGiven, Stored
<1>4. ImageCurrent'
  BY <1>1 DEF ImageCurrent
<1>. QED
  BY <1>3, <1>4, ReaderAlone DEF IInv

LEMMA AddCapabilitiesKeeps ==
  ASSUME IInv, rpc = "none", UNCHANGED rVars, NEW caps, AddCapabilities(caps)
  PROVE  IInv'
<1>1. b' = [b EXCEPT !.kernel_capabilities = b.kernel_capabilities \o caps] /\ phase' = "set"
  BY DEF AddCapabilities, Setting
<1>2. HoldsGiven'
  BY <1>1 DEF IInv, HoldsGiven, Stored
<1>3. ImageCurrent'
  BY <1>1 DEF ImageCurrent
<1>. QED
  BY <1>2, <1>3, ReaderAlone DEF IInv

LEMMA BuildKeeps ==
  ASSUME IInv, rpc = "none", UNCHANGED rVars, Build
  PROVE  IInv'
<1>1. b' = b
  BY DEF Build
<1>2. HoldsGiven'
  BY <1>1 DEF IInv, HoldsGiven
<1>3. BuildError' = BuildError /\ ImageOf' = ImageOf
  BY <1>1, SameKip1Builder
<1>4. ImageCurrent'
  <2>1. BuildError # "built"
    BY DEF BuildError
  <2>. QED
    BY <1>3, <2>1 DEF Build, ImageCurrent
<1>. QED
  BY <1>2, <1>4, ReaderAlone DEF IInv

\* try_from_bytes, on the image or on a buffer from outside.
LEMMA TryFromBytesKeeps ==
  ASSUME IInv, UNCHANGED bVars, NEW k, TryFromBytes(k),
         IF phase = "built" THEN k = image ELSE k \in Kips
  PROVE  IInv'
<1>1. HoldsGiven' /\ ImageCurrent' /\ phase' = phase /\ image' = image
  BY BuilderAlone DEF bVars
<1>2. phase = "built" => HeaderError(k) = "none"
  BY BuiltAccepted DEF IInv, ImageCurrent
<1>3. ReadsKnown' /\ ReadsAccepted' /\ SliceCurrent'
  BY <1>1, <1>2 DEF TryFromBytes, ReadsKnown, ReadsAccepted, SliceCurrent
<1>4. ResultOfCall'
  <2>1. rpc = "none" /\ result = NoResult
    BY DEF TryFromBytes, IInv, ResultOfCall
  <2>2. CASE HeaderError(k) = "none"
    BY <2>1, <2>2 DEF TryFromBytes, ResultOfCall, NoResult
  <2>3. CASE HeaderError(k) # "none"
    <3>1. rpc' = "done" /\ result' = Err(HeaderError(k))
      BY <2>3 DEF TryFromBytes
    <3>2. result'.status = "err"
      BY <3>1 DEF Err
    <3>. QED
      BY <3>1, <3>2 DEF ResultOfCall
  <2>. QED
    BY <2>2, <2>3
<1>. QED
  BY <1>1, <1>3, <1>4 DEF IInv

\* segment(i): all four slices of an accepted buffer are inside it.
LEMMA SegmentKeeps ==
  ASSUME IInv, UNCHANGED bVars, NEW index \in 0..LOADED_SEGMENT_COUNT, Segment(index)
  PROVE  IInv'
<1>1. HoldsGiven' /\ ImageCurrent' /\ phase' = phase /\ image' = image
  BY BuilderAlone DEF bVars
<1>2. HeaderError(kip) = "none" /\ kip' = kip
  BY DEF Segment, IInv, ReadsAccepted
<1>3. CASE index >= LOADED_SEGMENT_COUNT
  BY <1>1, <1>2, <1>3 DEF Segment, IInv, ReadsKnown, ReadsAccepted, SliceCurrent, ResultOfCall
<1>4. CASE ~(index >= LOADED_SEGMENT_COUNT)
  <2>1. index \in 0..3
    BY <1>4 DEF LOADED_SEGMENT_COUNT
  <2>2. ~(EndOf(kip, index) > kip.len)
    BY <1>2, <2>1, AcceptedInside DEF OutOfBounds
  <2>3. rpc' = "segment" /\ seg' = SegmentOf(kip, index) /\ result' = NoResult
    BY <1>4, <2>2 DEF Segment
  <2>4. SegmentOf(kip, index).index = index
    BY DEF SegmentOf
  <2>. QED
    BY <1>1, <1>2, <2>1, <2>3, <2>4
       DEF Segment, IInv, ReadsKnown, ReadsAccepted, SliceCurrent, ResultOfCall, BSS_INDEX
<1>. QED
  BY <1>3, <1>4

LEMMA DecompressSegmentKeeps ==
  ASSUME IInv, UNCHANGED bVars, DecompressSegment
  PROVE  IInv'
<1>1. HoldsGiven' /\ ImageCurrent' /\ phase' = phase /\ image' = image
  BY BuilderAlone DEF bVars
<1>2. rpc' = rpc /\ rpc = "segment" /\ kip' = kip /\ seg' = seg /\ result' = Expanded(seg)
  BY DEF DecompressSegment
<1>3. ReadsKnown' /\ ReadsAccepted' /\ SliceCurrent'
  BY <1>1, <1>2 DEF IInv, ReadsKnown, ReadsAccepted, SliceCurrent
<1>4. ResultOfCall'
  BY <1>2 DEF ResultOfCall
<1>. QED
  BY <1>1, <1>3, <1>4 DEF IInv

LEMMA NextIInv == IInv /\ [Next]_vars => IInv'
<1>. SUFFICES ASSUME IInv, [Next]_vars PROVE IInv'
  OBVIOUS
<1>1. CASE rpc = "none" /\ BNext /\ UNCHANGED rVars
  BY <1>1, SetFieldKeeps, AddCapabilitiesKeeps, BuildKeeps DEF BNext
<1>2. CASE phase = "built" /\ TryFromBytes(image) /\ UNCHANGED bVars
  BY <1>2, TryFromBytesKeeps
<1>3. CASE phase = "set" /\ calls = 0 /\ ForeignKip /\ UNCHANGED bVars
  BY <1>3, TryFromBytesKeeps DEF ForeignKip
<1>4. CASE RNext /\ UNCHANGED bVars
  BY <1>4, SegmentKeeps, DecompressSegmentKeeps DEF RNext
<1>5. CASE UNCHANGED vars
  <2>1. UNCHANGED bVars /\ rpc' = rpc /\ kip' = kip /\ seg' = seg /\ result' = result
    BY <1>5 DEF vars, rVars
  <2>2. phase' = phase /\ image' = image
    BY <2>1 DEF bVars
  <2>. QED
    BY <2>1, <2>2, BuilderAlone DEF IInv, ReadsKnown, ReadsAccepted, SliceCurrent, ResultOfCall
<1>. QED
  BY <1>1, <1>2, <1>3, <1>4, <1>5 DEF Next, Finished

\* The invariant the theorems rest on.
THEOREM Kip1Invariant == Spec => []IInv
  BY InitIInv, NextIInv, PTL DEF Spec

(***************************************************************************)
(* What it shows                                                           *)
(***************************************************************************)
\* Slicing and decompressing, in any order, of any buffer try_from_bytes
\* accepted never panics: the sum segment(i) adds up unchecked is the one
\* try_from_bytes checked.
THEOREM Kip1NoPanic == Spec => []NoPanic
<1>1. IInv => NoPanic
  <2>. SUFFICES ASSUME IInv, rpc = "segment", result = Expanded(seg) PROVE NoPanic
    <3>1. CASE result = NoResult
      BY <3>1 DEF NoResult, NoPanic
    <3>2. CASE rpc = "ready" /\ ResultOfCall
      BY <3>2 DEF ResultOfCall, NoPanic
    <3>3. CASE rpc = "done" /\ ResultOfCall
      BY <3>3 DEF ResultOfCall, NoPanic
    <3>. QED
      BY <3>1, <3>2, <3>3 DEF IInv, ReadsKnown, ResultOfCall
  <2>1. HeaderError(kip) = "none" /\ seg.index \in 0..3 /\ seg = SegmentOf(kip, seg.index)
    BY DEF IInv, ReadsAccepted, SliceCurrent, BSS_INDEX
  <2>2. (BuildError = "none" /\ kip = ImageOf) \/ kip \in Kips
    BY DEF IInv, ReadsKnown, ImageCurrent
  <2>. QED
    BY <2>1, <2>2, ExpandedReturns DEF IInv, NoPanic
<1>. QED
  BY <1>1, Kip1Invariant, PTL

\* Whatever the segments and the codec, and whatever order the setters were
\* called in, the reader finds each stream of a built image where build laid it,
\* and expands it to the bytes the setter was last given.
THEOREM Kip1SegmentsComeBack == Spec => []SegmentsComeBack
<1>1. IInv => SegmentsComeBack
  <2>. SUFFICES ASSUME IInv, phase = "built" PROVE SegmentsComeBack
    BY DEF SegmentsComeBack
  <2>1. HoldsGiven /\ BuildError = "none" /\ (rpc # "none" => kip = ImageOf /\ rpc # "done")
    BY DEF IInv, ImageCurrent, ReadsKnown
  <2>2. ASSUME rpc = "segment", seg.index < BSS_INDEX
        PROVE  /\ seg.descriptor.decomp_size = Len(Supplied[seg.index + 1])
               /\ seg.descriptor.dst_addr = <<b.text_vaddr, b.rodata_vaddr, b.data_vaddr>>[seg.index + 1]
               /\ seg.stored = Compress(Supplied[seg.index + 1])
    <3>1. seg.index \in 0..2 /\ seg = SegmentOf(ImageOf, seg.index)
      BY <2>1, <2>2 DEF IInv, SliceCurrent, BSS_INDEX
    <3>2. seg.descriptor = ImageOf.segments[seg.index]
      BY <3>1 DEF SegmentOf
    <3>. QED
      BY <2>1, <3>1, <3>2, BuiltSlices, BuiltDescriptors
  <2>3. ASSUME rpc = "segment", seg.index < BSS_INDEX, result.status = "ok", seg.compressed
        PROVE  result.data = Supplied[seg.index + 1]
    <3>1. seg.index \in 0..2 /\ seg = SegmentOf(ImageOf, seg.index)
      BY <2>1, <2>3 DEF IInv, SliceCurrent, BSS_INDEX
    <3>2. seg.index \in ImageOf.flags
      <4>1. SegmentOf(ImageOf, seg.index).compressed = is_compressed(ImageOf, seg.index)
        BY Zenon DEF SegmentOf
      <4>2. is_compressed(ImageOf, seg.index)
        BY <2>3, <3>1, <4>1, Zenon
      <4>. QED
        BY <4>2 DEF is_compressed
    <3>3. Expanded(seg) = [status |-> "ok", data |-> Supplied[seg.index + 1]]
      BY <2>1, <3>1, <3>2, BuiltExpands
    <3>4. result = Expanded(seg)
      BY <2>3 DEF IInv, ResultOfCall, NoResult
    <3>. QED
      BY <3>3, <3>4
  <2>4. result.status \notin {"err", "panic"}
    <3>1. CASE rpc = "segment" /\ result = Expanded(seg)
      <4>1. seg.index \in 0..3 /\ seg = SegmentOf(ImageOf, seg.index)
        BY <2>1, <3>1 DEF IInv, SliceCurrent, BSS_INDEX
      <4>2. CASE seg.index \in 0..2 /\ seg.index \in ImageOf.flags
        BY <2>1, <3>1, <4>1, <4>2, BuiltExpands
      <4>3. CASE ~(seg.index \in 0..2 /\ seg.index \in ImageOf.flags)
        <5>1. Expanded(SegmentOf(ImageOf, seg.index)).status = "ok"
          BY <4>1, <4>3, NotPacked
        <5>. QED
          BY <3>1, <4>1, <5>1
      <4>. QED
        BY <4>2, <4>3
    <3>2. CASE result = NoResult
      BY <3>2 DEF NoResult
    <3>3. CASE rpc = "ready"
      BY <3>3 DEF IInv, ResultOfCall
    <3>. QED
      BY <2>1, <3>1, <3>2, <3>3 DEF IInv, ReadsKnown, ResultOfCall
  <2>. QED
    BY <2>2, <2>3, <2>4 DEF SegmentsComeBack
<1>. QED
  BY <1>1, Kip1Invariant, PTL

\* A built image never leaves out a bss its builder was given, nor invents one,
\* nor stores bytes for it, whatever flags the caller set.
THEOREM Kip1BssReserved == Spec => []BssReserved
<1>1. IInv => BssReserved
  <2>. SUFFICES ASSUME IInv, phase = "built", rpc = "segment", seg.index = BSS_INDEX PROVE BssReserved
    BY DEF BssReserved
  <2>1. HoldsGiven /\ BuildError = "none" /\ kip = ImageOf
    BY DEF IInv, ImageCurrent, ReadsKnown
  <2>2. seg = SegmentOf(ImageOf, 3)
    BY <2>1 DEF IInv, SliceCurrent, BSS_INDEX
  <2>3. seg.descriptor = ImageOf.segments[3]
    BY <2>2 DEF SegmentOf
  <2>4. seg.stored = <<>>
    BY <2>1, <2>2, BuiltSlices
  <2>5. ~seg.compressed
    <3>1. SegmentOf(ImageOf, 3).compressed = is_compressed(ImageOf, 3)
      BY Zenon DEF SegmentOf
    <3>2. ~is_compressed(ImageOf, 3)
      BY DEF is_compressed, BSS_INDEX
    <3>. QED
      BY <2>2, <3>1, <3>2, Zenon
  <2>6. result.status = "ok" => result.data = <<>>
    <3>1. Expanded(seg) = [status |-> "ok", data |-> <<>>]
      BY <2>4, <2>5, Zenon DEF Expanded
    <3>. QED
      BY <3>1 DEF IInv, ResultOfCall, NoResult
  <2>. QED
    BY <2>1, <2>3, <2>4, <2>5, <2>6, BuiltDescriptors DEF BssReserved
<1>. QED
  BY <1>1, Kip1Invariant, PTL
=============================================================================
