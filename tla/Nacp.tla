-------------------------------- MODULE Nacp --------------------------------
(***************************************************************************)
(* NacpBuilder of write/nacp.rs and Nacp of read/nacp.rs: titles for the   *)
(* sixteen language slots of a control structure, and how a program or the *)
(* home menu finds the one for its language.  Builder and reader each have *)
(* a table from the eighteen languages to the slots.                       *)
(*                                                                         *)
(* Text is a sequence of bytes, padded with zeros in its field.            *)
(***************************************************************************)
EXTENDS Integers, FiniteSetsExt, SequencesExt

CONSTANTS
  Unset,             \* Option::None in the builder
  NacpCalls,         \* setter |-> what it is called with
  NacpBuffers,       \* buffers the crate did not build: [len, nacp]
  NACP_SIZE,         \* 0x4000
  NAME_FIELD,        \* 0x200
  AUTHOR_FIELD,      \* 0x100
  VERSION_FIELD,     \* 0x10
  DLC_OFFSET,        \* 0x1000
  NACP_U64,          \* 2^64
  MaxNacpCalls       \* bound on the setter calls

\* Setters take byte strings, and None is none of them; a field has room for its
\* terminator.
ASSUME NacpUnits == NAME_FIELD \in Nat \ {0} /\ AUTHOR_FIELD \in Nat \ {0}
ASSUME TextsSupplied ==
  /\ {"names", "authors"} \intersect DOMAIN NacpCalls.fields = {}
  /\ \A f \in {"names", "authors"} : NacpCalls.texts[f] \subseteq Seq(Int)
  /\ \A f \in {"names", "authors"} \intersect DOMAIN NacpCalls : NacpCalls[f] \subseteq Seq(Int)
  /\ Unset \notin Seq(Int) /\ Unset \notin [name : Seq(Int), author : Seq(Int)]

VARIABLES
  nacpPhase,         \* "set", "built", "open", "refused", "panic", or the error of build
  nb,                \* the builder
  nacpCalls,         \* setter calls so far
  nacp,              \* the structure built or borrowed
  nacpResult         \* what the last accessor returned

nacpVars == <<nacpPhase, nb, nacpCalls, nacp, nacpResult>>

LangSlots == 0..15
NoNacp == <<>>
NacpErrors == {"NameTooLong", "AuthorTooLong", "VersionTooLong", "panic", "refused"}

\* SetLanguage, in the order of its discriminants.
SetLanguage ==
  <<"JA", "ENUS", "FR", "DE", "IT", "ES", "ZHCN", "KO", "NL", "PT", "RU", "ZHTW", "ENGB", "FRCA", "ES419",
    "ZHHANS", "ZHHANT", "PTBR">>

\* The builder's table.
language_to_index ==
  [ENUS |-> 0, ENGB |-> 1, JA |-> 2, FR |-> 3, DE |-> 4, ES419 |-> 5, ES |-> 6, IT |-> 7, NL |-> 8, FRCA |-> 9,
   PT |-> 10, RU |-> 11, KO |-> 12, ZHTW |-> 13, ZHHANT |-> 13, ZHCN |-> 14, ZHHANS |-> 14, PTBR |-> 15]

NewNacp ==
  [names |-> [i \in LangSlots |-> Unset], authors |-> [i \in LangSlots |-> Unset], display_version |-> Unset,
   application_id |-> Unset, save_data_owner_id |-> Unset, user_account_save_data_size |-> Unset,
   user_account_save_data_journal_size |-> Unset]

NacpInit == nacpPhase = "set" /\ nb = NewNacp /\ nacpCalls = 0 /\ nacp = NoNacp /\ nacpResult = <<>>

NacpSetter(after) ==
  /\ nacpPhase = "set" /\ nacpCalls < MaxNacpCalls
  /\ nb' = after
  /\ nacpCalls' = nacpCalls + 1
  /\ UNCHANGED <<nacpPhase, nacp, nacpResult>>

\* name and author: all sixteen slots, over what one of them was given before.
SetForAll(field, text) == NacpSetter([nb EXCEPT ![field] = [i \in LangSlots |-> text]])

\* name_for_language and author_for_language
SetForLanguage(field, lang, text) == NacpSetter([nb EXCEPT ![field][language_to_index[lang]] = text])

\* version, application_id and the save data setters
SetNacpField(field, value) == NacpSetter([nb EXCEPT ![field] = value])

(***************************************************************************)
(* build                                                                   *)
(***************************************************************************)
TooLong(text, field) == text # Unset /\ Len(text) >= field

\* Slot by slot, a name before its author; then the version.
NacpError ==
  LET bad == {i \in LangSlots : TooLong(nb.names[i], NAME_FIELD) \/ TooLong(nb.authors[i], AUTHOR_FIELD)}
  IN  IF bad # {} THEN IF TooLong(nb.names[Min(bad)], NAME_FIELD) THEN "NameTooLong" ELSE "AuthorTooLong"
      ELSE IF TooLong(nb.display_version, VERSION_FIELD) THEN "VersionTooLong"
      ELSE "none"

\* A zero-padded field.
Field(text, size) == [k \in 1..size |-> IF text # Unset /\ k =< Len(text) THEN text[k] ELSE 0]

Default(value, otherwise) == IF value = Unset THEN otherwise ELSE value

\* The application id fills every id; an owner of its own replaces that one.
NacpOf ==
  LET id == Default(nb.application_id, 0) IN
  [lang                   |-> [i \in LangSlots |-> [name   |-> Field(nb.names[i], NAME_FIELD),
                                                    author |-> Field(nb.authors[i], AUTHOR_FIELD)]],
   display_version        |-> Field(nb.display_version, VERSION_FIELD),
   presence_group_id      |-> id,
   add_on_content_base_id |-> IF nb.application_id = Unset THEN 0 ELSE (id + DLC_OFFSET) % NACP_U64,
   save_data_owner_id     |-> Default(nb.save_data_owner_id, id),
   local_communication_id |-> <<id, id>>,
   pseudo_device_id_seed  |-> id,
   user_account_save_data_size         |-> Default(nb.user_account_save_data_size, 65011712),
   user_account_save_data_journal_size |-> Default(nb.user_account_save_data_journal_size, 1572864)]

BuildNacp ==
  /\ nacpPhase = "set"
  /\ IF NacpError # "none"
     THEN nacpPhase' = NacpError /\ UNCHANGED nacp
     ELSE nacpPhase' = "built" /\ nacp' = NacpOf
  /\ UNCHANGED <<nb, nacpCalls, nacpResult>>

\* The same call where arithmetic is checked: `id + 0x1000`.
BuildNacpOverflows ==
  /\ nacpPhase = "set" /\ NacpError = "none"
  /\ nb.application_id # Unset /\ nb.application_id + DLC_OFFSET >= NACP_U64
  /\ nacpPhase' = "panic"
  /\ UNCHANGED <<nb, nacpCalls, nacp, nacpResult>>

(***************************************************************************)
(* Reading                                                                 *)
(***************************************************************************)
\* try_from_bytes checks the size and nothing else; try_from_ptr not even that.
OpenNacp(buffer) ==
  /\ nacpPhase = "set" /\ nacpCalls = 0
  /\ IF buffer.len < NACP_SIZE
     THEN nacpPhase' = "refused" /\ UNCHANGED nacp
     ELSE nacpPhase' = "open" /\ nacp' = buffer.nacp
  /\ UNCHANGED <<nb, nacpCalls, nacpResult>>

\* language_entry: past the table, or empty because its name is.
LanguageEntry(index) ==
  IF index > 15 \/ nacp.lang[index].name[1] = 0 THEN Unset ELSE nacp.lang[index]

\* Mutant: Spanish and Latin American Spanish, one after the other in the
\* builder's table, are taken for each other.
LanguageTableSwapped ==
  <<2, 0, 3, 4, 7, 5, 14, 12, 8, 10, 11, 13, 1, 9, 6, 14, 13, 15>>

\* LANGUAGE_TABLE, by discriminant.
LanguageTable ==
  <<2, 0, 3, 4, 7, 6, 14, 12, 8, 10, 11, 13, 1, 9, 5, 14, 13, 15>>

\* The slot of the language, or the first slot there is anything in.
LanguageEntryFor(k) ==
  LET populated == {i \in LangSlots : LanguageEntry(i) # Unset}
  IN  IF LanguageEntry(LanguageTable[k]) # Unset THEN LanguageEntry(LanguageTable[k])
      ELSE IF populated # {} THEN LanguageEntry(Min(populated)) ELSE Unset

\* cstr_to_str; no text here is invalid UTF-8.
UpToNul(field) ==
  LET end == SelectInSeq(field, LAMBDA c : c = 0) IN IF end = 0 THEN field ELSE SubSeq(field, 1, end - 1)

AskNacp(question, value) ==
  /\ nacpPhase \in {"built", "open"}
  /\ nacpResult' = <<question, value>>
  /\ UNCHANGED <<nacpPhase, nb, nacpCalls, nacp>>

NacpNext ==
  \/ \E f \in {"names", "authors"} \intersect DOMAIN NacpCalls : \E t \in NacpCalls[f] : SetForAll(f, t)
  \/ \E f \in {"names", "authors"} : \E l \in NacpCalls.languages[f], t \in NacpCalls.texts[f] : SetForLanguage(f, l, t)
  \/ \E f \in DOMAIN NacpCalls.fields : \E v \in NacpCalls.fields[f] : SetNacpField(f, v)
  \/ BuildNacp
  \/ BuildNacpOverflows
  \/ \E buffer \in NacpBuffers : OpenNacp(buffer)
  \/ \E k \in DOMAIN SetLanguage : AskNacp(SetLanguage[k], LanguageEntryFor(k))
  \/ \E i \in 0..16 : AskNacp("language_entry", LanguageEntry(i))
  \/ AskNacp("display_version", UpToNul(nacp.display_version))

NacpSpec == NacpInit /\ [][NacpNext]_nacpVars
-----------------------------------------------------------------------------
\* The slot a name set for `lang` shows in, if it has a visible name.
Titled(i) == nb.names[i] # Unset /\ nb.names[i] # <<>> /\ nb.names[i][1] # 0

\* "the last writer for a given language wins", through both tables: asking for a
\* language shows the name and author last set for it or for all, and where it has
\* none, those of the first slot that has one, never of a slot without a name.
TitleShown ==
  nacpPhase = "built" /\ nacpResult # <<>> /\ nacpResult[1] \in ToSet(SetLanguage) =>
    LET own == language_to_index[nacpResult[1]]
        titled == {i \in LangSlots : Titled(i)}
        shown == IF own \in titled THEN own ELSE Min(titled)
    IN  nacpResult[2] = IF titled = {} THEN Unset
                        ELSE [name |-> Field(nb.names[shown], NAME_FIELD), author |-> Field(nb.authors[shown], AUTHOR_FIELD)]
=============================================================================
