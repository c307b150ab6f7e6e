------------------------------- MODULE Teaching -------------------------------
(***************************************************************************)
(* Distilling contracts: distill_one of distill_rag_contract_v5,           *)
(* distill_planner_composer_v6 and its gold variant gathers the sources,   *)
(* asks the teacher, judges what it returned and appends the record.       *)
(***************************************************************************)
EXTENDS Contracts

CONSTANTS
    Teachings,      \* what a teacher may return for a question and its sources
    RecordLimit     \* contracts in the instance

Sentence(part) ==
    /\ part = [says |-> part.says, marks |-> part.marks]
    /\ \A mark \in part.marks :
          mark = <<mark[1], mark[2]>> /\ mark[1] \in {"sid", "num", "url"}
          /\ (mark[1] # "url" => mark[2] \in Nat)

\* Sources, facts, contacts and sentences are lists; sources and citations are
\* numbered.
ItemList(items) == items \in Seq(Range(items)) /\ \A item \in Range(items) : item.ids \subseteq Nat
Contract(rec) ==
    /\ {"id", "q", "lang", "sources", "ability", "asks", "questions", "relevant", "facts", "contacts",
        "text", "missing", "domains"} \subseteq DOMAIN rec
    /\ rec.sources \in Seq(Range(rec.sources)) /\ \A source \in Range(rec.sources) : source.rank \in Nat
    /\ rec.text \in Seq(Range(rec.text)) /\ \A part \in Range(rec.text) : Sentence(part)
    /\ ItemList(rec.facts) /\ ItemList(rec.contacts)
    /\ rec.ability \in Abilities

ASSUME TeachingAssumption ==
    /\ RecordLimit \in Nat
    /\ \A teaching \in Teachings : Contract(teaching)

VARIABLE records    \* the file of judged contracts

\* Contracts are distilled one after another.
TeachingInit == records = {}

Distil ==
    /\ Cardinality(records) < RecordLimit
    /\ \E teaching \in Teachings, script \in Scripts :
          records' = records \cup {Judged(teaching, script)}

TeachingNext == Distil

TeachingSpec == TeachingInit /\ [][TeachingNext]_records

---------------------------------------------------------------------------
(* Properties *)

Positioned(srcs) == \A i \in DOMAIN srcs : Ref(srcs, i) = i
Bracketed(rec) == MarksIn(rec.text, "num") # {}

\* The file holds judged contracts, and at most as many as were distilled.
TeachingTypeOK ==
    /\ Cardinality(records) <= RecordLimit
    /\ \A rec \in records : rec.issues \in BOOLEAN /\ rec.script \in Scripts
                             /\ rec.ability \in Abilities

\* A row teaches to cite only what its own prompt lists: a v6.2 row whose
\* sources are numbered by position (the gold contracts are), and a v6.3
\* extraction row always.  With no source at all v6.2 still turns [1] into
\* [S1], and v6.3 turns any [n] into [Sn]: those are left out here.
CitesWhatIsListed ==
    \A rec \in records :
        /\ rec.sources # <<>> /\ Positioned(rec.sources) =>
              \A row \in ControlRowsV62(rec) : MarksIn(row.text, "sid") \subseteq Refs(row.sources)
        /\ \A row \in ExtractionRowsV63(rec) : MarksIn(row.text, "sid") \subseteq Refs(row.sources)

\* A rewrite row can be learned: its draft is not the answer, and repairing
\* the draft by the same rules gives the answer back, when sources are
\* numbered by position and no two share a URL, and the answer keeps no
\* refusal at its end (the rules would take it off with the one they added).
DraftsAreRepairable ==
    \A rec \in records : \A row \in ControlRowsV62(rec) :
        LET urls == {row.sources[i].url : i \in DOMAIN row.sources}
        IN  row.draft # <<>> /\ Positioned(row.sources) /\ Cardinality(urls) = Len(row.sources)
            /\ Last(row.text).says \notin DOMAIN Refusals =>
                /\ row.draft # row.text
                /\ NormalizeV62(row.draft, row.sources) = row.text

\* A mandatory-citation row leaves no sentence uncited and no URL or bare
\* number in the answer.
EverySentenceIsCited ==
    \A rec \in records : \A row \in CitationRowsV63(rec) :
        /\ \A i \in DOMAIN row.text : \E mark \in row.text[i].marks : mark[1] = "sid"
        /\ ~HasBadCitation(row.text)

\* The seed's expected domains reach the rows: an answer a validator let
\* through cites no page of another host, unless it cites by bare number
\* (validators do not read [n], the row builders do).
RowsKeepToTheDomains ==
    \A rec \in records : rec.domains # {} /\ ~Bracketed(rec) =>
        \A row \in ControlRowsV62(rec) :
            HostsOf(MarksIn(row.text, "sid"), row.sources) \subseteq rec.domains

\* What is true of the judged contracts and the rows made of them.
LessonsAreSound ==
    /\ TeachingTypeOK /\ CitesWhatIsListed /\ DraftsAreRepairable
    /\ EverySentenceIsCited /\ RowsKeepToTheDomains
=============================================================================
