------------------------------ MODULE Contracts ------------------------------
(***************************************************************************)
(* What the training rows are made of: the contracts a teacher writes for  *)
(* a question and its sources, the two validators that judge them          *)
(* (distill_rag_contract_v5, distill_planner_composer_v6), and the rows    *)
(* build_sft_v6_2_control and build_sft_v6_3_control derive from them.     *)
(* A text is a sequence of sentences, each with the citations it carries:  *)
(* <<"sid", n>> for [Sn], <<"num", n>> for [n], <<"url", u>> for a URL.    *)
(* Language checks, phone numbers and wording are left out.                *)
(***************************************************************************)
EXTENDS Naturals, Sequences, FiniteSets, SequencesExt, Picking

CONSTANT Near       \* pairs of URLs one of which contains the other

ASSUME ContractsAssumption == \A pair \in Near : Cardinality(pair) = 2

Scripts == {"rag", "planner", "gold"}
Abilities == {"answer", "partial", "follow_up", "refuse", "off_domain"}

\* The id a source has in a prompt: its rank, else its position.
Ref(srcs, i) == IF srcs[i].rank # 0 THEN srcs[i].rank ELSE i
Refs(srcs) == {Ref(srcs, i) : i \in DOMAIN srcs}
\* The RAG prompt leaves a source without a rank out.
RankedRefs(srcs) == {srcs[i].rank : i \in DOMAIN srcs} \ {0}
HostsOf(refs, srcs) == {srcs[i].host : i \in {j \in DOMAIN srcs : Ref(srcs, j) \in refs}}

MarksIn(text, kind) ==
    {mark[2] : mark \in {x \in UNION {text[i].marks : i \in DOMAIN text} : x[1] = kind}}
RefsIn(items) == UNION {items[i].ids : i \in DOMAIN items}
\* What the facts and the contacts of a contract rest on.
FactRefs(rec) == RefsIn(rec.facts) \cup RefsIn(rec.contacts)

---------------------------------------------------------------------------
(* The validators. *)

SourcesAreKnown(rec, known) ==
    /\ rec.relevant \cup FactRefs(rec) \cup MarksIn(rec.text, "sid") \subseteq known
    /\ \A i \in DOMAIN rec.facts : rec.facts[i].ids # {}
    /\ \A i \in DOMAIN rec.contacts : rec.contacts[i].ids # {}
Used(rec, known) == (rec.relevant \cup FactRefs(rec) \cup MarksIn(rec.text, "sid")) \cap known
DomainsAgree(rec, used) ==
    rec.domains # {} =>
        /\ \E h \in HostsOf(used, rec.sources) : h \in rec.domains
        /\ HostsOf(used, rec.sources) \subseteq rec.domains

ValidRag(rec) ==
    LET known == RankedRefs(rec.sources)
        answers == rec.ability \in {"answer", "partial"}
    IN  /\ rec.ability \in {"answer", "partial", "refuse", "off_domain"}
        /\ rec.text # <<>>
        /\ SourcesAreKnown(rec, known)
        /\ answers => MarksIn(rec.text, "sid") # {} /\ DomainsAgree(rec, Used(rec, known))
        /\ rec.ability = "off_domain" => Used(rec, known) = {}
        /\ MarksIn(rec.text, "url") = {}
        /\ rec.ability = "answer" => ~rec.missing

ValidPlanner(rec) ==
    LET known == Refs(rec.sources)
    IN  /\ rec.text # <<>>
        /\ SourcesAreKnown(rec, known)
        /\ rec.ability \in {"answer", "partial"} /\ rec.facts # <<>> => MarksIn(rec.text, "sid") # {}
        /\ rec.ability = "answer" => ~rec.missing
        /\ rec.ability = "follow_up" => rec.questions /\ rec.asks
        /\ rec.asks => rec.questions
        /\ rec.ability = "off_domain" => Used(rec, known) = {}
        /\ rec.ability = "refuse" => rec.facts = <<>>
        /\ rec.ability \in {"answer", "partial", "follow_up"} /\ Used(rec, known) # {}
              => DomainsAgree(rec, Used(rec, known))
        /\ MarksIn(rec.text, "url") = {}

Valid(rec) == IF rec.script = "rag" THEN ValidRag(rec) ELSE ValidPlanner(rec)

\* rec with a field set, or added.
SetField(rec, field, value) ==
    [f \in DOMAIN rec \cup {field} |-> IF f = field THEN value ELSE rec[f]]

\* The gold script numbers the sources itself and expects all their hosts.
Numbered(srcs) == [i \in DOMAIN srcs |-> [rank |-> i, url |-> srcs[i].url, host |-> srcs[i].host]]
FromGold(teaching) ==
    SetField(SetField(teaching, "sources", Numbered(teaching.sources)),
             "domains", {teaching.sources[i].host : i \in DOMAIN teaching.sources})
\* The RAG contract has no contacts.
Asked(teaching, script) ==
    CASE script = "gold" -> FromGold(teaching)
      [] script = "rag" -> SetField(teaching, "contacts", <<>>)
      [] OTHER -> teaching
Judged(teaching, script) ==
    LET asked == Asked(teaching, script)
        rec == SetField(asked, "script", script)
    IN  SetField(rec, "issues", ~Valid(rec))

---------------------------------------------------------------------------
(* Repairing and corrupting citations. *)

SidForUrl(u, srcs) ==
    LET same == {i \in DOMAIN srcs : srcs[i].url = u}
        near == {i \in DOMAIN srcs : {srcs[i].url, u} \in Near}
    IN  IF same # {} THEN {<<"sid", Ref(srcs, Min(same))>>}
        ELSE IF near # {} THEN {<<"sid", Ref(srcs, Min(near))>>} ELSE {}

\* The refusals the four patterns know, and those that match each; a pattern
\* is taken to match a whole sentence.
Refusals == [refusal_ne |-> {1, 2}, source_ne |-> {1}, official_ne |-> {2},
             refusal_en |-> {3}, refusal_roman |-> {4}]
IsTail(k, says) == says \in DOMAIN Refusals /\ k \in Refusals[says]
StripTail(k, text) == IF text # <<>> /\ IsTail(k, Last(text).says) THEN Front(text) ELSE text
\* One after the other, each once, on what the one before it left.
StripRefusalTail(text) == StripTail(4, StripTail(3, StripTail(2, StripTail(1, text))))

OverMarks(text, F(_)) ==
    [i \in DOMAIN text |-> [text[i] EXCEPT !.marks = UNION {F(mark) : mark \in @}]]

\* v6.2 takes [n] for [Sn] up to the number of sources, and [1] always.
NumberAny(n, srcs) == n >= 1
NumberInRange(n, srcs) == n >= 1 /\ n <= Max({1, Len(srcs)})
NormalizeV62(text, srcs) ==
    LET F(mark) == CASE mark[1] = "url" -> SidForUrl(mark[2], srcs)
                     [] mark[1] = "num" /\ NumberInRange(mark[2], srcs) -> {<<"sid", mark[2]>>}
                     [] OTHER -> {mark}
    IN  OverMarks(StripRefusalTail(text), F)

\* v6.3 takes every [n], and keeps a refusal at the end.
NormalizeV63(text, srcs) ==
    LET F(mark) == CASE mark[1] = "url" -> SidForUrl(mark[2], srcs)
                     [] mark[1] = "num" -> {<<"sid", mark[2]>>}
                     [] OTHER -> {mark}
    IN  OverMarks(text, F)

HasSid(text) == MarksIn(text, "sid") # {}
HasBadCitation(text) == MarksIn(text, "url") \cup MarksIn(text, "num") # {}

EnsureSentenceCitations(text) ==
    [i \in DOMAIN text |->
        IF \E mark \in text[i].marks : mark[1] = "sid" THEN text[i]
        ELSE [text[i] EXCEPT !.marks = @ \cup {<<"sid", 1>>}]]

CorruptNumeric(text) ==
    LET F(mark) == IF mark[1] = "sid" THEN {<<"num", mark[2]>>} ELSE {mark}
    IN  OverMarks(text, F)
CorruptRawUrl(text, srcs) ==
    LET F(mark) == IF mark[1] = "sid" /\ mark[2] \in DOMAIN srcs
                   THEN {<<"url", srcs[mark[2]].url>>} ELSE {mark}
    IN  OverMarks(text, F)
\* The refusal of the question's language, Nepali where it has no other.
TailIn(lang) ==
    CASE lang = "roman_nepali" -> "refusal_roman"
      [] lang = "english" -> "refusal_en"
      [] OTHER -> "refusal_ne"
CorruptTail(text, lang) == Append(text, [says |-> TailIn(lang), marks |-> {}])

---------------------------------------------------------------------------
(* The rows. *)

\* A conversation: the system prompt, what the messages say about the question
\* besides the rest of the row, the question with its history, the sources, the
\* draft to rewrite and the answer.
TrainingRow(source, system, about, rec, draft, text, ability) ==
    [source |-> source, system |-> system, about |-> about, q |-> rec.q, sources |-> rec.sources,
     draft |-> draft, text |-> text, ability |-> ability]

\* What a contract says besides its answer, as prompts show it.
Told(rec) == <<rec.ability, rec.relevant, rec.facts, rec.contacts, rec.asks, rec.questions, rec.missing>>
\* v6 and v6.2 ask for an answer in the same words, v6.3 in others.
ToAnswer(words, rec) == <<words, Told(rec)>>

\* Only an answer without issues is made into rows.
Usable(rec) == ~rec.issues /\ rec.ability = "answer"

ControlRowsV62(rec) ==
    LET answer == NormalizeV62(rec.text, rec.sources)
        usable == Usable(rec) /\ answer # <<>> /\ ~HasBadCitation(answer) /\ HasSid(answer)
        drafts == {<<"v6_2_rewrite_numeric_citations", CorruptNumeric(answer)>>,
                   <<"v6_2_rewrite_raw_url_citations", CorruptRawUrl(answer, rec.sources)>>,
                   <<"v6_2_rewrite_refusal_tail", CorruptTail(answer, rec.lang)>>}
    IN  IF ~usable THEN {}
        ELSE {TrainingRow("v6_2_source_id_final_answer", "final_v62", ToAnswer("final", rec), rec,
                          <<>>, answer, "answer")}
             \cup {TrainingRow(d[1], "rewrite_v62", <<"rewrite">>, rec, d[2], answer, "answer") :
                     d \in {x \in drafts : x[2] # answer}}

CitationRowsV63(rec) ==
    LET answer == EnsureSentenceCitations(NormalizeV63(rec.text, rec.sources))
    IN  IF ~Usable(rec) \/ answer = <<>> THEN {}
        ELSE {TrainingRow("v6_3_mandatory_sentence_citations", "final_v63", ToAnswer("final_cited", rec),
                          rec, <<>>, answer, "answer")}

\* Up to five values, of facts and then of contacts, each with its first source.
ValueLimit == 5
Valued(items) == Picked(items, {i \in DOMAIN items : items[i].value})
ValueLine(item) ==
    [says |-> "value", marks |-> {<<"sid", IF item.ids = {} THEN 1 ELSE Min(item.ids)>>}]
ExtractionRowsV63(rec) ==
    LET values == Valued(rec.facts) \o Valued(rec.contacts)
        lines == [i \in DOMAIN values |-> ValueLine(values[i])]
        answer == SubSeq(lines, 1, Min({ValueLimit, Len(lines)}))
    IN  IF ~Usable(rec) \/ lines = <<>> THEN {}
        ELSE {TrainingRow("v6_3_exact_value_extraction", "extract_v63",
                          <<"extract", rec.facts, rec.contacts>>, rec, <<>>, answer, "answer")}

=============================================================================
