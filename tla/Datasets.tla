------------------------------- MODULE Datasets -------------------------------
(***************************************************************************)
(* The v6 training sets, each built from files of the ones before it:      *)
(*   v6   format_sft_v6_planner_composer   contracts      -> train, val    *)
(*   v62  build_sft_v6_2_control           contracts, v6  -> control, t, v *)
(*   v63  build_sft_v6_3_control           contracts, gold, v62 -> c, t, v *)
(*   v64  build_sft_v6_4_split_task        v62, v63 control, seeds, gold   *)
(*                                         -> control, train, val          *)
(* One script runs at a time.  A killed script leaves the file it was      *)
(* writing torn inside a line, or short, and later files as they were.     *)
(***************************************************************************)
EXTENDS Contracts

CONSTANTS
    Curriculum,     \* judged contracts that may be on file, each with an id
    FirstContracts, \* those there from the start
    Gold,           \* the evaluation set: questions, types, sources, drafts
    Seeds,          \* seed questions of the planner rows, in order
    HardNegativeLimit, DialogueLimit,
    MinBucket,      \* by script: buckets this large always hold a row out
    HeldOutOf,      \* one row in this many is held out
    BuildLimit, BuildKills

ASSUME DatasetsAssumption ==
    /\ FirstContracts \subseteq Curriculum
    /\ {HardNegativeLimit, DialogueLimit, BuildLimit, BuildKills} \subseteq Nat
    /\ HeldOutOf \in Nat \ {0}
    /\ \A a, b \in Curriculum : a.id = b.id => a = b

Builders == {"v6", "v62", "v63", "v64"}
Parts == {"control", "train", "val"}

VARIABLES
    contracts,      \* the contracts on file
    files,          \* [builder, part] to rows, status, build, builds of its bases
    builder,        \* the script that runs, "none"
    step,           \* the file it is at, "bases" while it reads, "idle"
    writing,        \* the file is open and cut to nothing
    ready,          \* what it has computed
    builds, buildKills

datasetVars == <<contracts, files, builder, step, writing, ready, builds, buildKills>>

---------------------------------------------------------------------------
(* Rows *)

\* Two contracts may make the same conversation: a row is also where it is from.
WithCopy(row, copy) == SetField(row, "copy", copy)
Copies(rows, copy) == {WithCopy(row, copy) : row \in rows}
Messages(row) == <<row.system, row.about, row.q, row.sources, row.draft, row.text>>
MessagesOf(rows) == {Messages(row) : row \in rows}

\* json.dumps of the messages is the key, system prompt and all; the first row
\* of a key stays.
DedupeNot(rows) == rows
DedupeRows(rows) ==
    {CHOOSE row \in rows : Messages(row) = messages : messages \in MessagesOf(rows)}

FormatV6(rec) ==
    IF rec.issues \/ rec.text = <<>> THEN {}
    ELSE {TrainingRow("v6_planner_composer_contract_json", "contract_v6", ToAnswer("contract", rec), rec,
                      <<>>, rec.text, rec.ability),
          TrainingRow("v6_planner_composer_final_answer", "final_v6", ToAnswer("final", rec), rec,
                      <<>>, rec.text, rec.ability)}

\* A gold question that was refused or left uncited is answered again, from
\* its contract (judged or not) or else from its draft.
RepairRowsV63(item) ==
    LET known == {rec \in contracts : rec.q = item.q /\ rec.text # <<>>}
        taught == IF known = {} THEN item.draft ELSE (CHOOSE rec \in known : TRUE).text
        repaired == NormalizeV63(taught, Numbered(item.sources))
        answer == IF HasSid(repaired) THEN repaired ELSE EnsureSentenceCitations(repaired)
    IN  IF item.type # "grounded" \/ ~item.failed \/ answer = <<>> THEN {}
        ELSE {TrainingRow("v6_3_eval_failure_repair", "final_v63", <<"repair">>, item, item.draft, answer,
                          "answer")}

Declined == <<[says |-> "declined", marks |-> {}]>>
HardNegatives == {item \in Gold : item.type \in {"refusal", "ungrounded_attempt"}}
\* shuffle, then the first ones.
SomeHardNegatives == kSubset(Min({HardNegativeLimit, Cardinality(HardNegatives)}), HardNegatives)
RefusalRowsV63(items) ==
    {TrainingRow("v6_3_hard_negative_refusal", "refusal_v63", <<"gold">>, item, <<>>, Declined, "refuse") :
        item \in items}
RefusalRowsV64(items) ==
    {TrainingRow("v6_4_answerability_hard_negative_json", "answerability_v64", <<"answerability">>, item,
                 <<>>, <<>>, "refuse_json") : item \in items}

SpecItem == [q |-> "passport", sources |-> <<>>]
Question == <<[says |-> "question", marks |-> {}]>>
DialogueRowsV63 ==
    {TrainingRow("v6_3_service_dialogue_followup", "dialogue_v63", <<"dialogue">>, SpecItem, <<>>, Question,
                 "follow_up")}

SeedItem(k) == [q |-> Seeds[k].q, sources |-> <<>>]
PlannerRowsV64 ==
    {WithCopy(TrainingRow("v6_4_planner_json", "planner_v64", <<"planner">>, SeedItem(k), <<>>, <<>>,
                          "planner"), k) : k \in DOMAIN Seeds}
\* Seeds of the dialogue file the planner does not answer, up to the limit.
DialogueRowsV64 ==
    LET talk == {k \in DOMAIN Seeds : Seeds[k].file = "dialogue" /\ Seeds[k].decision # "answer"}
        first == {k \in talk : Cardinality({j \in talk : j <= k}) <= DialogueLimit}
    IN  {WithCopy(TrainingRow("v6_4_dialogue_response", "dialogue_v64", <<"plan">>, SeedItem(k), <<>>, Question,
                              IF Seeds[k].decision = "ask" THEN "follow_up" ELSE "off_domain"), k) :
            k \in first}

V62Sources == {"v6_2_source_id_final_answer", "v6_2_rewrite_numeric_citations",
               "v6_2_rewrite_raw_url_citations", "v6_2_rewrite_refusal_tail"}
KeepBaseRow(row) ==
    CASE row.source = "v6_planner_composer_contract_json" -> TRUE
      [] row.source = "v6_planner_composer_final_answer" ->
            row.ability \in {"answer", "partial", "follow_up", "off_domain"}
      [] row.source \in V62Sources -> row.ability = "answer"
      [] OTHER -> row.ability # "refuse"

PositiveLabel ==
    [v6_3_mandatory_sentence_citations |-> "v6_4_positive_mandatory_sentence_citations",
     v6_3_exact_value_extraction |-> "v6_4_positive_exact_value_extraction",
     v6_3_eval_failure_repair |-> "v6_4_positive_eval_failure_repair",
     v6_3_service_dialogue_followup |-> "v6_4_positive_service_dialogue_followup"]
PositiveV63(rows) ==
    {[row EXCEPT !.source = PositiveLabel[@]] :
        row \in {r \in rows : r.source \in DOMAIN PositiveLabel /\ r.ability # "refuse"}}
PositiveSources == {PositiveLabel[label] : label \in DOMAIN PositiveLabel}

NormalizeSystem(row) ==
    IF row.source = "v6_4_positive_exact_value_extraction" THEN [row EXCEPT !.system = "extract_v64"]
    ELSE IF row.source \in PositiveSources \cup V62Sources \cup {"v6_planner_composer_final_answer"}
    THEN [row EXCEPT !.system = "composer_v64"] ELSE row
FreeForm(row) ==
    row.source \in PositiveSources \cup V62Sources
                   \cup {"v6_planner_composer_final_answer", "v6_4_dialogue_response"}

---------------------------------------------------------------------------
(* Splitting: every source is a bucket of its own. *)

\* round() takes a half to the even number.
HeldOutShare(n) ==
    LET whole == n \div HeldOutOf  rest == 2 * (n % HeldOutOf)
    IN  IF rest > HeldOutOf \/ (rest = HeldOutOf /\ whole % 2 = 1) THEN whole + 1 ELSE whole
HeldOutCount(script, n) ==
    IF n >= MinBucket[script] THEN Max({1, HeldOutShare(n)})
    ELSE IF script = "v6" THEN HeldOutShare(n) ELSE 0
Bucket(rows, source) == {row \in rows : row.source = source}
\* The sets of rows a shuffle of every bucket may hold out.
HeldOutSets(script, rows) ==
    FoldSet(LAMBDA source, some :
                {held \cup more : held \in some,
                                  more \in kSubset(HeldOutCount(script, Cardinality(Bucket(rows, source))),
                                                   Bucket(rows, source))},
            {{}}, {row.source : row \in rows})
SplitRows(rows, held) == [train |-> rows \ held, val |-> rows \cap held]

---------------------------------------------------------------------------
(* Files *)

NoFile == [status |-> "none", rows |-> {}, build |-> 0, base |-> <<0, 0>>]
Torn(names) == \E name \in names : files[name].status = "torn"
RowsOf(script, part) == files[<<script, part>>].rows
BuildOf(script, part) == files[<<script, part>>].build
\* Train and val on disk are both whole and of one build.
Paired(script) ==
    /\ \A part \in {"train", "val"} : files[<<script, part>>].status = "whole"
    /\ BuildOf(script, "train") = BuildOf(script, "val")

BasePair(script) == IF script = "v62" THEN "v6" ELSE "v62"
Inputs(script) ==
    IF script = "v6" THEN {}
    ELSE {<<BasePair(script), "train">>, <<BasePair(script), "val">>}
         \cup (IF script = "v64" THEN {<<"v63", "control">>} ELSE {})

NothingReady == [control |-> {}, train |-> {}, val |-> {}, base |-> <<0, 0>>]

DatasetsInit ==
    /\ contracts = FirstContracts
    /\ files = [name \in Builders \X Parts |-> NoFile]
    /\ builder = "none" /\ step = "idle" /\ writing = FALSE
    /\ ready = NothingReady
    /\ builds = 0 /\ buildKills = 0

\* Another contract is distilled and appended.
Redistil ==
    /\ step = "idle" /\ contracts # Curriculum
    /\ \E rec \in Curriculum \ contracts : contracts' = contracts \cup {rec}
    /\ UNCHANGED <<files, builder, step, writing, ready, builds, buildKills>>

Begins(script) ==
    /\ step = "idle" /\ builds < BuildLimit
    /\ builder' = script /\ builds' = builds + 1
    /\ UNCHANGED <<contracts, files, writing, buildKills>>

\* Nothing to format: the script stops before it writes.
StartV6 ==
    LET rows == UNION {Copies(FormatV6(rec), rec.id) : rec \in contracts}
    IN  /\ Begins("v6") /\ rows # {} /\ step' = "train"
        /\ \E held \in HeldOutSets("v6", rows) :
              LET split == SplitRows(rows, held)
              IN  ready' = [NothingReady EXCEPT !.train = split.train, !.val = split.val]

\* v6.2 and v6.3 write their control rows before they read the base pair.
StartV62 ==
    /\ Begins("v62") /\ step' = "control"
    /\ ready' = [NothingReady EXCEPT !.control = UNION {Copies(ControlRowsV62(rec), rec.id) : rec \in contracts}]

StartV63 ==
    /\ Begins("v63") /\ step' = "control"
    /\ \E items \in SomeHardNegatives :
          ready' = [NothingReady EXCEPT !.control = DedupeRows(
              (UNION {Copies(CitationRowsV63(rec) \cup ExtractionRowsV63(rec), rec.id) : rec \in contracts})
              \cup Copies((UNION {RepairRowsV63(item) : item \in Gold})
                          \cup RefusalRowsV63(items) \cup DialogueRowsV63, 0))]

ReadBases ==
    /\ step = "bases" /\ ~Torn(Inputs(builder)) /\ step' = "train"
    /\ \E held \in HeldOutSets(builder, ready.control) :
          LET base == BasePair(builder)  split == SplitRows(ready.control, held)
          IN  ready' = [control |-> ready.control,
                        train |-> DedupeRows(RowsOf(base, "train") \cup split.train),
                        val |-> DedupeRows(RowsOf(base, "val") \cup split.val),
                        base |-> <<BuildOf(base, "train"), BuildOf(base, "val")>>]
    /\ UNCHANGED <<contracts, files, builder, writing, builds, buildKills>>

\* load_jsonl raises SystemExit on a torn line.
StopAtTorn ==
    /\ step = "bases" /\ Torn(Inputs(builder))
    /\ builder' = "none" /\ step' = "idle" /\ ready' = NothingReady
    /\ UNCHANGED <<contracts, files, writing, builds, buildKills>>

BaseRowsV64 ==
    {NormalizeSystem(row) : row \in {r \in RowsOf("v62", "train") \cup RowsOf("v62", "val") : KeepBaseRow(r)}}
ControlRowsV64(items) ==
    DedupeRows({NormalizeSystem(row) : row \in PositiveV63(RowsOf("v63", "control"))}
               \cup PlannerRowsV64 \cup DialogueRowsV64 \cup Copies(RefusalRowsV64(items), 0))

\* v6.4 reads everything first, and pools train and val of v6.2 again.
StartV64 ==
    /\ Begins("v64") /\ ~Torn(Inputs("v64")) /\ step' = "control"
    /\ \E items \in SomeHardNegatives :
          LET control == ControlRowsV64(items)
              rows == DedupeRows(BaseRowsV64 \cup control)
          IN  \E held \in HeldOutSets("v64", rows) :
                 LET split == SplitRows(rows, held)
                 IN  ready' = [control |-> control, train |-> split.train, val |-> split.val,
                               base |-> <<BuildOf("v62", "train"), BuildOf("v62", "val")>>]

Truncate ==
    /\ step \in Parts /\ ~writing /\ writing' = TRUE
    /\ files' = [files EXCEPT ![<<builder, step>>] = [NoFile EXCEPT !.status = "short"]]
    /\ UNCHANGED <<contracts, builder, step, ready, builds, buildKills>>

StepAfter ==
    CASE step = "control" -> IF builder = "v64" THEN "train" ELSE "bases"
      [] step = "train" -> "val"
      [] OTHER -> "idle"
Fill ==
    /\ writing /\ writing' = FALSE
    /\ files' = [files EXCEPT ![<<builder, step>>] =
                    [status |-> "whole", rows |-> ready[step], build |-> builds, base |-> ready.base]]
    /\ step' = StepAfter
    /\ IF StepAfter = "idle" THEN builder' = "none" /\ ready' = NothingReady
                             ELSE UNCHANGED <<builder, ready>>
    /\ UNCHANGED <<contracts, builds, buildKills>>

KillBuild ==
    /\ step # "idle" /\ buildKills < BuildKills
    /\ \/ UNCHANGED files
       \/ writing /\ files' = [files EXCEPT ![<<builder, step>>].status = "torn"]
    /\ builder' = "none" /\ step' = "idle" /\ writing' = FALSE /\ ready' = NothingReady
    /\ buildKills' = buildKills + 1
    /\ UNCHANGED <<contracts, builds>>

DatasetsNext ==
    Redistil \/ StartV6 \/ StartV62 \/ StartV63 \/ StartV64 \/ ReadBases \/ StopAtTorn
    \/ Truncate \/ Fill \/ KillBuild

DatasetsSpec == DatasetsInit /\ [][DatasetsNext]_datasetVars

---------------------------------------------------------------------------
(* Properties *)

\* Files have one of four states, a file that is open is cut to nothing, and
\* a script that writes has a builder.
DatasetsTypeOK ==
    /\ contracts \subseteq Curriculum
    /\ \A name \in DOMAIN files :
          /\ files[name].status \in {"none", "whole", "short", "torn"}
          /\ files[name].status # "whole" => files[name].rows = {}
          /\ files[name].build <= builds
    /\ step \in Parts \cup {"bases", "idle"} /\ (step = "idle" <=> builder = "none")
    /\ writing => step \in Parts /\ files[<<builder, step>>].status = "short"

\* No conversation v6.4 is validated on, from its system prompt to its answer,
\* is one it was trained on, whatever crashes and rebuilds the pooled files went
\* through, however often a question stands in the seeds, and whatever v6 and
\* v6.2 put on both sides.  Conversations about one question that differ in
\* their prompts are split each for itself.
HeldOutUnseen ==
    Paired("v64") => MessagesOf(RowsOf("v64", "train")) \cap MessagesOf(RowsOf("v64", "val")) = {}

\* A row v6.2 held out is not one v6.3 trains on, when every pair on the way
\* came from one build.  v6 and v6.2 split without deduplicating, so the equal
\* conversations of two contracts may be on both sides: the row of one contract
\* is meant here, not what it says.
HeldOutStaysOut ==
    LET of == files[<<"v63", "train">>].base
        under == files[<<"v62", "train">>].base
    IN  /\ Paired("v63") /\ Paired("v62")
        /\ of = <<BuildOf("v62", "train"), BuildOf("v62", "val")>>
        /\ under[1] = under[2]
        => RowsOf("v62", "val") \cap RowsOf("v63", "train") = {}

\* Every control row of a build is in its training or its validation file.
ControlsAreUsed ==
    \A script \in {"v62", "v63", "v64"} :
        /\ Paired(script)
        /\ files[<<script, "control">>].status = "whole"
        /\ BuildOf(script, "control") = BuildOf(script, "train")
        => MessagesOf(RowsOf(script, "control"))
           \subseteq MessagesOf(RowsOf(script, "train") \cup RowsOf(script, "val"))

\* In v6.4 refusing is a JSON decision: no row that is written as prose is
\* labelled a refusal.
RefusalsAreJson ==
    \A part \in Parts : \A row \in RowsOf("v64", part) :
        FreeForm(row) => row.ability \notin {"refuse", "refuse_json"}

\* A torn file stops the script that reads it before it touches its own
\* training and validation files.
NothingFromTorn ==
    [][\A script \in Builders : \A part \in {"train", "val"} :
         files'[<<script, part>>] # files[<<script, part>>]
         => \A name \in {<<BasePair(script), "train">>, <<BasePair(script), "val">>} :
               name[1] # script /\ script # "v6" => files[name].status # "torn"]_datasetVars

\* What a builder leaves on disk, whatever was killed on the way: what is held
\* out is not trained on, no control row gets lost, refusing is a decision,
\* and nothing is built from a torn file.
SetsAreSound ==
    /\ [](DatasetsTypeOK /\ HeldOutUnseen /\ HeldOutStaysOut
          /\ ControlsAreUsed /\ RefusalsAreJson)
    /\ NothingFromTorn
=============================================================================
