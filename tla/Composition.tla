----------------------------- MODULE Composition -----------------------------
(***************************************************************************)
(* Three scripts that compose a set of rows from others:                   *)
(*   v4     assemble_v4_english_replay and assemble_v4_carryovers, then    *)
(*          format_sft_v4: slices, a cap on refusals, a fallback, targets, *)
(*          and a split of every slice                                     *)
(*   mix    format_sft_v5, format_sft_v5_dialogue, build_v5_training_mix   *)
(*   guard  build_dev_guard_v4: a balanced subsample of the evaluation set *)
(* A record is what it asks (q stands for all that its row says) and what  *)
(* the scripts look at, and has an id, its line in the file: two records   *)
(* may say the same.  A shuffle followed by a cut is a choice of that many *)
(* records.                                                                *)
(***************************************************************************)
EXTENDS Naturals, Sequences, FiniteSets, FiniteSetsExt

CONSTANTS
    RawFiles,           \* for v4: the records of "grounded", "terse", "fallback", "tulu1", "tulu2"
    SliceTargets,       \* [slice -> target]
    ReplaySize,         \* records of the English replay
    RefusalCap,         \* --grounded-max-refusal-frac as <<numerator, denominator>>
    SliceHeldOutOf,     \* the split holds out one record in this many
    RagRows, DialogueRecords, ReplayRows,   \* for mix; the first two with their lines
    RagRepeat, ReplayCount, BigBucket, MixHeldOutOf,
    GuardItems,         \* for guard: [id, cat]
    LowCoverage,        \* categories with slots of their own
    GuardSize

SliceNames == {"grounded", "terse", "english"}
RawNames == {"grounded", "terse", "fallback", "tulu1", "tulu2"}

\* A record is of one file and known by its id; the share that is held out
\* is one half at most; what replay_to_messages makes says that it did.
ASSUME CompositionAssumption ==
    /\ {ReplaySize, RagRepeat, ReplayCount, BigBucket, GuardSize} \subseteq Nat
    /\ \A slice \in SliceNames : SliceTargets[slice] \in Nat
    /\ RefusalCap \in Nat \X Nat /\ RefusalCap[1] < RefusalCap[2]
    /\ SliceHeldOutOf \in Nat \ {0, 1} /\ MixHeldOutOf \in Nat \ {0}
    /\ \A f \in RawNames : IsFiniteSet(RawFiles[f]) /\ \A a \in RawFiles[f] : a.id \in Nat
    /\ \A f, g \in RawNames : \A a \in RawFiles[f], b \in RawFiles[g] : a.id = b.id => a = b /\ f = g
    /\ \A row \in ReplayRows : row.source = "replay"
    /\ IsFiniteSet(GuardItems) /\ IsFiniteSet(LowCoverage)

GuardCats == {item.cat : item \in GuardItems}

VARIABLES
    making,     \* "v4", "mix", "guard"
    at,         \* the step
    options,    \* the flags of format_sft_v4
    slices,     \* [slice -> records]
    capped,     \* the grounded slice right after the refusal cap
    trained, validated,     \* the two files
    picked,     \* the guard so far
    catsLeft    \* categories its second phase has not reached

compositionVars == <<making, at, options, slices, capped, trained, validated, picked, catsLeft>>

Options == [capRefusals : BOOLEAN, fallback : BOOLEAN, toTargets : BOOLEAN, allowMissing : BOOLEAN,
            missing : SUBSET {"grounded", "terse"}]
NoOptions == [capRefusals |-> FALSE, fallback |-> FALSE, toTargets |-> FALSE, allowMissing |-> FALSE,
              missing |-> {}]

CompositionInit ==
    /\ making \in {"v4", "mix", "guard"} /\ at = "start"
    /\ IF making = "v4" THEN options \in Options ELSE options = NoOptions
    /\ slices = [slice \in SliceNames |-> {}] /\ capped = {}
    /\ trained = {} /\ validated = {} /\ picked = {} /\ catsLeft = {}

---------------------------------------------------------------------------
(* format_sft_v4 and what it reads *)

Refusing(rows) == {row \in rows : row.refuses}
AtMost(n, rows) == kSubset(Min({n, Cardinality(rows)}), rows)

\* A formatter drops what is to be skipped.
Formatted(rows) == {row \in rows : ~row.skip}
FilterTerse(rows) == {row \in rows : row.chunks # {}}

\* The first record of a question, over the files in order.
PoolPerFile(files) == UNION {RawFiles[f] : f \in files}
ReplayPool(files) ==
    {row \in UNION {RawFiles[f] : f \in files} :
        \A other \in UNION {RawFiles[f] : f \in files} : other.q = row.q => row.id <= other.id}

\* Without --allow-missing a missing file stops the script.
Bail ==
    /\ making = "v4" /\ at = "start"
    /\ options.missing # {} /\ ~options.allowMissing
    /\ at' = "bailed"
    /\ UNCHANGED <<making, options, slices, capped, trained, validated, picked, catsLeft>>

LoadSlices ==
    /\ making = "v4" /\ at = "start"
    /\ options.missing = {} \/ options.allowMissing
    /\ \E replay \in AtMost(ReplaySize, ReplayPool({"tulu1", "tulu2"})) :
          slices' = [grounded |-> IF "grounded" \in options.missing THEN {}
                                  ELSE Formatted(RawFiles["grounded"]),
                     terse |-> IF "terse" \in options.missing THEN {}
                               ELSE Formatted(FilterTerse(RawFiles["terse"])),
                     english |-> Formatted(replay)]
    /\ at' = "loaded"
    /\ UNCHANGED <<making, options, capped, trained, validated, picked, catsLeft>>

\* int((f * answered) / (1 - f)) in floats: a quotient that should come out
\* even may fall just short of it, as 0.35 and 13 give 6 and not 7.
MaxRefused(rows) ==
    LET all == RefusalCap[1] * Cardinality(rows \ Refusing(rows))
        kept == RefusalCap[2] - RefusalCap[1]
    IN  {n \in {all \div kept, all \div kept - 1} \cap Nat : n = all \div kept \/ all % kept = 0}
CapRefusalFraction ==
    /\ making = "v4" /\ at = "loaded" /\ at' = "capped"
    /\ LET rows == slices["grounded"]
       IN  IF options.capRefusals
           THEN \E n \in MaxRefused(rows) : \E kept \in AtMost(n, Refusing(rows)) :
                   capped' = (rows \ Refusing(rows)) \cup kept
           ELSE capped' = rows
    /\ slices' = [slices EXCEPT !["grounded"] = capped']
    /\ UNCHANGED <<making, options, trained, validated, picked, catsLeft>>

\* The user's message: the question and the sources under it.
Prompt(row) == <<row.q, row.chunks>>
\* Fallback records whose prompt the slice does not have, up to the target.
NotYetIn(row, rows) == \A other \in rows : Prompt(other) # Prompt(row)
FillSliceFromFallback ==
    /\ making = "v4" /\ at = "capped" /\ at' = "filled"
    /\ LET rows == slices["grounded"]
           pool == {row \in Formatted(RawFiles["fallback"]) : NotYetIn(row, rows)}
       IN  IF options.fallback /\ Cardinality(rows) < SliceTargets["grounded"]
           THEN \E more \in AtMost(SliceTargets["grounded"] - Cardinality(rows), pool) :
                   slices' = [slices EXCEPT !["grounded"] = @ \cup more]
           ELSE UNCHANGED slices
    /\ UNCHANGED <<making, options, capped, trained, validated, picked, catsLeft>>

CutTo(slice) ==
    IF options.toTargets /\ SliceTargets[slice] > 0
    THEN AtMost(SliceTargets[slice], slices[slice]) ELSE {slices[slice]}
CapToTargets ==
    /\ making = "v4" /\ at = "filled"
    /\ \E grounded \in CutTo("grounded"), terse \in CutTo("terse"), english \in CutTo("english") :
          slices' = [grounded |-> grounded, terse |-> terse, english |-> english]
    /\ at' = "cut"
    /\ UNCHANGED <<making, options, capped, trained, validated, picked, catsLeft>>

\* max(1, int(...)) of every slice that has records.
SliceShare(n) == IF n = 0 THEN 0 ELSE Max({1, n \div SliceHeldOutOf})
HeldOf(slice) == kSubset(SliceShare(Cardinality(slices[slice])), slices[slice])
StratifiedSplit ==
    /\ making = "v4" /\ at = "cut"
    /\ IF UNION {slices[slice] : slice \in SliceNames} = {}
       THEN at' = "bailed" /\ UNCHANGED <<trained, validated>>
       ELSE /\ at' = "done"
            /\ \E grounded \in HeldOf("grounded"), terse \in HeldOf("terse"), english \in HeldOf("english") :
                  /\ validated' = grounded \cup terse \cup english
                  /\ trained' = (UNION {slices[slice] : slice \in SliceNames}) \ validated'
    /\ UNCHANGED <<making, options, slices, capped, picked, catsLeft>>

---------------------------------------------------------------------------
(* The v5 mix.  A file is a set of [row, label, copy]. *)

Labelled(rows, label, repeat) ==
    {[row |-> row, label |-> label, copy |-> copy] : row \in rows, copy \in 1..repeat}

\* format_sft_v5: a record without issues gives two rows of two sources.
RagFormatted ==
    UNION {{[source |-> source, q |-> rec.q, id |-> rec.id] : source \in {"v5_rag_answer", "v5_rag_contract_json"}} :
              rec \in {r \in RagRows : ~r.issues}}
\* format_sft_v5_dialogue: an answer row only for a record with an answer.
DialogueFormatted ==
    UNION {{[source |-> source, q |-> rec.q, id |-> rec.id] :
               source \in {"v5_dialogue_contract_json"}
                         \cup (IF rec.answered THEN {"v5_dialogue_response"} ELSE {})} :
              rec \in {r \in DialogueRecords : ~r.issues}}

MixShare(n) ==
    LET whole == n \div MixHeldOutOf  rest == 2 * (n % MixHeldOutOf)
    IN  IF rest > MixHeldOutOf \/ (rest = MixHeldOutOf /\ whole % 2 = 1) THEN whole + 1 ELSE whole
RagShare(n) == IF n >= BigBucket THEN Max({1, MixShare(n)}) ELSE MixShare(n)
OfSource(rows, source) == {row \in rows : row.source = source}
\* A bucket per source for the RAG rows, one shuffle for the dialogues.
RagHeldOut ==
    {a \cup b : a \in kSubset(RagShare(Cardinality(OfSource(RagFormatted, "v5_rag_answer"))),
                              OfSource(RagFormatted, "v5_rag_answer")),
                b \in kSubset(RagShare(Cardinality(OfSource(RagFormatted, "v5_rag_contract_json"))),
                              OfSource(RagFormatted, "v5_rag_contract_json"))}
DialogueHeldOut ==
    kSubset(IF DialogueFormatted = {} THEN 0 ELSE Max({1, MixShare(Cardinality(DialogueFormatted))}),
            DialogueFormatted)

ReplayUsable == {row \in ReplayRows : ~row.skip}
\* Replay is sampled for training and again for validation from the same pool.
MixTrain(rag, dialogue, replay) ==
    Labelled(RagFormatted \ rag, "rag", RagRepeat) \cup Labelled(DialogueFormatted \ dialogue, "dialogue", 1)
    \cup Labelled(replay, "replay", 1)
Mix ==
    /\ making = "mix" /\ at = "start" /\ at' = "done"
    /\ RagFormatted # {} /\ DialogueFormatted # {}
    /\ \E rag \in RagHeldOut, dialogue \in DialogueHeldOut,
          replay \in AtMost(ReplayCount, ReplayUsable), again \in AtMost(ReplayCount, ReplayUsable) :
          /\ trained' = MixTrain(rag, dialogue, replay)
          /\ validated' = Labelled(rag, "rag", 1) \cup Labelled(dialogue, "dialogue", 1)
                          \cup Labelled(again, "replay", 1)
    /\ UNCHANGED <<making, options, slices, capped, picked, catsLeft>>

---------------------------------------------------------------------------
(* The development guard: refusals picked with slots for some categories. *)

OfCat(cat) == {item \in GuardItems : item.cat = cat}
\* The sets with up to n items of each category.
PerCat(n, cats) ==
    {chosen \in SUBSET {item \in GuardItems : item.cat \in cats} :
        \A cat \in cats : chosen \cap OfCat(cat) \in AtMost(n, OfCat(cat))}

PickLowCoverage ==
    /\ making = "guard" /\ at = "start" /\ at' = "topup"
    /\ picked' \in PerCat(2, LowCoverage) /\ catsLeft' = GuardCats
    /\ UNCHANGED <<making, options, slices, capped, trained, validated>>

\* max(1, (n - len(picked)) // len(cats)) of each category, fixed before the
\* loop; none once the guard is full.
PerCategory(had) ==
    Max({1, (GuardSize - had) \div Max({1, Cardinality(GuardCats)})})
\* Two of every low-coverage category that has them, one of those with one.
FirstPhase ==
    Cardinality({cat \in LowCoverage : OfCat(cat) # {}})
    + Cardinality({cat \in LowCoverage : Cardinality(OfCat(cat)) > 1})
TopUp(cat) ==
    /\ making = "guard" /\ at = "topup" /\ cat \in catsLeft
    /\ catsLeft' = catsLeft \ {cat}
    /\ \E more \in AtMost(Min({PerCategory(FirstPhase),
                               IF Cardinality(picked) < GuardSize THEN GuardSize - Cardinality(picked) ELSE 0}),
                          OfCat(cat) \ picked) :
          picked' = picked \cup more
    /\ UNCHANGED <<making, at, options, slices, capped, trained, validated>>

\* More low-coverage slots than places: the last cut is blind.
CutGuard ==
    /\ making = "guard" /\ at = "topup" /\ at' = "done"
    /\ catsLeft = {} \/ Cardinality(picked) >= GuardSize
    /\ picked' \in AtMost(GuardSize, picked) /\ catsLeft' = {}
    /\ UNCHANGED <<making, options, slices, capped, trained, validated>>

CompositionNext ==
    \/ Bail \/ LoadSlices \/ CapRefusalFraction \/ FillSliceFromFallback \/ CapToTargets
    \/ StratifiedSplit \/ Mix \/ PickLowCoverage \/ CutGuard
    \/ \E cat \in GuardCats : TopUp(cat)

CompositionSpec == CompositionInit /\ [][CompositionNext]_compositionVars

---------------------------------------------------------------------------
(* Properties *)

\* Records go where their script puts them: v4 fills slices, the mix fills
\* its two files, the guard takes items of the evaluation set and never more
\* than were asked for once it is written.
CompositionTypeOK ==
    /\ making # "v4" => \A slice \in SliceNames : slices[slice] = {}
    /\ picked \subseteq GuardItems
    /\ making = "guard" /\ at = "done" => Cardinality(picked) <= GuardSize
    /\ at = "bailed" => trained = {} /\ validated = {}

\* The cap keeps every answered record and, of what remains, refusals within
\* the fraction: one more would break it, or meet it exactly.  What the fallback adds
\* and the target takes away afterwards is not capped again.
RefusalShareHolds ==
    making = "v4" /\ at = "capped" /\ options.capRefusals =>
        LET before == IF "grounded" \in options.missing THEN {} ELSE Formatted(RawFiles["grounded"])
            refused == Cardinality(Refusing(capped))
            total == Cardinality(capped)
        IN  /\ before \ Refusing(before) \subseteq capped
            /\ refused * RefusalCap[2] <= RefusalCap[1] * total
            /\ capped # before => (refused + 1) * RefusalCap[2] >= RefusalCap[1] * (total + 1)

\* The fallback never adds a prompt that the slice already has; the same
\* question over other sources it may.
FallbackIsNew ==
    making = "v4" /\ at \in {"filled", "cut", "done"} =>
        \A row \in slices["grounded"] \ capped : NotYetIn(row, capped)

\* With --cap-to-targets no slice is above its target, and the fallback alone
\* never takes the grounded slice above it.
TargetsHold ==
    making = "v4" /\ at \in {"cut", "done"} =>
        /\ options.toTargets =>
              \A slice \in SliceNames : SliceTargets[slice] > 0 =>
                  Cardinality(slices[slice]) <= SliceTargets[slice]
        /\ Cardinality(slices["grounded"]) <= Max({SliceTargets["grounded"], Cardinality(capped)})

\* The English replay asks no question twice, although its files overlap.
ReplayHasNoTwins ==
    \A a, b \in slices["english"] : a.q = b.q => a = b

\* Each slice is validated on, and a slice of two or more is trained on too:
\* the files together hold every record once (two that say the same, twice).
EverySliceIsSplit ==
    making = "v4" /\ at = "done" =>
        /\ trained \cup validated = UNION {slices[slice] : slice \in SliceNames}
        /\ trained \cap validated = {}
        /\ \A slice \in SliceNames :
              /\ slices[slice] # {} => slices[slice] \cap validated # {}
              /\ Cardinality(slices[slice]) > 1 => slices[slice] \cap trained # {}

\* What a row says is what its formatter made of the record.
SaysTheSame(row, other) == row.source = other.source /\ row.q = other.q

\* The mix trains on no RAG or dialogue row that it validates on, unless two
\* records of their file say the same (nothing removes such twins before the
\* split), and repeats only RAG rows.  Replay rows may be in both files.
MixKeepsHeldOut ==
    making = "mix" =>
        /\ \A t \in trained, v \in validated :
              SaysTheSame(t.row, v.row) =>
                  \/ t.label = "replay" /\ v.label = "replay"
                  \/ t.label = v.label /\ t.row.id # v.row.id
        /\ \A t \in trained : t.copy > 1 => t.label = "rag"

\* Every low-coverage category the evaluation set has twice is in the guard
\* twice, when the guard has room for all their slots.
LowCoverageHasTwo ==
    making = "guard" /\ at = "done" /\ GuardSize >= 2 * Cardinality(LowCoverage) =>
        \A cat \in LowCoverage :
            Cardinality(OfCat(cat) \cap picked) >= Min({2, Cardinality(OfCat(cat))})

\* What the three scripts promise of the sets they compose.
MixesAreSound ==
    /\ CompositionTypeOK /\ RefusalShareHolds /\ FallbackIsNew /\ TargetsHold
    /\ ReplayHasNoTwins /\ EverySliceIsSplit /\ MixKeepsHeldOut /\ LowCoverageHasTwo
=============================================================================
