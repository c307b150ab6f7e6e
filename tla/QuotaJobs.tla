------------------------------ MODULE QuotaJobs ------------------------------
(***************************************************************************)
(* The five generators of scripts/ that fill buckets: generate_refusals,   *)
(* synthesize_anti_template, synthesize_brief_qa, synthesize_mc and        *)
(* synthesize_terse.  Each divides --n over buckets (a category and a      *)
(* language), submits calls to a pool, queues another call for a bucket    *)
(* that is short when one of its calls returns, and at the end shuffles,   *)
(* drops repeated questions, caps each bucket and writes the whole file.   *)
(* A reply is a list of pairs; a pair is described by what the validation  *)
(* looks at: its question, the script of question and answer, whether it   *)
(* is complete, and whether the answer cites a source or refuses.          *)
(***************************************************************************)
EXTENDS Naturals, Sequences, FiniteSets, SequencesExt, Picking

CONSTANTS
    TopicPairs,     \* TOPIC_PAIRS of synthesize_anti_template, a list
    Asked,          \* the values of --n
    PerCall,        \* --n-per-call
    Pairs,          \* the pairs a reply may hold
    Generators,     \* the generators of the instance, each with its languages
    FailureLimit    \* calls that bring nothing for a bucket that is short

QuotaJobNames == {"refusals", "anti_template", "brief_qa", "mc", "terse"}
Languages == {"roman_nepali", "devanagari", "english"}

\* The lists of main() and --lang-mix name a language or a topic once.
ASSUME QuotaAssumption == /\ PerCall \in Nat \ {0}
                          /\ Asked \subseteq Nat
                          /\ FailureLimit \in Nat
ASSUME GeneratorsAssumption ==
    /\ TopicPairs # <<>> /\ IsInjective(TopicPairs)
    /\ TopicPairs \in Seq(ToSet(TopicPairs))
    /\ \A g \in Generators : /\ g.job \in QuotaJobNames
                             /\ g.langs \in Seq(Languages) /\ Len(g.langs) \in 1 .. 3
                             /\ IsInjective(g.langs)

-----------------------------------------------------------------------------
(* How --n is divided.                                                     *)

AtLeast1(n) == IF n = 0 THEN 1 ELSE n
\* round(): halves go to the even neighbour.
Rounded(x, d) ==
    LET f == x \div d
        r == 2 * (x % d)
    IN IF r > d \/ (r = d /\ f % 2 = 1) THEN f + 1 ELSE f

CatShare == [empty |-> 60, partial |-> 25, off_domain |-> 15]
LangShare == [devanagari |-> 40, roman_nepali |-> 30, english |-> 30]
RefusalTarget(n, b) == AtLeast1(Rounded(CatShare[b[1]] * LangShare[b[2]] * n, 10000))

AntiTemplateTarget(n, b) == AtLeast1(n \div (Len(TopicPairs) * 3))

\* --lang-mix: shares rounded down, what is left goes to the largest
\* fractions, in the order of the weights where they are equal.
MixWeight == [roman_nepali |-> 2, devanagari |-> 1, english |-> 1]
MixOrder == <<"roman_nepali", "devanagari", "english">>
Place(l) == CHOOSE k \in DOMAIN MixOrder : MixOrder[k] = l
OverLanguages(f) == f["roman_nepali"] + f["devanagari"] + f["english"]
BriefTarget(n, langs, l) ==
    LET weight == [m \in Languages |-> IF m \in ToSet(langs) THEN MixWeight[m] ELSE 0]
        total == OverLanguages(weight)
        floor == [m \in Languages |-> (weight[m] * n) \div total]
        fraction == [m \in Languages |-> (weight[m] * n) % total]
        before(m) == /\ m \in ToSet(langs)
                     /\ \/ fraction[m] > fraction[l]
                        \/ fraction[m] = fraction[l] /\ Place(m) < Place(l)
        rank == OverLanguages([m \in Languages |-> IF before(m) THEN 1 ELSE 0])
    IN floor[l] + (IF rank < n - OverLanguages(floor) THEN 1 ELSE 0)

McShare == [devanagari |-> 34, roman_nepali |-> 33, english |-> 33]
McTarget(n, l) == (n * McShare[l]) \div 100

TerseTarget(n, b) ==
    LET open == (n * 70) \div 100
    IN (McShare[b[2]] * (IF b[1] = "open" THEN open ELSE n - open)) \div 100

\* Each category with each language.
Of(cats, langs) ==
    [k \in 1 .. Len(cats) * Len(langs) |-> <<cats[(k - 1) \div Len(langs) + 1],
                                            langs[((k - 1) % Len(langs)) + 1]>>]

\* The plan of a generator's main(): its buckets in order, the records each
\* is to get, and the calls of the first wave, for the share of pairs
\* (in tenths) expected to pass.
Planned(buckets, target(_), passing) ==
    [k \in DOMAIN buckets |->
        [bucket |-> buckets[k], target |-> target(buckets[k]),
         wave |-> (target(buckets[k]) * 10) \div (PerCall * passing) + 1]]
RefusalPlan(n, langs) ==
    Planned(Of(<<"empty", "partial", "off_domain">>, langs), LAMBDA b : RefusalTarget(n, b), 8)
AntiTemplatePlan(n, langs) ==
    Planned(Of(TopicPairs, langs), LAMBDA b : AntiTemplateTarget(n, b), 7)
BriefPlan(n, langs) ==
    LET all == Planned(Of(<<"brief_qa">>, langs), LAMBDA b : BriefTarget(n, langs, b[2]), 8)
    IN Picked(all, {k \in DOMAIN all : all[k].target > 0})
McPlan(n, langs) == Planned(Of(<<"mc_short">>, langs), LAMBDA b : McTarget(n, b[2]), 8)
TersePlan(n, langs) ==
    Planned(Of(<<"open", "grounded_terse">>, langs), LAMBDA b : TerseTarget(n, b), 8)

Plan(job, n, langs) ==
    CASE job = "refusals" -> RefusalPlan(n, langs)
      [] job = "anti_template" -> AntiTemplatePlan(n, langs)
      [] job = "brief_qa" -> BriefPlan(n, langs)
      [] job = "mc" -> McPlan(n, langs)
      [] job = "terse" -> TersePlan(n, langs)
PlanOf(plan, b) == plan[CHOOSE k \in DOMAIN plan : plan[k].bucket = b]

-----------------------------------------------------------------------------
(* What a generator takes of a reply.  Only scripts are compared: Roman    *)
(* Nepali is Latin letters with a Nepali word among them, and Latin        *)
(* letters pass as English whatever they say.                              *)

Script(lang) == IF lang = "devanagari" THEN "devanagari" ELSE "latin"
InScript(p, lang) ==
    /\ p.script = Script(lang)
    /\ lang = "roman_nepali" => p.nepali

ValidRefusal(p, lang) == p.complete /\ InScript(p, lang)
ValidAnti(p, lang) == p.complete /\ p.cites /\ InScript(p, lang) /\ p.refuses
ValidBrief(p, lang) == p.complete /\ InScript(p, lang)
ValidMc(p, lang) == p.complete /\ InScript(p, lang)
ValidOpen(p, lang) == p.complete /\ InScript(p, lang)
\* No language is asked for.
ValidGroundedTerse(p, lang) == p.complete /\ p.cites

Valid(job, p, b) ==
    CASE job = "refusals" -> ValidRefusal(p, b[2])
      [] job = "anti_template" -> ValidAnti(p, b[2])
      [] job = "brief_qa" -> ValidBrief(p, b[2])
      [] job = "mc" -> ValidMc(p, b[2])
      [] job = "terse" -> IF b[1] = "open" THEN ValidOpen(p, b[2])
                          ELSE ValidGroundedTerse(p, b[2])

\* The places of a reply's pairs that pass; none when the call failed or the
\* reply is no JSON.
Kept(job, reply, b) == {k \in DOMAIN reply : Valid(job, reply[k], b)}
Replies == UNION {[1 .. n -> Pairs] : n \in 0 .. PerCall}
Gain(reply, kept) == [size |-> Cardinality(kept), asked |-> {reply[k].question : k \in kept}]
Gains(job, b) == {Gain(r, Kept(job, r, b)) : r \in Replies}

-----------------------------------------------------------------------------
VARIABLES
    gen,        \* the generator, its --n and its plan
    targets,    \* records each bucket is to get
    calls,      \* outstanding calls of each bucket
    bucket,     \* how many pairs each bucket has, and their questions
    threw,      \* buckets one of whose calls raised
    failures,
    stage,      \* "calls", "done"
    final       \* the records written: pair and bucket

quotaVars == <<gen, targets, calls, bucket, threw, failures, stage, final>>

Bs == DOMAIN targets

QuotaInit ==
    /\ gen \in {[job |-> g.job, n |-> n, plan |-> Plan(g.job, n, g.langs)] :
                    g \in Generators, n \in Asked}
    /\ targets = [b \in {p.bucket : p \in ToSet(gen.plan)} |-> PlanOf(gen.plan, b).target]
    /\ bucket = [b \in Bs |-> Gain(<<>>, {})]
    /\ calls = [b \in Bs |-> PlanOf(gen.plan, b).wave]
    /\ threw = {}
    /\ failures = 0
    /\ stage = "calls"
    /\ final = {}

ShortOf(size, b) == size < targets[b]

\* A call returns; a bucket that is still short gets another one.
CallReturns(b) ==
    /\ stage = "calls" /\ calls[b] > 0
    /\ \E gain \in Gains(gen.job, b) :
        LET size == bucket[b].size + gain.size
            nothing == gain.size = 0 /\ ShortOf(size, b)
        IN /\ nothing => failures < FailureLimit
           /\ failures' = IF nothing THEN failures + 1 ELSE failures
           /\ bucket' = [bucket EXCEPT ![b] = [size |-> size, asked |-> @.asked \cup gain.asked]]
           /\ calls' = [calls EXCEPT ![b] = IF ShortOf(size, b) THEN @ ELSE @ - 1]
    /\ UNCHANGED <<gen, targets, threw, stage, final>>

\* A reply with something in its list that is no object: the call raises,
\* which is logged; the future is gone and none follows it.
CallRaises(b) ==
    /\ stage = "calls" /\ calls[b] > 0
    /\ calls' = [calls EXCEPT ![b] = @ - 1]
    /\ threw' = threw \cup {b}
    /\ UNCHANGED <<gen, targets, bucket, failures, stage, final>>

\* The questions a bucket contributes after its shuffle: new ones, up to its
\* target, in the order of the buckets.
Taken(seen, b) ==
    LET new == bucket[b].asked \ seen
        n == IF targets[b] < Cardinality(new) THEN targets[b] ELSE Cardinality(new)
    IN {t \in SUBSET new : Cardinality(t) = n}
AddTakenApart(finals, b) ==
    UNION {{f \cup {[question |-> q, bucket |-> b] : q \in t} : t \in Taken({}, b)} : f \in finals}
AddTaken(finals, b) ==
    UNION {{f \cup {[question |-> q, bucket |-> b] : q \in t} :
               t \in Taken({r.question : r \in f}, b)} : f \in finals}
Finals ==
    LET upto[n \in 0 .. Len(gen.plan)] ==
            IF n = 0 THEN {{}} ELSE AddTaken(upto[n - 1], gen.plan[n].bucket)
    IN upto[Len(gen.plan)]

WriteWhenFull ==
    /\ stage = "calls" /\ \A b \in Bs : calls[b] = 0 /\ ~ShortOf(bucket[b].size, b)
    /\ stage' = "done"
    /\ final' \in Finals
    /\ UNCHANGED <<gen, targets, calls, bucket, threw, failures>>
WriteAll ==
    /\ stage = "calls" /\ \A b \in Bs : calls[b] = 0
    /\ stage' = "done"
    /\ final' \in Finals
    /\ UNCHANGED <<gen, targets, calls, bucket, threw, failures>>

QuotaNext ==
    \/ \E b \in Bs : CallReturns(b) \/ CallRaises(b)
    \/ WriteAll

\* The pool's threads finish their calls and main handles what they return.
QuotaSpec ==
    /\ QuotaInit /\ [][QuotaNext]_quotaVars
    /\ WF_quotaVars(\E b \in Bs : CallReturns(b))
    /\ WF_quotaVars(WriteAll)

-----------------------------------------------------------------------------
\* What the variables hold; no bucket has more calls outstanding than its
\* first wave.
QuotaTypeOK ==
    /\ gen.job \in QuotaJobNames /\ gen.n \in Asked
    /\ \A b \in Bs : /\ calls[b] \in 0 .. PlanOf(gen.plan, b).wave
                     /\ bucket[b].asked \subseteq {p.question : p \in Pairs}
                     /\ Cardinality(bucket[b].asked) <= bucket[b].size
    /\ threw \subseteq Bs
    /\ failures \in 0 .. FailureLimit
    /\ stage \in {"calls", "done"}

\* No question is written twice, not under two buckets either, and no bucket
\* gets more records than its target (seen_qs and kept of the mains).
NoQuestionTwice ==
    \A r, s \in final : r.question = s.question => r = s
NoBucketOverfull ==
    \A b \in Bs : Cardinality({r \in final : r.bucket = b}) <= targets[b]

\* When the file is written a bucket is short for two reasons only: one of its
\* calls raised, or it holds a question that is already used, by itself or by
\* an earlier bucket (the loop over the outstanding calls of the mains).
ShortForAReason ==
    stage = "done" =>
        \A b \in Bs :
            LET mine == {r \in final : r.bucket = b}
                others == {r.question : r \in final \ mine}
            IN Cardinality(mine) < targets[b]
                 => \/ b \in threw
                    \/ Cardinality(bucket[b].asked) < bucket[b].size
                    \/ bucket[b].asked \cap others # {}

\* The targets of brief_qa add up to --n whatever the weights' fractions
\* (parse_lang_mix of synthesize_brief_qa.py).
MixAddsUp ==
    gen.job = "brief_qa" =>
        OverLanguages([l \in Languages |-> LET b == <<"brief_qa", l>>
                                           IN IF b \in Bs THEN targets[b] ELSE 0]) = gen.n

\* A record is filed under a language of its script, however the buckets of
\* one reply are mixed; synthesize_terse.py does not look at the script of the
\* pairs with a source (the validations of the five generators).
FiledByScript ==
    \A r \in final : r.bucket[1] # "grounded_terse" =>
        \E p \in Pairs : p.question = r.question /\ p.script = Script(r.bucket[2])

\* What is true of the buckets and the file made of them at any time.
BucketsAreSound ==
    /\ QuotaTypeOK /\ NoQuestionTwice /\ NoBucketOverfull /\ ShortForAReason
    /\ MixAddsUp /\ FiledByScript

\* The generator ends when the service does not fail for ever: no bucket waits
\* for a call nobody queued.
QuotaEnds == <>(stage = "done")
=============================================================================
