------------------------------ MODULE BatchJobs ------------------------------
(***************************************************************************)
(* The offline jobs of scripts/ that ask a teacher model about one item    *)
(* after the other and append one JSON line per item to an output file, so *)
(* that a run which was cut off can be resumed.  They are one machine with *)
(* a policy per script: how many items a call takes, whether a pool works  *)
(* on them, when the old output is read back, what a line that does not    *)
(* parse does, and what becomes of a worker that raised.  A process can be *)
(* killed at any moment, also between two writes of one flush, which cuts  *)
(* the last line of the file, possibly inside a character.                 *)
(***************************************************************************)
EXTENDS Naturals, FiniteSets, SequencesExt, Picking

CONSTANTS
    ItemCount,      \* the items a job's input lists: 1 .. ItemCount
    JobsRun,        \* the jobs this instance runs
    StartLimit,     \* how often the job is started
    KillLimit       \* how often it is killed

ASSUME BatchAssumption == /\ ItemCount \in Nat \ {0}
                          /\ StartLimit \in Nat
                          /\ KillLimit \in Nat

BatchItems == 1 .. ItemCount

-----------------------------------------------------------------------------
(* The policies, one per script.                                           *)

\* Always resumes, appends, sends a batch per call; what a worker raises
\* ends the run.
PoolJob(name, size) ==
    [name |-> name, unit |-> size, workers |-> 2, asks |-> FALSE,
     strict |-> FALSE, unasked |-> "append", raised |-> "aborts"]
\* Resumes when asked and appends otherwise too; what a worker raises is
\* counted.
SeedJob(name) ==
    [name |-> name, unit |-> 1, workers |-> 2, asks |-> TRUE,
     strict |-> FALSE, unasked |-> "append", raised |-> "counted"]
\* One item after the other; resumes when asked and starts a new file
\* otherwise; a line that does not parse ends the run at once; what the
\* work raises becomes a row.
ContractJob(name) ==
    [name |-> name, unit |-> 1, workers |-> 1, asks |-> TRUE,
     strict |-> TRUE, unasked |-> "unlink", raised |-> "row"]

ClassifyQuestions == PoolJob("classify", 2)
GroundedEval == PoolJob("grounded_eval", 2)
GroundedSft == PoolJob("grounded_sft", 2)
GroundednessDrafts == PoolJob("groundedness", 1)
DistillGrounded == SeedJob("distill_grounded")
AntiTemplate == SeedJob("anti_template")
RefusalQueries == SeedJob("refusal")
RagContracts == ContractJob("rag_contract")
PlannerContracts == ContractJob("planner")
GoldContracts == ContractJob("gold")
PreferencePairs == ContractJob("preference")
SourceDiscovery == ContractJob("discovery")

AllJobs == {ClassifyQuestions, GroundedEval, GroundedSft, GroundednessDrafts,
            DistillGrounded, AntiTemplate, RefusalQueries, RagContracts,
            PlannerContracts, GoldContracts, PreferencePairs, SourceDiscovery}

ASSUME JobsAssumption == JobsRun \subseteq AllJobs

-----------------------------------------------------------------------------
(* What a worker makes of the model's replies.  A reply to a call about    *)
(* several items is refused (HTTP, timeout, not JSON) or a list of parts;  *)
(* a part is valid, invalid (a class that does not exist, an empty         *)
(* question), "text" (not an object) or "odd" (a field of another type     *)
(* than the code calls methods of).  A result is the kind of row written   *)
(* for each item, or Raised.                                               *)

Parts == {"valid", "invalid", "text", "odd"}
Raised == <<"raised">>
Refused == [refused |-> TRUE, parts |-> <<>>]
ListOf(parts) == [refused |-> FALSE, parts |-> parts]
BatchReplies(n) == {Refused} \cup UNION {{ListOf(p) : p \in [1 .. m -> Parts]}
                                          : m \in {n - 1, n}}

\* A reply counts when it is a list with as many parts as items were sent.
Parsed(reply, n) == ~reply.refused /\ Len(reply.parts) = n

ClassifyOne(single) == IF single = "valid" THEN "good" ELSE "error"

\* A failed batch, and a part that is no classification, is asked again one
\* by one.
ClassifyBatch(n, reply, singles) ==
    IF n = 1 \/ ~Parsed(reply, n)
    THEN [i \in 1 .. n |-> ClassifyOne(singles[i])]
    ELSE IF "odd" \in ToSet(reply.parts)
    THEN Raised
    ELSE [i \in DOMAIN reply.parts |->
            IF reply.parts[i] = "valid" THEN "good" ELSE ClassifyOne(singles[i])]

\* Placeholders stand for the items of a failed batch and for a part that is
\* no object; what the model skipped is a row too.
GenerateEvalBatch(n, reply) ==
    IF ~Parsed(reply, n) THEN [i \in 1 .. n |-> "error"]
    ELSE IF "odd" \in ToSet(reply.parts) THEN Raised
    ELSE [i \in DOMAIN reply.parts |-> IF reply.parts[i] = "text" THEN "error" ELSE "good"]

\* Another record, the same way with it.
GenerateSftBatch(n, reply) == GenerateEvalBatch(n, reply)

\* The draft of an item whose call failed is a row without an answer.
ComposeOne(reply) == IF reply.refused THEN <<"error">> ELSE <<"good">>

\* The calls of one item: a row when each gives something to go on with.
Chain(replies, searched) ==
    IF replies[1] # "valid" THEN <<"none">>
    ELSE IF ~searched THEN Raised
    ELSE IF \A i \in DOMAIN replies : replies[i] = "valid" THEN <<"good">>
    ELSE <<"none">>
ProcessGrounded(question, searched, answer) ==
    Chain(<<question, answer>>, searched)
ProcessAntiTemplate(topic, question, searched, answer) ==
    IF topic # "valid" THEN <<"none">>
    ELSE Chain(<<question, answer>>, searched)
ProcessRefusal(query, searched, answer) == Chain(<<query, answer>>, searched)

\* The contract jobs catch all that the work on an item raises: looking up
\* the sources, planning, the teacher's call, its JSON, its validation.
Attempt(steps) == IF FALSE \in steps THEN <<"error">> ELSE <<"good">>
DistillContract(retrieved, taught) == Attempt({retrieved, taught})
DistillPlan(planned, retrieved, taught) == Attempt({planned, retrieved, taught})
DistillGold(planned, taught) == Attempt({planned, taught})
DistillPair(taught) == Attempt({taught})
\* A failed retrieval is written into the prompt.
Discover(retrieved, taught) == Attempt({taught})

Single == {"valid", "invalid"}
Results(job, n) ==
    CASE job.name = "classify" ->
            {ClassifyBatch(n, r, s) : r \in BatchReplies(n), s \in [1 .. n -> Single]}
      [] job.name = "grounded_eval" -> {GenerateEvalBatch(n, r) : r \in BatchReplies(n)}
      [] job.name = "grounded_sft" -> {GenerateSftBatch(n, r) : r \in BatchReplies(n)}
      [] job.name = "groundedness" -> {ComposeOne(r) : r \in BatchReplies(n)}
      [] job.name = "distill_grounded" ->
            {ProcessGrounded(q, s, a) : q \in Single, s \in BOOLEAN, a \in Single}
      [] job.name = "anti_template" ->
            {ProcessAntiTemplate(t, q, s, a) :
                t \in Single, q \in Single, s \in BOOLEAN, a \in Single}
      [] job.name = "refusal" ->
            {ProcessRefusal(q, s, a) : q \in Single, s \in BOOLEAN, a \in Single}
      [] job.name = "rag_contract" ->
            {DistillContract(r, t) : r \in BOOLEAN, t \in BOOLEAN}
      [] job.name = "planner" ->
            {DistillPlan(p, r, t) : p \in BOOLEAN, r \in BOOLEAN, t \in BOOLEAN}
      [] job.name = "gold" -> {DistillGold(p, t) : p \in BOOLEAN, t \in BOOLEAN}
      [] job.name = "preference" -> {DistillPair(t) : t \in BOOLEAN}
      [] job.name = "discovery" -> {Discover(r, t) : r \in BOOLEAN, t \in BOOLEAN}

-----------------------------------------------------------------------------
(* The output file: lines of an item and what a reader makes of them: a    *)
(* good row, an error row, "torn" (no JSON), "split" (not even text).      *)

Line(i, kind) == [item |-> i, kind |-> kind]
Rows == {"good", "error"}
Readable(line) == line.kind \in Rows
RowOf(file, i) == \E k \in DOMAIN file : Readable(file[k]) /\ file[k].item = i

\* The items a resumed run leaves out, and whether the old file stops it.
DoneUpToTorn(old) ==
    {old[k].item : k \in {j \in DOMAIN old : \A b \in 1 .. j : Readable(old[b])}}
Done(old) ==
    {old[k].item : k \in {j \in DOMAIN old : Readable(old[j])}}
Unreadable(strict, old) ==
    \E k \in DOMAIN old : \/ old[k].kind = "split"
                          \/ strict /\ old[k].kind = "torn"

\* What is left in input order, cut into the units of a call.
Batches(left, size) ==
    [k \in 1 .. ((Len(left) + size - 1) \div size) |->
        SubSeq(left, (k - 1) * size + 1, (IF k * size < Len(left) THEN k * size ELSE Len(left)))]

\* The lines written for a result: items without a row write nothing.
LinesOf(batch, rows) ==
    Picked([k \in DOMAIN rows |-> Line(batch[k], rows[k])], {k \in DOMAIN rows : rows[k] \in Rows})

\* A line appended after one that was cut runs into it: neither parses.
Glue(old, new) ==
    Line(old.item, IF "split" \in {old.kind, new.kind} THEN "split" ELSE "torn")
AppendLines(old, isCut, more) ==
    IF isCut /\ more # <<>>
    THEN Front(old) \o <<Glue(Last(old), Head(more))>> \o Tail(more)
    ELSE old \o more
GluedBy(old, isCut, more) ==
    IF isCut /\ more # <<>> THEN {Last(old).item, Head(more).item} ELSE {}

-----------------------------------------------------------------------------
VARIABLES
    job,        \* the script
    lines,      \* its output file
    cut,        \* the last line has no newline
    phase,      \* "off", "run", "failing" (the pool is waited for)
    todo,       \* the units no worker has taken yet
    busy,       \* the units in the workers
    ready,      \* the results main has not seen
    failed,     \* items of this run whose failure was counted only
    starts, kills,
    doubled,    \* a run appended to an old file it had not read
    glued,      \* items whose row ran into a cut line in this run
    report      \* what the last run ended with

batchVars == <<job, lines, cut, phase, todo, busy, ready, failed, starts, kills,
               doubled, glued, report>>

BatchInit ==
    /\ job \in JobsRun
    /\ lines = <<>> /\ cut = FALSE
    /\ phase = "off" /\ todo = <<>> /\ busy = {} /\ ready = {}
    /\ failed = {} /\ glued = {}
    /\ starts = 0 /\ kills = 0
    /\ doubled = FALSE
    /\ report = "none"

\* main() up to its loop: read back what is done, or not.
StartJob(asked) ==
    LET resumes == ~job.asks \/ asked
        kept == IF resumes \/ job.unasked = "append" THEN lines ELSE <<>>
        done == IF resumes THEN Done(kept) ELSE {}
        left == Picked([i \in BatchItems |-> i], BatchItems \ done)
    IN /\ phase = "off" /\ starts < StartLimit
       /\ job.asks \/ asked
       /\ starts' = starts + 1
       /\ UNCHANGED <<job, busy, ready, kills>>
       /\ IF resumes /\ Unreadable(job.strict, lines)
          THEN /\ report' = "unreadable"
               /\ UNCHANGED <<lines, cut, phase, todo, failed, doubled, glued>>
          ELSE /\ lines' = kept
               /\ cut' = (cut /\ kept # <<>>)
               /\ phase' = "run"
               /\ todo' = Batches(left, job.unit)
               /\ failed' = {} /\ glued' = {}
               /\ doubled' = ((doubled \/ (~resumes /\ lines # <<>>)) /\ kept # <<>>)
               /\ report' = "none"

\* A worker takes the next unit; the jobs without a pool go on when the row
\* of the last item is written.
Take ==
    /\ phase # "off" /\ todo # <<>>
    /\ Cardinality(busy) < job.workers
    /\ job.workers = 1 => ready = {}
    /\ busy' = busy \cup {Head(todo)}
    /\ todo' = Tail(todo)
    /\ UNCHANGED <<job, lines, cut, phase, ready, failed, starts, kills, doubled, glued, report>>

Finish ==
    /\ phase # "off"
    /\ \E b \in busy : \E r \in Results(job, Len(b)) :
          /\ busy' = busy \ {b}
          /\ ready' = ready \cup {[batch |-> b, rows |-> r]}
    /\ UNCHANGED <<job, lines, cut, phase, todo, failed, starts, kills, doubled, glued, report>>

\* as_completed(): main writes a result and flushes, counts it, or dies of it.
Consume ==
    /\ phase = "run"
    /\ \E r \in ready :
        /\ ready' = ready \ {r}
        /\ IF r.rows = Raised
           THEN /\ IF job.raised = "aborts"
                   THEN phase' = "failing" /\ failed' = failed
                   ELSE phase' = phase /\ failed' = failed \cup ToSet(r.batch)
                /\ UNCHANGED <<lines, cut, glued>>
           ELSE LET more == LinesOf(r.batch, r.rows)
                IN /\ lines' = AppendLines(lines, cut, more)
                   /\ cut' = (cut /\ more = <<>>)
                   /\ glued' = glued \cup GluedBy(lines, cut, more)
                   /\ failed' = failed \cup {r.batch[k] : k \in
                                   {j \in DOMAIN r.rows : r.rows[j] = "none"}}
                   /\ UNCHANGED phase
    /\ UNCHANGED <<job, todo, busy, starts, kills, doubled, report>>

\* Leaving the with-block waits for the pool, after an exception too, whose
\* results nobody writes.
EndJob ==
    /\ phase # "off" /\ todo = <<>> /\ busy = {}
    /\ phase = "run" => ready = {}
    /\ phase' = "off"
    /\ report' = IF phase = "run" THEN "ended" ELSE "raised"
    /\ ready' = {}
    /\ UNCHANGED <<job, lines, cut, todo, busy, failed, starts, kills, doubled, glued>>

\* The process is killed: what no flush has written is gone.  Within a flush
\* some lines are there, and a piece of the next one.
Kill ==
    /\ phase # "off" /\ kills < KillLimit
    /\ kills' = kills + 1
    /\ phase' = "off" /\ todo' = <<>> /\ busy' = {} /\ ready' = {}
    /\ report' = "killed"
    /\ \/ UNCHANGED <<lines, cut, glued>>
       \/ /\ phase = "run"
          /\ \E r \in {x \in ready : x.rows # Raised} :
               LET more == LinesOf(r.batch, r.rows)
               IN \E n \in DOMAIN more : \E piece \in {"torn", "split", more[n].kind} :
                    LET written == SubSeq(more, 1, n - 1) \o <<Line(more[n].item, piece)>>
                    IN /\ lines' = AppendLines(lines, cut, written)
                       /\ cut' = TRUE
                       /\ glued' = glued \cup GluedBy(lines, cut, written)
    /\ UNCHANGED <<job, failed, starts, doubled>>

Work == Take \/ Finish \/ Consume \/ EndJob

BatchNext ==
    \/ \E asked \in BOOLEAN : StartJob(asked)
    \/ Work \/ Kill

\* As long as a thread of the pool or main can go on, one of them does.
BatchSpec == BatchInit /\ [][BatchNext]_batchVars /\ WF_batchVars(Work)

-----------------------------------------------------------------------------
\* What the variables hold.
BatchTypeOK ==
    /\ job \in AllJobs
    /\ lines \in Seq([item : BatchItems, kind : {"good", "error", "torn", "split"}])
    /\ cut \in BOOLEAN /\ (cut => lines # <<>>)
    /\ phase \in {"off", "run", "failing"}
    /\ \A k \in DOMAIN todo : ToSet(todo[k]) \subseteq BatchItems
    /\ Cardinality(busy) <= job.workers
    /\ failed \subseteq BatchItems /\ glued \subseteq BatchItems
    /\ starts \in 0 .. StartLimit /\ kills \in 0 .. KillLimit
    /\ doubled \in BOOLEAN
    /\ report \in {"none", "ended", "raised", "killed", "unreadable"}

\* However often a job is killed and started again, wherever the kill cut the
\* file, no item gets a second row that parses, unless somebody started a job
\* that appends without asking it to resume (already_done() and the --resume
\* blocks of the mains).
OneRowEach ==
    ~doubled => \A j, k \in DOMAIN lines :
        Readable(lines[j]) /\ Readable(lines[k]) /\ lines[j].item = lines[k].item
            => j = k

\* A run that ended without an error has left a row for every item of its
\* input, but for those whose failure it counted and those whose row ran into
\* the line a kill had cut (the batching, parse_batch() and the loops over
\* as_completed()).
EndedIsComplete ==
    report = "ended" => \A i \in BatchItems : RowOf(lines, i) \/ i \in failed \cup glued

\* A row that parses stays on disk whatever the job does next, except where a
\* strict job is started afresh, and for the last row when a kill left it
\* without its newline (open("a") and unlink() of the mains).
RowsStay ==
    [][\A i \in BatchItems : RowOf(lines, i) /\ ~RowOf(lines', i)
          => \/ job.unasked = "unlink" /\ lines' = <<>>
             \/ cut /\ Last(lines).item = i]_batchVars

\* A started job comes to an end: no unit is lost in the pool, and main waits
\* for none that is not there, after an exception either (the with-blocks of
\* the mains).
JobsEnd == []<>(phase = "off")

\* What is true of the output files at any time.
RowsAreSound == BatchTypeOK /\ OneRowEach /\ EndedIsComplete

\* What classify_gov_questions.py says of its output, "every result lands on
\* disk immediately so a crash leaves a resumable state": a killed run can be
\* resumed.
CrashIsResumable == report # "unreadable"
=============================================================================
