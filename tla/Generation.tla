------------------------------ MODULE Generation ------------------------------
(***************************************************************************)
(* Composer of server/main.py: one model, one lock, and requests that each *)
(* run on a thread.  /query generates under the lock on its own thread;    *)
(* /query/stream starts a worker that does, and polls the worker's queue   *)
(* until the end, an error or a refusal that repeats.  A draft in the      *)
(* wrong script is rewritten by a second generation.                       *)
(*                                                                         *)
(* A text is the sequence of its sentences; the streamer hands a sentence  *)
(* over in two chunks.                                                     *)
(***************************************************************************)
EXTENDS Integers, FiniteSets, SequencesExt, Picking

CONSTANTS Streams, Queries,  \* the requests of the two endpoints
          Sentences, Refusals, Alike, \* Alike: pairs above the Jaccard threshold
          Foreign,           \* sentences in the wrong script
          Drafts,            \* what the model writes when several ask
          AllDrafts,         \* and when one does
          Fails,             \* requests whose generation may raise
          MaxAsking          \* that many ask at the same time

ASSUME GenerationAssumption ==
  /\ MaxAsking \in Nat
  /\ Streams \cap Queries = {} /\ "free" \notin Streams \cup Queries
  /\ Refusals \subseteq Sentences /\ Foreign \subseteq Sentences
  /\ Drafts \subseteq AllDrafts /\ AllDrafts \subseteq Seq(Sentences)
  /\ "half" \notin Sentences

Requests == Streams \cup Queries
Free == "free"

VARIABLES
  at,        \* where each request's handler is
  raw,       \* what the model writes for it
  lock,      \* _generation_lock: its request or Free
  worker,    \* the stream's thread: "none", "waiting", "writing", "failing", "ended"
  put, got,  \* chunks in its queue so far, and read by the consumer
  ended,     \* the streamer's stop signal is in the queue
  errors,    \* the list errors is not empty
  answer,    \* the draft, then the answer
  left       \* how the consumer left the loop: "no", "end", "dead", "repeats"

genVars == <<at, raw, lock, worker, put, got, ended, errors, answer, left>>

-----------------------------------------------------------------------------
(* Cleaning.                                                               *)

Similar(a, b) == a = b \/ <<a, b>> \in Alike \/ <<b, a>> \in Alike

\* _clip_refusal_repetition.
RefusedAlready(text, i) == text[i] \in Refusals /\ \E j \in 1 .. i - 1 : text[j] = text[i]
ClipRefusalRepetition(text) == Picked(text, {i \in DOMAIN text : ~RefusedAlready(text, i)})

HasRefusalRepetition(text) ==
  \E i, j \in DOMAIN text : i < j /\ text[i] = text[j] /\ text[i] \in Refusals

\* Sentence n resembles one that was kept.
SaidAlready(read, text, n) == \E k \in read.kept : Similar(text[n], text[k])

\* Mutant: the count of duplicates is not reset by a sentence that is new.
ReadOnNoReset(read, text, n) ==
  CASE read.dups >= 2 -> read
    [] read.dups < 2 /\ SaidAlready(read, text, n) -> [read EXCEPT !.dups = @ + 1]
    [] OTHER -> [read EXCEPT !.kept = @ \cup {n}]

\* One turn of the loop of _dedup_sentences: what resembles a sentence that was
\* kept is dropped, and after two in a row the rest is.
ReadOn(read, text, n) ==
  CASE read.dups >= 2 -> read
    [] read.dups < 2 /\ SaidAlready(read, text, n) -> [read EXCEPT !.dups = @ + 1]
    [] OTHER -> [kept |-> read.kept \cup {n}, dups |-> 0]

ReadThrough(text) ==
  LET read[n \in 0 .. Len(text)] ==
        IF n = 0 THEN [kept |-> {}, dups |-> 0] ELSE ReadOn(read[n - 1], text, n)
  IN  read

DedupSentences(text) == Picked(text, ReadThrough(text)[Len(text)].kept)

Clean(text) == DedupSentences(ClipRefusalRepetition(text))

\* What n chunks amount to: "half" is a sentence whose end is missing.
Half == "half"
TextOf(text, n) == SubSeq(text, 1, n \div 2) \o IF n % 2 = 1 THEN <<Half>> ELSE <<>>

WrongScript(text) == Range(text) \cap Foreign # {}

-----------------------------------------------------------------------------

GenInit ==
  /\ \E present \in {p \in SUBSET Requests : Cardinality(p) <= MaxAsking} :
       /\ at = [r \in Requests |-> IF r \in present THEN "begin" ELSE "absent"]
       /\ \E drafts \in [present -> IF Cardinality(present) = 1 THEN AllDrafts ELSE Drafts] :
            raw = [r \in Requests |-> IF r \in present THEN drafts[r] ELSE <<>>]
  /\ lock = Free
  /\ worker = [r \in Requests |-> "none"]
  /\ put = [r \in Requests |-> 0] /\ got = [r \in Requests |-> 0]
  /\ ended = [r \in Requests |-> FALSE] /\ errors = [r \in Requests |-> FALSE]
  /\ answer = [r \in Requests |-> <<>>] /\ left = [r \in Requests |-> "no"]

Goto(r, place) == at' = [at EXCEPT ![r] = place]

\* query calls generate; query_stream starts the worker and polls.
Begin(r) ==
  /\ at[r] = "begin"
  /\ IF r \in Queries
     THEN Goto(r, "acquire") /\ UNCHANGED worker
     ELSE Goto(r, "poll") /\ worker' = [worker EXCEPT ![r] = "waiting"]
  /\ UNCHANGED <<raw, lock, put, got, ended, errors, answer, left>>

\* generate, for a query or a repair: "acquire" and "repair" wait for the lock.
Acquire(r) ==
  /\ at[r] \in {"acquire", "repair"} /\ lock = Free
  /\ lock' = r
  /\ Goto(r, IF at[r] = "acquire" THEN "generate" ELSE "rewrite")
  /\ UNCHANGED <<raw, worker, put, got, ended, errors, answer, left>>

Generate(r) ==
  /\ at[r] = "generate"
  /\ lock' = Free
  /\ \/ Goto(r, "check") /\ answer' = [answer EXCEPT ![r] = Clean(raw[r])]
     \/ r \in Fails /\ Goto(r, "error") /\ UNCHANGED answer
  /\ UNCHANGED <<raw, worker, put, got, ended, errors, left>>

\* A rewriting that fails, or is as wrong, leaves the draft to the guard,
\* which replaces it.
Rewrite(r) ==
  /\ at[r] = "rewrite"
  /\ lock' = Free
  /\ Goto(r, "final")
  /\ answer' = [answer EXCEPT ![r] = Picked(@, {i \in DOMAIN @ : @[i] \notin Foreign})]
  /\ UNCHANGED <<raw, worker, put, got, ended, errors, left>>

-----------------------------------------------------------------------------
(* generate_stream's worker.                                               *)

WorkerAcquires(r) ==
  /\ worker[r] = "waiting" /\ lock = Free
  /\ lock' = r /\ worker' = [worker EXCEPT ![r] = "writing"]
  /\ UNCHANGED <<at, raw, put, got, ended, errors, answer, left>>

WorkerWrites(r) ==
  /\ worker[r] = "writing" /\ put[r] < 2 * Len(raw[r])
  /\ put' = [put EXCEPT ![r] = @ + 1]
  /\ UNCHANGED <<at, raw, lock, worker, got, ended, errors, answer, left>>

\* The streamer's end, then the lock, then the thread.
WorkerEnds(r) ==
  /\ worker[r] = "writing" /\ put[r] = 2 * Len(raw[r])
  /\ ended' = [ended EXCEPT ![r] = TRUE]
  /\ worker' = [worker EXCEPT ![r] = "ended"] /\ lock' = Free
  /\ UNCHANGED <<at, raw, put, got, errors, answer, left>>

\* The exception leaves the with block and joins the errors; the end of the
\* stream is put afterwards.
WorkerFails(r) ==
  /\ worker[r] = "writing" /\ r \in Fails
  /\ worker' = [worker EXCEPT ![r] = "failing"] /\ lock' = Free
  /\ errors' = [errors EXCEPT ![r] = TRUE]
  /\ UNCHANGED <<at, raw, put, got, ended, answer, left>>

WorkerGivesUp(r) ==
  /\ worker[r] = "failing"
  /\ ended' = [ended EXCEPT ![r] = TRUE] /\ worker' = [worker EXCEPT ![r] = "ended"]
  /\ UNCHANGED <<at, raw, lock, put, got, errors, answer, left>>

-----------------------------------------------------------------------------
(* The consumer.                                                           *)

Leave(r, how, place) == left' = [left EXCEPT ![r] = how] /\ Goto(r, place)

\* A chunk; a refusal that repeats ends the reading, while the worker writes on.
Poll(r) ==
  /\ at[r] = "poll" /\ got[r] < put[r]
  /\ got' = [got EXCEPT ![r] = @ + 1]
  /\ LET candidate == TextOf(raw[r], got[r] + 1)
     IN  IF HasRefusalRepetition(candidate)
         THEN /\ Leave(r, "repeats", "clean")
              /\ answer' = [answer EXCEPT ![r] = Clean(candidate)]
         ELSE answer' = [answer EXCEPT ![r] = candidate] /\ UNCHANGED <<at, left>>
  /\ UNCHANGED <<raw, lock, worker, put, ended, errors>>

PollEnd(r) ==
  /\ at[r] = "poll" /\ got[r] = put[r] /\ ended[r]
  /\ Leave(r, "end", "join")
  /\ UNCHANGED <<raw, lock, worker, put, got, ended, errors, answer>>

\* Nothing for a second: is there an error,
PollTimeout(r) ==
  /\ at[r] = "poll" /\ got[r] = put[r] /\ ~ended[r]
  /\ Goto(r, IF errors[r] THEN "error" ELSE "alive")
  /\ UNCHANGED <<raw, lock, worker, put, got, ended, errors, answer, left>>

\* and then, is the worker dead?
CheckAlive(r) ==
  /\ at[r] = "alive"
  /\ IF worker[r] = "ended" THEN Leave(r, "dead", "join") ELSE Goto(r, "poll") /\ UNCHANGED left
  /\ UNCHANGED <<raw, lock, worker, put, got, ended, errors, answer>>

Join(r) ==
  /\ at[r] = "join"
  /\ Goto(r, IF errors[r] THEN "error" ELSE "clean")
  /\ UNCHANGED <<raw, lock, worker, put, got, ended, errors, answer, left>>

\* query_stream cleans what it has read, as generate has done already.
CleanUp(r) ==
  /\ at[r] = "clean" /\ Goto(r, "check")
  /\ answer' = [answer EXCEPT ![r] = Clean(@)]
  /\ UNCHANGED <<raw, lock, worker, put, got, ended, errors, left>>

\* Both endpoints: rewrite a draft in the wrong script.
CheckScript(r) ==
  /\ at[r] = "check"
  /\ Goto(r, IF WrongScript(answer[r]) THEN "repair" ELSE "final")
  /\ UNCHANGED <<raw, lock, worker, put, got, ended, errors, answer, left>>

Consume(r) == Poll(r) \/ PollEnd(r) \/ PollTimeout(r) \/ CheckAlive(r) \/ Join(r) \/ CleanUp(r)
Handle(r) == Begin(r) \/ Acquire(r) \/ Generate(r) \/ Rewrite(r) \/ CheckScript(r) \/ Consume(r)
Work(r) == WorkerAcquires(r) \/ WorkerWrites(r) \/ WorkerEnds(r) \/ WorkerFails(r) \/ WorkerGivesUp(r)

GenNext == \E r \in Requests : Handle(r) \/ Work(r)

\* Threads run, and the model stops writing.
GenFairness == \A r \in Requests : WF_genVars(Handle(r)) /\ WF_genVars(Work(r))
GenSpec == GenInit /\ [][GenNext]_genVars /\ GenFairness

-----------------------------------------------------------------------------
(* Properties.                                                             *)

Places == {"absent", "begin", "acquire", "generate", "repair", "rewrite", "poll", "alive",
           "join", "clean", "check", "final", "error"}

\* Types of the requests, their workers and the lock.
GenTypeOK ==
  /\ at \in [Requests -> Places] /\ raw \in [Requests -> AllDrafts \cup {<<>>}]
  /\ lock \in Requests \cup {Free}
  /\ worker \in [Requests -> {"none", "waiting", "writing", "failing", "ended"}]
  /\ \A r \in Requests : got[r] <= put[r] /\ put[r] <= 2 * Len(raw[r])
  /\ ended \in [Requests -> BOOLEAN] /\ errors \in [Requests -> BOOLEAN]
  /\ left \in [Requests -> {"no", "end", "dead", "repeats"}]

\* The model serves one generation at a time, of whichever thread, and
\* whoever holds the lock is using it.
OneAtATime ==
  LET using == {<<r, "handler">> : r \in {x \in Requests : at[x] \in {"generate", "rewrite"}}}
               \cup {<<r, "worker">> : r \in {x \in Requests : worker[x] = "writing"}}
  IN  Cardinality(using) = IF lock = Free THEN 0 ELSE 1

\* An error of the worker is reported, whenever it comes between two polls,
\* unless the answer was complete for the consumer before.
ErrorsSurface ==
  \A r \in Streams : at[r] = "final" /\ errors[r] => left[r] = "repeats"

Whole(r) == left[r] # "dead" /\ ~WrongScript(Clean(raw[r]))

\* The stream gives the answer of /query to the same draft.
SameAnswer ==
  \A r \in Requests : at[r] = "final" /\ Whole(r) /\ left[r] # "repeats" =>
    answer[r] = Clean(raw[r])

\* If a refusal repeats it gives the beginning of it: whoever is cut off reads
\* nothing else.
CutIsPrefix ==
  \A r \in Streams : at[r] = "final" /\ Whole(r) /\ left[r] = "repeats" =>
    IsPrefix(answer[r], Clean(raw[r]))

\* No sentence of an answer resembles another.
NoTwoAlike ==
  \A r \in Requests : at[r] = "final" =>
    \A i, j \in DOMAIN answer[r] : i # j => ~Similar(answer[r][i], answer[r][j])

\* Sentence i resembles an earlier one; two in a row do, up to sentence i.
Repeats(text, i) == \E j \in 1 .. i - 1 : Similar(text[i], text[j])
LoopUpTo(text, i) == \E k \in 2 .. i : Repeats(text, k - 1) /\ Repeats(text, k)

\* "without touching legitimate output": a sentence that is not in the answer
\* resembles one that is, or follows a loop of two that do.
OnlyLoopsAreCut ==
  \A r \in Requests : at[r] = "final" /\ Whole(r) /\ left[r] # "repeats" =>
    LET text == ClipRefusalRepetition(raw[r])
    IN  \A i \in DOMAIN text :
          (\E s \in Range(answer[r]) : Similar(text[i], s)) \/ LoopUpTo(text, i - 1)

\* What is true of requests at any time: the lock is kept, errors are told,
\* and an answer is the draft without its loops and nothing but its loops.
AnswersAreWhole ==
  /\ GenTypeOK /\ OneAtATime /\ ErrorsSurface
  /\ SameAnswer /\ CutIsPrefix /\ NoTwoAlike /\ OnlyLoopsAreCut

\* Every request ends, whatever fails, and with a worker that nobody reads
\* from any more.
AllAnswered == <>(\A r \in Requests : at[r] \in {"absent", "final", "error"})
=============================================================================
