# A verification model of PreVillage / SpeakGov

TLA+ modules, TLC configurations and TLAPS proofs about the code in this
repository. The product answers questions about government services in Nepal.
It has five programs that keep state:

- a crawler daemon in Rust (`src/crawler_v2/`, command line in
  `src/bin/crawl.rs`) that polls government sites, keeps every version of
  every document in SQLite, judges the health of each source and has broken
  recipes repaired by an agent;
- a FastAPI server (`server/`) that turns a question into a case, retrieves
  pages and interview claims, answers by rule or by a local model, takes
  interviews from citizens and writes to offices;
- a WhatsApp bridge (`whatsapp/`);
- scripts that crawl, ask a teacher model, collect reviews and build training
  sets (`scripts/`);
- user interfaces, which only talk to the server.

Every definition is translated from the source. `PROJECT.json` maps each one
to the lines it stands for, lists the hazards with the properties that look
at them, and names a plausible mistake (a mutant) for every property of every
passing run.

## 1. Inventory

### Modelled

| Part | State | Operations | Hard behaviour | What makes it correct | Module |
|---|---|---|---|---|---|
| Document store (`store.rs`) | table `documents` | `upsert_document`, one deferred transaction | several connections: snapshot, lock upgrade, constraint errors, rollback | one live row per url; chains that never merge; history is never rewritten | `DocStore`, `VersionHistory` |
| PID lock (`daemon.rs`) | `daemon.pid`, the process table | `acquire_pid_lock`, `PidLock::drop` | read, `kill -0`, truncate, write are separate; crashes; recycled PIDs | one daemon per state directory; nobody takes the lock from its owner | `PidLock` |
| Daemon loop (`daemon.rs`) | stop flag, tick index, the interval | `run_until`, `spawn_signal_watcher` | a signal at any moment; missed ticks in a burst | stops soon after a signal; `MaxTicks(n)` means n | `DaemonLoop` |
| Throttle (`throttle.rs`) | per domain: semaphore, `last_fetched` | `DomainThrottle::wait` around a fetch | tasks interleave between reading and writing the stamp | polite interval, one permit, no starvation | `Throttle` |
| Crawl cycle (`worker.rs`, `frontier.rs`) | heap, seen set, counters, failure streak, stop reason | budget gates, pop, fetch, classify, upsert, enqueue links | sites that link in circles, fail, or answer with shells; limits that interact | no url twice, budgets kept, a cycle ends, its report is true | `Crawl` |
| Source lifecycle (`store.rs`, `pool.rs`, `worker.rs`, `daemon.rs`) | a row of `sources`, `poll_cycles` | a poll and the statements after it, the health pass, `crawl poll` | crash between statements; CLI and daemon on one row; verdict on a stale row | an active source is polled for ever, a blocked one retired, a shell stays a shell, two records of failure agree | `SourceLifecycle`, `HealthVerdict` |
| Repair queue (`repair.rs`, `store.rs`, `daemon.rs`) | table `repair_queue`, published repairs | `react_to_verdict`, `dispatch_one`, `drain_repairs`, `crawl repair` | two processes on one queue with unconditional updates; crashes | one repair per source at a time, published once; rows move forward; everything queued is tried | `RepairQueue` |
| Case navigator (`navigator.py`) | none: a function of the history | `resolve_case`, `planner_*`, `filter_*_for_frame` | slots filled over several turns, overlapping word tables | what was said is not asked again; nothing of another place is shown | `Navigator` |
| Answers (`main.py`) | none | the rule answers, the gate, citation repair | order of seventeen rules, citation numbers after filtering | a citation leads to what it quotes | `Answers` |
| Conversation (`main.py`) | the turns of a chat | `/query`, `/query/stream` | two copies of one procedure, a window of six entries | both agree, the case is followed, questions end | `Conversation` |
| Retrieval, full-text index (`main.py`) | table `chunks_fts`, a search in two reads | search, `_ensure_fts`, `reindex`, the crawler | rebuilds that overlap, a crash inside one, pages that come and go | what is there is found, once, the authority's first | `Search`, `SearchIndex` |
| Answer generation (`main.py`, `Composer`) | generation lock, worker thread, queue of chunks | `generate`, `generate_stream` | a worker nobody reads from, errors that race with the poll | one generation at a time; the same answer on both endpoints; errors are told | `Generation` |
| Interview submissions (`main.py`) | directories, metadata, claims file, rate limit, what is served | submit, approve, reject, reload, transcribe | check-then-act in a thread pool; a transcription that holds the event loop; crashes | what is served was approved, decisions are final, the limit holds but for overlaps | `Submissions` |
| Outreach records (`main.py`) | files of drafts, senders | draft, send, retry | delivery without an answer, two senders, a crash inside a write | an office is asked once; a draft is never lost; the right officer | `Outreach` |
| Row jobs (12 scripts) | an output file of rows | resume, pool of calls, append, kill | torn last lines, resume policies that differ | one row per item, complete when it says so, rows stay | `BatchJobs` |
| Quota generators (5 scripts) | buckets, outstanding calls | requeue, dedupe, cap, write | rounding, raised calls, repeated questions | targets, no question twice, short only for a reason | `QuotaJobs` |
| Review of drafts (`review_web.py`, `review_eval.py`) | the gold file, a server's memory | post, lock, write, resume | threads, two programs on one file, kills | what was acknowledged is on disk; memory is the file | `Review` |
| Site crawl (`crawl_sources.py`) | manifests, two queues | crawl, kill, resume | depth and budget across runs, documents that are pages | no url twice, budgets, complete when drained | `SiteCrawl` |
| Batch poll (`run_crawl_batch.py`) | log, full-text table | poll, index, sync, resume | timeouts, superseded documents, kills inside a line, children that outlive the script | log and table agree with what was done | `CrawlBatch` |
| Contracts, control rows | judged contracts | validators, row builders | citations renumbered, mapped, added | a row cites what its prompt lists | `Contracts`, `Teaching` |
| Training set builders (4 scripts) | train, val and control files | build from each other's files, kill | a mixed pair of files, a torn input | what v6.4 and v6.3 hold out is not trained on; nothing from a torn file | `Datasets` |
| Compositions (`format_sft_v4`, the v5 mix, the dev guard) | slices and splits | cap, fallback, target, split | rounding that the next step undoes, records that say the same | shares, targets, no record in both files | `Composition` |

### Not modelled

| Part | Why |
|---|---|
| Recipes and recipe loading (`recipe.rs`) | defaults and clamping without state; the budgets are constants of `Crawl` |
| Chunk index (`chunk.rs`) | one process's loop; its result is an input of `SearchIndex` and `CrawlBatch` |
| Registry and legacy import | one-statement upserts by one process |
| Url canonicalisation, parsing, shell detection, language, text extraction, blobs | string and byte processing; enters `Crawl` as the classification of a response |
| WhatsApp bridge (`whatsapp/src/server.mjs`) | `Outreach` has it as an external party. Its own hazard, two sockets whose handlers write the same globals (`server.mjs:731`), is listed without a property |
| Legacy Rust corpus pipeline; evaluation and training scripts | sequential programs on files: numbers and text |
| Frontend, Android app, data | no shared state of their own |

Within modelled parts: prompts, wording, tokenising, language detection and the
text of answers; the registry's overlay of tier and interval; the bound on
concurrent workers; the page script of the reviewer; three of the dev guard's
slices.

### Interactions

```
crawl daemon: PidLock -> DaemonLoop -> tick:
    Pool::poll_all_due -> Worker::poll (Throttle -> fetch -> DocStore) -> sources, poll_cycles
    run_health_pass    -> decide_verdict -> react_to_verdict -> sources.status | repair_queue
    drain_repairs      -> dispatch_one -> agent -> recipe file or branch -> repair_queue
crawl poll, crawl repair: the same workers and dispatcher in a second process, with no lock
server: question -> Navigator -> Search (chunks_fts, claims) -> Answers -> Generation
        interview -> Submissions -> claims file -> Search;  no answer -> Outreach -> bridge
scripts: SiteCrawl, CrawlBatch -> corpus;  BatchJobs, QuotaJobs -> rows
         Contracts -> Datasets, Composition -> training sets;  Review -> gold file
```

Processes share the SQLite file (WAL, one connection per worker or pass), the
PID file and the git work tree; tasks of the daemon share the throttle and the
stop flag; requests of the server share the model's lock, the claims that are
served, the rate limit and directories of files.

## 2. Modules

### The crawler

**`VersionHistory`, `DocStore`** (`store.rs` 86-108, 499-548). One transaction
record per connection. `BeginUpsert` is the SELECT, which fixes the snapshot;
the write, the constraint checks and COMMIT are one step, because SQLite holds
the write lock from the first write on, and a transaction whose snapshot is no
longer the newest may only roll back. `CommitUnchanged`, `CommitSuperseded`
and `CommitInserted` are the outcomes, `ConstraintError` a taken primary key
or the unique index on live rows, `AbortUpsert` any other error, `OtherCommit`
a commit to another table. `VersionHistory` is what readers are promised
(header of `store.rs`): per url, a set of contents shown and one current.

**`PidLock`** (`daemon.rs` 130-192). A process is a PID with a program counter
over the system calls of `acquire_pid_lock` and `drop`. The environment kills
processes, gives a dead daemon's PID to other programs and starts daemons in
parallel. `overlapped` is a history variable: two starts have been in progress
at once.

**`DaemonLoop`** (`daemon.rs` 188-250). Time is kept relative to the next
deadline (`late`), so a long tick makes later deadlines fire at once, as
tokio's default `Burst` does. Loading the flag and starting the tick are two
steps, with the watcher on another thread in between.

**`Throttle`** (`throttle.rs` 19-108). A fair semaphore; sleep computed, slept,
stamped, fetched, released. `since` and `remaining` are relative clocks, cut
where larger values behave the same.

**`Crawl`** (`worker.rs` 119-331, `frontier.rs`, `url.rs` 359-372). One cycle
of one source: the loop's head (`Gate`), `Pop` and one action per kind of
response. The site, its links and scores are constants, the responses free.
`pages` is a history variable, the pages whose links were looked at.

**`HealthVerdict`, `SourceLifecycle`** (`health.rs` 133-217, `worker.rs`
333-366, `pool.rs`, `daemon.rs` 328-425, `store.rs` 317-1060). A poll cycle is
reduced to what `decide_verdict` distinguishes. The rules are a list of which
the first that applies decides, as in the code. One row of `sources`: the
daemon's tick polls it if it is due, reads it for the health pass, evaluates
and reacts, while `crawl poll` processes poll it at any time, also two at
once. The statements after a cycle are steps of their own, with errors and
crashes between them. `overlap` is a history variable: two polls, or a CLI
poll and a tick, at the same time.

**`RepairQueue`** (`repair.rs`, `store.rs` 740-850, `daemon.rs` 388-412,
`bin/crawl.rs`). The daemon's tick (verdicts free: `failing`) and the
dispatching processes, one step per statement: select, mark, agent, gate,
artefact, finalize. `shared` is a history variable: the rows two processes
have worked on. `health_every_n_ticks` is its default, 1.

### The server

**`Navigator`** (`navigator.py`). A text is the set of the words in it that
some table looks for; "the first entry of the table that the text has" is
`First` over the table's order. Slots, planner decision, follow-up questions,
the filters on pages and claims, the retrieval query.

**`Answers`** (`main.py`). Topics, local domains, the seventeen rules in their
order, the gate, citation repair, listed sources. **`Conversation`**: a turn is
one step that goes through all of it, for `/query` and `/query/stream` side by
side; what the search finds and the model writes is any member of a set. A
citizen is free, or cooperative (answers what was asked, all of it or one
thing at a time). The client sends no turn for a reply that failed
(`Chat.tsx` 341-353), so a history may end in a citizen's turn: `unreplied`
remembers that the last reply was such a one, and `HistoryWithoutCurrentTurn` drops a
last turn only if it is a citizen's and says what is said now. What the language
guard and its repair ask of a draft is a citation by source number
(`CitesBySourceId`); a url does not count.

**`Search`, `SearchIndex`** (`Retriever`, `TacitRetriever`). Which rows each
pass takes, their scores in twentieths, the stable sort (`Inserted`), what moves to
the front. The boosts of the topics are those of the code, with the places they
name (`LicenseBoost` for Pokhara, the embassy in Qatar in `PassportBoost`, officials in
`ContactBoost` without a role), and so are the orders of the statements
(`ContactKey`, `FallbackKey`, `ComplaintKey`). The table `chunks_fts` is built by statements that each commit by
themselves, while the crawler publishes and supersedes and searches read in two
steps. `spoilt` is a history variable: two builders worked at once, or one was
killed in its insert.

**`Generation`** (`Composer`). A request has a handler thread and, on the
streaming endpoint, a worker; the consumer polls with a timeout, looks at
`is_alive`, joins, cleans up. A text is a sequence of sentences, each handed
over in two chunks.

**`Submissions`**. Coroutines run on the event loop, the administrators' requests
on a thread pool, statement by statement. `torn`, `overlap`, `peak` and
`approvedOk` are history variables: directories that a failure or a second
decision has touched, reloads that overlapped, uploads at a time, approvals
that returned.

**`Outreach`** extends `Search`: the contact of a draft is looked for with a
query of its own; what the pages name are records of a number, a role and the host
(`Candidates`), of which the best is chosen (`BestContact`), and the least number
where several are as good. Records move between three directories; writing one
truncates it first. `shared` and `doubt` are history variables: two senders at
once, a delivery nobody knows of.

### The scripts

**`Picking`**: the loop that reads a list and keeps some of it, which several scripts,
the search and the server's text cleaning have (`Picked`), and lists one after the
other (`Concat`). **`BatchJobs`**: one machine with a policy per script (batch size, pool, what a
resumed run reads, what a bad line or a raised worker does). **`QuotaJobs`**:
plans with their rounding, calls, the final shuffle, dedupe and cap.
**`Review`**: rows reach the file in two pieces, under a lock per server.
**`SiteCrawl`**, **`CrawlBatch`**: runs, kills inside a write, resume; `CorpusCrawls`
has the two side by side. A line of the batch's log is whole, torn, split in a
character, or whole with another one glued to it: a kill may leave the last line
without its newline (`openLine`), the next run counts it if it is whole, and that
run's own first line makes it unreadable for the runs after. A line
that is no text stops a resumed run. A child has a session of its own
(`run_crawl_batch.py:178`) and goes on when the script is killed (`children`); `late`
and `unresumed` are history variables: what such a child made after the last sync,
and that a run was started again without `--resume`.

**`Contracts`**, **`Teaching`**: validators and row builders over sentences
reduced to their citations, with facts, contacts, and the four refusal patterns that
are taken off one after the other (`StripRefusalTail`; a pattern is taken to match a
whole sentence).
**`Datasets`**: four builders that read each other's files. A row is the
conversation it makes (`Messages`: system prompt, what the user's message says about
the contract besides question, sources and draft, and the answer) and the record it is made
of (`copy`), since v6 and v6.2 split lists in which two records may make the same
conversation; v6.3 and v6.4 dedupe by the messages (`DedupeRows`).
**`Composition`**: caps, fallbacks, targets, splits. A record has an id, its line in
the file, besides what it asks, since nothing dedupes the files of the mix. The refusal
cap is a float in the code: where the quotient is even it may come out as it is or
one less (`MaxRefused`; 0.35 and 13 answered give 6).

### Instances

The modules `MC*` give constants their values. `Daemon` (which `MCDaemon`
instantiates), `MCAnswers`, `MCServer`, `MCJobs` and `MCCorpus` put parts that
share no state side by side:
a behaviour belongs to one `part`, the others rest, so that states add instead
of multiplying. Parts that do share state are composed in one module:
`SourceLifecycle` with `HealthVerdict`, `Conversation` with `Answers` and
`Navigator`, `SearchIndex` and `Outreach` with `Search`.

Mutants are operators just before the definition they would replace. Where a
run's property is a conjunction (`AnswersAreWhole`, `MixesAreSound`, ...), it
groups what is said of one component; its parts have names and comments, and
one of them is broken by the mutant `PROJECT.json` lists.

## 3. Runs

| Run | Bounds | Shows |
|---|---|---|
| `doc_store` | 2 connections, 2 urls, 3 contents | one live row per url, chains without cycle or merge, no stale decision, immutable history, refinement of `VersionHistory` |
| `source_lifecycle` | daemon and one CLI, intervals 1 and 3, window 2, thresholds 2/3/3, one fault | the two records of failure agree, a shell's status stays, a blocked source is retired, an active one polled again |
| `repair_queue` | daemon and CLI, 2 rows, 2 sources, cap 1, one fault | no double queueing, one publication, forward flow for rows not shared, everything is tried and finished unless a fault |
| `daemon` | lock: 3 PIDs; loop: interval 3, up to 3 deadlines late, 3 ticks; throttle: 3 tasks, 2 domains, interval and jitter 2; crawl: 7 urls, 5 pages, 6 fetches, 2 failures, depths 4 and 3 | exclusion of serial starts, the owner keeps the lock, stops in time, polite gaps, every waiter fetches, no url twice, budgets, true reports, the cycle ends |
| `answers` | 21 first messages, 5 follow-ups, 4 needs, 3 user turns, 37 results of retrieval, 4 drafts; 22 chunks, 5 claims, 16 questions, 2 reindexing threads, 1 crash | answers are grounded, the case is followed, the right pages are found, questions end |
| `server` | 2 streams and a query, 2 asking at a time, drafts of up to 5 sentences; 2 uploads of an address, 2 administrators, 1 crash; 3 drafts, 2 senders, 3 sends, 1 death | answers are whole, interviews are kept, an office is asked once, requests end and decisions are final |
| `jobs` | 10 jobs, 3 items, 3 starts, 1 kill; 6 plans with `--n` 2, 3, 5; 2 drafts, 1 server with 2 threads, 3 reviews, 1 kill | rows, buckets and reviews are sound; scripts end; rows stay |
| `corpus` | 9 urls, 3 runs, 1 kill; 3 sources, 2 documents; every small contract; 3 builds; slices of up to 7 records, some of which say the same | crawls, lessons, mixes and sets are sound |
| `doc_store_flip` (violated) | 1 url | A, B, A: the third upsert fails |
| `source_stable` (violated) | daemon alone | an unchanged site is judged structurally failed |
| `slot_by_slot` (violated) | answers one at a time | the authority's page was found and the answer is refused |
| `resume_after_crash` (violated) | one job, 1 kill | after a kill within a character no later run starts |

Why these bounds are enough to be interesting:

- `doc_store`: two connections suffice for every conflict of snapshots, three
  contents for a chain with a middle and a return to an earlier content; two
  urls for commits that make another url's snapshot stale.
- `daemon`: an owner, a starter, and a third PID that starts too or is
  recycled; a queue of two behind a permit's holder; a loop that misses up to
  three deadlines. The site has a short plain path and a longer one of better
  scores to one page, links home, a link to itself and documents. Of its
  seven urls a cycle may fetch six, and five with a page: either cap can be the
  one that ends a cycle, and every stop reason occurs. The depth limits bite: the page
  found first by the long path has links that are cut.
- `source_lifecycle`: `MIN_CYCLES`, streak and ceiling are scaled down in the
  order they have. Interval 1 fills the window of 2 for every verdict;
  interval 3 never has two cycles in it, as the 84 hours of tier 4 against
  `MIN_CYCLES_FOR_VERDICT` = 3 in seven days.
- `repair_queue`: two rows and a cap of one make rows wait for a later tick;
  one fault at any step.
- `answers`: a message for every rule and every kind of follow-up; pages of the
  right, a wrong and no place; claims whose numbers change when an earlier one
  is filtered out; an index that loses, gains and doubles chunks.
- `server`: drafts with loops, refusals that repeat, a wrong script; two
  administrators on one interview with one crash; an address whose limit is 1;
  a draft that is delivered without an answer and sent again.
- `jobs`: two units of two items and one of one; a kill in each place of a
  write, followed by two more starts.
- `corpus`: a document url that answers with a page, a page that is a
  document, links off the site; a kill in each place of a write, in each of
  three runs.

Bounds are constants named `Max*`, `*Limit`, `*Kills`, `*Starts`, `*Runs` or
`*Deaths`. Deadlock is checked in `doc_store`, `source_lifecycle`,
`repair_queue` and `daemon`; in the others the system really rests (a
conversation is over, a script has ended, nobody asks).

### Fairness

Weak fairness of: a worker that has something to do (tokio runs every ready
task, Python every thread); time; a fetch, an agent's call and a model's
generation, which have timeouts or bounds; the daemon's tick loop; the pool of
a script; a review server's threads. Strong fairness of one thing: a coroutine
of an upload, which a transcription blocks again and again but which the event
loop runs in turn. A cooperative citizen goes on while questions are asked.
Never assumed: that somebody runs the CLI, that a site or a teacher answers
well, that a signal or a crash comes, that an administrator decides. Faults
are bounded in number, so liveness is claimed for a system that is eventually
left alone. In `SourceLifecycle` the clock stands still during polls and health
passes: they are short against a tick interval, and a long tick is the subject
of `DaemonLoop`.

## 4. Proofs

The modules `*Proofs` hold theorems that TLAPS checks for every value of the
constants; the runs show the same properties on small instances.

| Theorem | States | For every |
|---|---|---|
| `OneLive`, `SupersedeChains`, `DecisionsCurrent`, `TypeCorrect` (`DocStoreProofs`) | `[]OneLiveVersion`, `[]SupersedeDag`, `[]DecisionIsCurrent`, types | number of connections, urls, contents, stamps |
| `HistoryIsImmutable` | `HistoryImmutable` (action property) | the same |
| `Refinement` | `DocStore` implements `VersionHistory` | the same |
| `MutualExclusion`, `SettledOwner`, `LockTypeCorrect` (`DaemonProofs`) | `[]SerialStartsExclude`, `SettledOwnerIsSafe` (action property), types | set of PIDs, crashes, recycling |
| `LoopStopsInTime` | `[]StopsInTime` | interval, lateness, number of ticks |
| `OnePermitPerDomain`, `PoliteInterval`, `ThrottleTypeCorrect` | `[]OnePermit`, `PoliteGap` (action property), types | tasks, domains, interval, jitter |
| `NoUrlTwice`, `Budget`, `ReportsAreTrue`, `CrawlTypeCorrect` | `[]EachUrlOnce`, `[]WithinBudget`, `[]ReportIsTrue`, types | site, links, scores, finite set of urls, budgets |
| `ShellIsKept` (`SourceLifecycleProofs`) | `ShellSticks` (action property) | interval, window, thresholds, CLI processes, faults |
| `RecordsAgree` | `[]RowIsSound` | the same |
| `DaemonTypeCorrect` (`DaemonProofs`) | `[]DaemonTypeOK` | the composition of the four parts that the run `daemon` checks |
| `DaemonIsSafe` | the eight safety properties above, of the composition | the same |
| `RepairOnce`, `RowsFlow` (`DaemonProofs`) | `[]OneRepairEach`, `StatusFlowUnshared` (action property) | rows, sources, dispatching processes, caps, faults |
| `InterviewsKept`, `DecisionsAreFinal` (`ServerProofs`) | `[]InterviewsAreKept`, decisions stay | uploads, addresses, administrators, limits, crashes |
| `AnswersWhole` (`GenerationProofs`) | `[]AnswersAreWhole` | requests, drafts of any length, similarity of sentences |
| `AnswersGrounded` (`GenerationProofs`) | `[]AnswersAreGrounded` | messages, needs, results of the searches, drafts, window |
| `CaseFollowed` | `[]CaseIsFollowed` | the same; the vocabulary of the tables is fixed |
| `OfficeAskedOnce` (`ServerProofs`) | `[]OfficeIsAskedOnce` | questions, pages, `top_k_gov`, senders, deaths |
| `RecordsAreSentOnce` | its parts on delivery (`DeliveredOnce`, `ReadableCopy`) | the same |
| `IndexSound` | `[](IndexTypeOK /\ ReindexCovers /\ OnePagePerUrl)`, parts of `RightPagesFound` | rows, questions, `top_k`, builders, kills |
| `RowsSound`, `RowsStayOnDisk` (`JobsProofs`) | `[]RowsAreSound`, `RowsStay` (action property) | every script's policy, items, starts, kills |
| `ReviewsSound` | `[]ReviewsAreSound` | drafts, servers, threads, starts, kills |
| `BucketsSound` | `[]BucketsAreSound` | `--n`, shares, languages, topics, replies, the order of calls |
| `ManifestsSound`, `BatchesSound`, `CrawlsSound` (`CorpusProofs`) | `[]ManifestsAreSound`, `[]BatchesAreSound`, both together `[]CrawlsAreSound` | site, links, answers, budgets and depths; registry, options, subprocess results, children that outlive a run; runs, kills inside any line |
| `LessonsSound` | `[]LessonsAreSound` | teachings: contracts with facts and contacts, seeds, corruptions |
| `MixesSound` | `[]MixesAreSound` | files (records that say the same included), caps and their rounding, targets, shares, categories |
| `SetsSound` | `SetsAreSound` | teachings, gold rows, splits, order of builds, kills |

**Assumptions.** Only those the modules name (`*Assumption`): that special
values such as `NoDoc`, `Absent`, `"free"` and `"half"` are not among the values
they are told apart from, that bounds and thresholds are naturals (positive
where a zero would switch the program off), that documents and links are among
the urls, that sets of urls, rows or addresses are finite where the code counts
them. About data they say what the code that makes it guarantees: a search returns
lists, numbers its claims and gives no page twice (`RetrievalsAssumption`); a
completion has the fields of one (`CompletionsAssumption`); a cooperative citizen
needs one service at most (`NeedsAssumption`); a script's languages and
topics are lists without repetition, one to three languages (`GeneratorsAssumption`);
a chunk is told by its id and its page gives a number once (`PagesAssumption`); a
question has words (`AskedAssumption`); files and teachings have the shapes their
writers give them (`CompositionAssumption`, `TeachingAssumption`,
`DatasetsAssumption`). TLC evaluates each of them on the runs.

**Arguments.**

- `DocStore`: the invariant `IInv`. That a url has one live row is not inductive:
  a commit supersedes the row its transaction has read, so one needs that this
  row is still the live one (`DecisionIsCurrent`), which holds because a
  transaction becomes stale at each commit of another. Chains do not merge
  because successors have larger rowids than what they supersede, and rowids
  are handed out in order.
- `PidLock`: `SerialInv` says which program counters may coexist with which
  contents of the file. Truncation and write are two steps, so it speaks of the
  empty file as well. The action property needs no invariant about serial
  starts: only a process that has found the owner dead writes the file.
- `DaemonLoop`: `LoopInv` relates the ticks counted after the flag with where
  the loop is: a tick that has loaded the flag before it went up may still begin.
- `Throttle`: a task's remaining sleep covers the rest of the interval since the
  last stamp (`SleepSuffices`); it is inductive because no other task of the
  domain has a permit (`HasPermit`).
- `Crawl`: seen urls are in the heap, popped or visited, and only once; counters
  count visited urls (`StoredOK`), limits are tested before each pop. A depth
  was set when a visited page linked the url (`DiscoveryInv`): `push` is the only
  place that sets it. The finite set of urls is needed to count.
- `SourceLifecycle`: `RowInv`. `consecutive_failures` is written after the cycle it
  counts, by another statement, and cycles are pruned by age. `InOrder` says that
  the list of cycles is sorted by age, `OnePoll` where a single poll's two
  statements are, `Counted` that the failed cycles since the last success are
  as many as counted (as far as the window goes back). The lemmas `RunIsUnique`,
  `AttemptAgrees` and `OlderAgrees` say what appending a cycle and dropping old
  ones do to that run. `ShellSticks` needs `ShellInv`: a verdict is formed on
  a row that the overlap-free tick has read after the shell was stored.
- `RepairQueue`: `RepairInv` is `OneRepairEach` with `FreeAreLast` (rows are
  used in order, so the next id is free), `OneCheck` (between the check for a
  pending row and the INSERT nobody else adds one: the daemon has one health
  pass at a time and dispatches after it) and `Claims` (who works on which
  row, in which status, unless the row is shared; what was published by then).
- `Submissions`: `SubInv` has a part per promise: `WithinLimit` counts uploads
  that have passed the check and are not recorded yet; `Decisions` ties a
  submission to the one administrator who is deciding it, unless it is torn;
  `ClaimsApproved` says whose claims may be written or served, `ScansAreFresh`
  what a reload has read so far.
- `Generation`: `GenInv`. `LockIsKept` identifies who uses the model with whoever
  holds the lock, `WorkerTells` and `ConsumerKnows` relate the queue's end, the
  errors and the consumer's way out, `AnswerIsDraft` says that what the consumer
  has read is the beginning of the draft.
- The texts of `Generation`. `Picked` and `ReadThrough` are recursive functions
  over a draft of any length. Their unfolding (`PickedSteps`, `ReadingSteps`) and
  every fact about them (those about `Picked` alone are in `PickingProofs`, which the
  jobs share) is proved by a smallest counterexample: a property of
  naturals that fails somewhere fails at a least place (`Least`), which the
  well-foundedness of `<` on the naturals gives without an operator parameter.
  From these: cleaning the beginning of a draft gives the beginning of what
  cleaning the draft gives (`CleanPrefix`), nothing that is kept resembles another
  (`CleanApart`), what has no two alike is not changed (`CleanNothing`, so cleaning
  twice is cleaning once), and what is cut resembles what is kept or follows a
  loop (`CleanCuts`). `AnswerIsClean` carries them along a request: a stream
  that is left at a refusal said twice has read up to it and not further
  (`RepeatsAtTheEnd`).
- `Outreach`: `OutreachInv`: a record being sent has one owner or is shared
  (`OneOwner`), a file that is truncated has another copy or a doubtful
  delivery (`FilesKept`), and what a record says is what was drafted (`Made`).
  Who is asked follows from the drafting alone. The words of the contact query have
  none of those that make a topic of complaints or of intake, and name exactly the
  district and municipality of the case; so the frame it is resolved to is one of
  contacts, with the hosts that the first frame allows, and the filter lets no other
  office through. `BestContact` is a `CHOOSE`: a best one exists because scores
  are bounded and a nonempty set of numbers has a least (`Least`), and a higher
  role wins because four times the role outweighs what kind of page and name add.
- `Search`: every list the statements build has scored rows of the table only
  (each statement picks, orders or cuts; `Picked`, `Concat`, `Inserted` and `Upto` keep
  to the rows they get), the last pass lets a url through once, and the cut is
  at `topK`.
- `SearchIndex`: `IndexInv`. Until `spoilt`, one builder at most is past the check;
  a reindexer's table is absent and without copies until its insert, which writes
  each stored row once; the builder at start-up works alone and has promised
  nothing. What the search holds between its two reads are ids of the table.
- `Conversation`: `ConvInv`, mostly about the turn that was served last. Each of the
  seventeen rules cites only positions of pages or claims that it quotes; citation
  repair and the listing of sources then lead there, by the numbers of
  `RetrievalsAssumption`, unless a claim was dropped or a url shared (the two
  exceptions the property names). Both orders agree although one asks the early
  questions first and the other computes every answer. The filters keep lists in
  order and let through only hosts the frame allows, and a frame's places are those
  of the turns spoken. What was said is not asked: per slot, the detection that the
  planner uses is the one the property looks at.
- The case of a citizen who answers (`CaseFollowed`) takes a second invariant,
  `CaseInvs`, over all turns: each was told with words of the need (`FromNeed`),
  and what a reply asks is what the words spoken so far leave open (`Misses`, `Open`),
  however the last turn was read: as a new case, as the answer to a question, or
  as a detail of the case before (`FrameOfCase`). From this, who is refused has
  nothing open, so the place is known; with the service among the last two messages
  the topic is known too, and a page of the topic's authority passes the gate
  (`CasePasses`). `AtOnce` says that who answers all that is asked has said all of
  the need after the first answer: a second question can only be about a case
  type the need has no word for, so the last message is empty exactly
  then. The tables are finite and the words are literals; which entries they
  match (`ServiceEntries`, `TopicEntries`) is proved by going through them, and scores
  by their sums over these entries (`WordScore`).
- `BatchJobs`: `RowsInv`. That no item gets a second row needs that no item of a
  unit (waiting, in a worker, or a result main has not seen) has a row yet
  (`RowsOnce`), and this that no item is in two units and no unit in two places
  (`UnitsApart`, `UnitsOnce`). That an ended run left none out needs that every
  item without a row is in a unit, counted or glued (`RowsDue`). The lemmas say
  what each piece of the scripts does for files, batches and replies of any
  length: the batching cuts what is left into calls that are disjoint and leave
  nothing out (`BatchesCut`, by the arithmetic of `Cuts`), a reply gives a kind of
  row per item or raises, for each script (`ResultKinds`), the lines of a
  result are one per item that has a row (`LinesWritten`), an append to a cut file
  loses two lines to one that does not parse and nothing else (`AppendRows`),
  a kill within a flush leaves a beginning (`CutShort`).
- `Review`: the file of reviews is as the appends made it: whole rows, each once,
  and at most a piece of a row at its end, while no two programs have used it and
  none was killed (`mixed`). Who appends holds the lock, so what a server
  remembers is what it read at its start and what it has written since; that the
  latest row of a draft is unique is shown of a position, not of `CHOOSE`. The
  terminal asks about drafts that had no row when it started, each once: this
  is where the ids of the drafts have to differ (`ReviewAssumption`), and where the
  facts about `Picked` are needed.
- `QuotaJobs`: `QuotaInv`. A bucket without calls waiting or under way is full or
  has lost a call that raised; what a bucket has are questions that passed
  validation and were not used before; a plan's buckets are distinct. The targets
  add up because the remainder that rounding leaves is given out one each
  (`TakenSoFar` goes through the buckets in the order of the final loop).
- `SiteCrawl`: `SiteInv`. The first crawl of a source is breadth first by levels
  (`Level`): the pages in the queue are of one depth, then of the next, the
  documents of the next, and what is recorded is no deeper. A link of a fetched
  page is met, too deep, or queued (`LinksWait`); so the next item is no deeper than
  what any recorded page would give it, and empty queues mean that nothing is
  missing. The attempt to prove `ShortestDepth` of every manifest failed for a
  reason: a kill that tears the homepage's line leaves a manifest without it, a
  later run goes through the homepage again, around the urls it finds recorded, and
  reaches others by longer ways (TLC shows it on the instance of `corpus`). The
  property is now stated of manifests that begin with the homepage
  (`BeginsAtHome`), and the invariant has to say that a later crawl never puts it
  there (`Later`).
- `CrawlBatch`: `BatchInv`. The list of sources is a `CHOOSE`; that an order exists
  is shown by removing the first source again and again (`FirstOf`, `Orders`), and
  that the list has every source once by counting (`EachSourceOnce`). Once a run has
  written its first line the log ends in a newline, so that a source that is through has
  its line; as long as runs resume what is left to do has none (`LogOK`). A line that is
  there and cannot be read any more (`GoneThrough`, but not `Finished`) keeps the promise
  that no source is left out apart from the one that none is said to be done twice.
- `Composition`: `CompInv` adds to the parts of the property which files the rows of a
  slice come from at each place of the script (a record is of one file, by its id),
  and that the cap has been applied to the slice that the fallback then fills. The rest is the arithmetic of the cap,
  the targets and the split (integer division, minima), for sets of any size.
- `Datasets`: `DataInv`. Train and val of one build are written one after the other
  (`StepOK`), from rows that were split before (`ReadyApart`: rows for v6 to v6.3,
  conversations for v6.4, which dedupes before it splits); what is ready and what is
  on disk is apart from what the base holds out (`FilesApart`) while every pair is of one
  build, because a builder that has read a torn base stops (`NotTorn`).
- `Contracts`, `Teaching`: no state; the citations of a row are those of the
  contract after renumbering, so they are in the list that is renumbered with
  them. The attempt to prove that every corrupted draft is repaired
  (`DraftsAreRepairable`) failed for a reason: a text that closes with two refusals
  loses both when it is repaired. The property is now stated of
  answers that keep no refusal at their end.
- `Daemon`: a behaviour of the composition is, for each part, a behaviour of the
  part's own specification: while another part moves, this one stutters. So the
  theorems of the parts carry over.

**Only model-checked.**

- All liveness: `EveryWaiterFetches`, `SignalStopsDaemon`, `BegunCycleEnds`,
  `BlockedIsRetired`, `PolledWhileActive`, `RepairsProgress`, `QuestionsEnd`,
  `RequestsComeToAnEnd`, `ScriptsEnd`; the prover does not handle fairness.
- Of `RightPagesFound`, `AuthorityPasses`, `LocalPageBelowAuthority`, `PhonePageFirst`
  and `LocalClaimKept`: that a page *is* found and where it stands depends on
  the scores of the other pages there are, so they are statements about the
  pages of the run, and not of every corpus.

## 5. Findings

Shown by a run:

1. `doc_store_flip`: a url that returns to an earlier content cannot be
   stored. The key of the new row is hash(source, url, content), and the old
   row still has it; the INSERT fails and ends the poll cycle (`store.rs:537`,
   `worker.rs:259`), at each later poll again.
2. `source_stable`: `health.rs:35-36` calls unchanged documents fine, but every
   cycle of an unchanged site counts as non-productive; five of them queue a
   repair (`health.rs:279-283`).
3. `slot_by_slot`: a citizen who answers follow-up questions one at a time
   loses the service from the text in which topic and gate look for it
   (`main.py:4208`), and the case ends in the no-source answer. A second round
   of questions does the same to who answers each round completely, when pages
   of low authority are found before the authority's; `RefusedOutOfSight`
   (run `answers`) says that a case whose page is found is refused in no other
   situation.
4. `resume_after_crash`: a kill inside a write may leave a line that ends within a
   character. `already_done` catches what is no JSON, but not what is no UTF-8
   (`classify_gov_questions.py:324`): the next run, and every one after it, dies of a
   UnicodeDecodeError before it asks for anything, although its comment calls the
   state resumable (`classify_gov_questions.py:400-401`).

Differences between text and code met while modelling, visible in a module but
without a run of their own.

Crawler:

- `daemon.rs:11-12` says a stale PID file is overwritten. A crash between
  truncation and write leaves an empty file, which every start refuses
  (`PidLock!ReadInvalid`); a recycled PID counts as alive; two overlapping
  starts both run (`daemon.rs:147`).
- `daemon.rs:14-15`: missed ticks are said not to pile up; tokio's default
  fires them in a burst. `daemon.rs:17-18`: between ticks a signal is only seen
  at the next deadline.
- `worker.rs:49` calls a drained frontier the full reachable set. `push` ignores
  a url already seen even if the new path is shorter, and the heap prefers high
  scores: a drained frontier means every link of a page within the limit *of
  the depth at which the page was first found* (`Crawl!DrainIsComplete`).
- `worker.rs:15-17` promises to stop on consecutive failures; an HTTP error
  status counts as a success there, so a site that answers 403 to everything is
  crawled to the total cap (`Crawl!HttpError`).
- `worker.rs:211-213` says a shell is polled through Chromium in later cycles;
  `list_sources_due` selects active sources only (`SourceLifecycle!Due`).
- The health pass writes a status from a list it read before: a `crawl poll`
  that finds a shell meanwhile is overruled (`SourceLifecycle!React`;
  `ShellSticks` excludes that overlap).
- `health.rs:50-51` expects three cycles per window for every tier. Tier 4 is
  polled every 84 hours (`types.rs:26`), which gives three only when polls are
  exactly on time; tiers 4 and 5 never reach the streak of five.
- `health.rs:69` says errors >= fetched pages, the code has `>`.
- `throttle.rs:4` promises one request in flight per domain; a redirect to
  another host is followed under the first host's permit (`fetch.rs:94`).
- `repair.rs:24-27`: the guard against double queueing looks at pending rows
  only; a rejected repair is queued again on the same evidence. The daemon and
  `crawl repair` may dispatch the same row, and an error or crash leaves a row
  dispatched for ever (`store.rs:802`, `repair.rs:290`).

Server:

- `applicant_age_or_minor_context` is asked of a passport applicant who has
  said "child" and is never cleared (`navigator.py` 849-864, 210-217).
- Claims keep the search's numbers when an earlier one is filtered out
  (`main.py` 5607); a url shared by a page and a claim is cited as the claim.
- A crash between CREATE VIRTUAL TABLE and its INSERT leaves an empty index
  that no later start rebuilds; overlapping rebuilds double rows or leave none.
- A worker that puts its last chunk and dies before `is_alive()` loses the chunk
  (`main.py` 3087); a repeating refusal ends a stream's reading while `/query`
  keeps what follows; an abandoned worker keeps the lock.
- Two concurrent approvals: the loser has overwritten the claims file before its
  rename fails; approve against reject may leave a rejected interview's claims
  to be served by the next reload. Overlapping reloads un-serve what was
  approved. A failed transcription approves the interview without claims.
- The rate limit is checked before and recorded after the uploads' awaits, and
  is lost at a restart.
- A bridge that delivers and does not answer is asked again and delivers twice;
  a failed record that is being rewritten when the process dies cannot be read
  again. A case without a place may go to an unrelated officer.

Scripts:

- Strict jobs cannot resume after a kill inside a write, and without
  `--resume` they start by deleting everything; recording jobs take a failed
  call for done for ever; an odd reply raises in the batch jobs and discards
  finished results.
- A generator's raised call is not queued again although `--n` promises targets;
  a service that is down is asked again without a pause.
- `crawl_sources.py:8-10` calls itself resumable: a homepage in the manifest is
  not expanded again, and failed urls are not retried; "queue_drained" is
  reported with pages left when the page budget is reached. After a kill within the
  homepage's line, a later run may record urls deeper than a way it has recorded
  (`SiteCrawl!BeginsAtHome`), and their links are cut off early.
- `run_crawl_batch.py` logs a failed poll as done; rows of superseded documents
  stay in the full-text table. Its docstring promises that completed sources are skipped
  (lines 5-7): a line left whole without its newline is counted by the next run and made
  unreadable by that run's first line, so the run after that goes through the source
  again; a line split in a character makes `--resume` raise; and the children of a killed
  run go on beside the next one's.
- The v5 mix validates on what it trains on where two records say the same:
  `build_v5_dialogue_seed500.py` repeats its templates (lines 211-217, 249-255,
  294-364) and dedupes by id only (375-381), and neither `format_sft_v5.py` nor
  `format_sft_v5_dialogue.py` dedupes before it splits
  (`Composition!MixKeepsHeldOut` says it of records). v6 and v6.2 do the same to
  contracts that make equal conversations. The same question over other sources
  passes as new in the fallback of v4, which compares whole prompts.
- `ensure_sentence_citations` adds `[S1]` where nothing is listed; `[7]` becomes
  `[S7]`. Rows made from one contract, and rows of one question under different
  system prompts, are split independently; replay rows may be in both files; v6.3 and
  v6.4 report a failed quality gate after their files are overwritten.

## 6. Plan

1. `BridgeSocket`, `BridgeInbox`: the socket's lifecycle with timers; dedupe,
   history and outreach around awaits.
2. Conditions on a corpus under which the remaining parts of `RightPagesFound` hold
   for it, so that they can be proved too.
