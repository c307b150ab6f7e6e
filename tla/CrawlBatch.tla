------------------------------ MODULE CrawlBatch ------------------------------
(***************************************************************************)
(* scripts/run_crawl_batch.py: polls and indexes one source of the         *)
(* registry after the other in subprocesses with a timeout, logs each      *)
(* source when it is through, brings the full-text table up to date every  *)
(* few sources and at the end, and with --resume leaves out the sources    *)
(* the log has.  The subprocesses are the crawler's, described by what     *)
(* they leave in the database: new documents of a source, some of which    *)
(* supersede others, and a chunk for each live document; one that is       *)
(* killed at its timeout leaves a part of it, and one whose script is      *)
(* killed goes on alone, since it has a session of its own.                *)
(***************************************************************************)
EXTENDS Naturals, Sequences, FiniteSets, SequencesExt, Picking

CONSTANTS
    Registry,       \* records [id, tier, order]: the live sources
    TierMax,
    SyncEvery,      \* --sync-fts-every
    SourceLimit,    \* --limit, 0 for none
    DocLimit,       \* documents per source in the instance
    BatchRuns, BatchKills

ASSUME RunAssumption ==
    /\ {TierMax, SyncEvery, SourceLimit, DocLimit, BatchRuns, BatchKills} \subseteq Nat

\* source_id is the key of its table; order is its place among the ids.
ASSUME RegistryAssumption ==
    /\ IsFiniteSet(Registry)
    /\ \A s \in Registry : s.tier \in Nat /\ s.order \in Nat
    /\ \A s, t \in Registry : s.id = t.id \/ s.order = t.order => s = t

RegistryIds == {s.id : s \in Registry}
BatchOptions == {"all", "no_docs", "unchunked"}

VARIABLES
    live,           \* the live documents of each source
    made,           \* documents made for each source so far
    chunked,        \* documents with a chunk, <<source, document>>
    fts,            \* rows of the full-text table for each chunk
    batchLog,       \* the lines of the log
    openLine,       \* the last of them has no newline
    batch,          \* the run: what is left, where it stands
    children,       \* subprocesses that outlived their script
    late,           \* chunks of theirs since the last sync
    unresumed,      \* a run was started again without --resume
    batchRuns, batchKills

crawlBatchVars == <<live, made, chunked, fts, batchLog, openLine, batch, children, late,
                    unresumed, batchRuns, batchKills>>

Documents == RegistryIds \X (1 .. DocLimit)
LiveDocs(id) == {<<id, d>> : d \in live[id]}
Unchunked(id) == LiveDocs(id) \ chunked

\* A line of the log and what a reader makes of it: a whole record, one that
\* another was glued to, a torn piece of one, a piece split in a character.
LogLine(phase, source, kind) == [phase |-> phase, source |-> source, kind |-> kind]
Overrun(line) == IF line.kind = "whole" THEN [line EXCEPT !.kind = "glued"] ELSE line
\* The log with another line, which runs into the last one where that is open.
WithLine(line) ==
    IF openLine THEN [batchLog EXCEPT ![Len(batchLog)] = Overrun(@)]
    ELSE Append(batchLog, line)

\* load_done() leaves out what does not parse, and dies of what is not text.
LoadDone(entries) ==
    {entries[k].source : k \in {j \in DOMAIN entries :
        entries[j].phase = "source_done" /\ entries[j].kind = "whole"}}
Undecodable(entries) == \E k \in DOMAIN entries : entries[k].kind = "split"

\* load_sources(): ORDER BY tier, documents, id.
Eligible(option) ==
    {s \in Registry : /\ s.tier <= TierMax
                      /\ option = "no_docs" => live[s.id] = {}
                      /\ option = "unchunked" => Unchunked(s.id) # {}}
Earlier(s, t) ==
    LET docs(u) == Cardinality(live[u.id])
    IN  \/ s.tier < t.tier
        \/ s.tier = t.tier /\ docs(s) < docs(t)
        \/ s.tier = t.tier /\ docs(s) = docs(t) /\ s.order < t.order
LoadSources(option) ==
    LET places == 1 .. Cardinality(Eligible(option))
    IN  CHOOSE list \in [places -> Eligible(option)] :
            \A j, k \in places : j < k => Earlier(list[j], list[k])
\* --resume leaves out what the log has.
NotDone(list) == Picked(list, {k \in DOMAIN list : list[k].id \notin LoadDone(batchLog)})
Cut(list) == IF SourceLimit > 0 /\ SourceLimit < Len(list) THEN SubSeq(list, 1, SourceLimit)
             ELSE list

NoBatch == [at |-> "off", todo |-> <<>>, processed |-> 0, wanted |-> {}]

\* append_log(): a line and its newline.
Logged(phase, source) ==
    /\ batchLog' = WithLine(LogLine(phase, source, "whole"))
    /\ openLine' = FALSE

RunInit ==
    /\ live = [id \in RegistryIds |-> {}]
    /\ made = [id \in RegistryIds |-> 0]
    /\ chunked = {}
    /\ fts = [c \in Documents |-> 0]
    /\ batchLog = <<>> /\ openLine = FALSE
    /\ batch = NoBatch
    /\ children = {} /\ late = {}
    /\ unresumed = FALSE
    /\ batchRuns = 0 /\ batchKills = 0

\* main() up to its first line for the log, which a resumed run does not
\* reach when load_done() raises.
Begin(resume, run) ==
    /\ batch.at \in {"off", "ended", "raised"} /\ batchRuns < BatchRuns
    /\ batchRuns' = batchRuns + 1
    /\ batch' = IF resume /\ Undecodable(batchLog) THEN [NoBatch EXCEPT !.at = "raised"] ELSE run
    /\ UNCHANGED <<live, made, chunked, fts, batchLog, openLine, children, late, batchKills>>

StartRun(option, resume) ==
    /\ LET listed == LoadSources(option)
       IN Begin(resume, [at |-> "start", todo |-> Cut(IF resume THEN NotDone(listed) ELSE listed),
                         processed |-> 0,
                         wanted |-> IF SourceLimit = 0 THEN {s.id : s \in Eligible(option)}
                                    ELSE {}])
    /\ unresumed' = (unresumed \/ (~resume /\ batchRuns > 0))

\* --dry-run prints the sources.
DryRun(resume) == Begin(resume, [NoBatch EXCEPT !.at = "dry"]) /\ UNCHANGED unresumed

LogStart ==
    /\ batch.at \in {"start", "dry"}
    /\ Logged("batch_start", "none")
    /\ batch' = IF batch.at = "dry" THEN NoBatch ELSE [batch EXCEPT !.at = "poll"]
    /\ UNCHANGED <<live, made, chunked, fts, children, late, unresumed, batchRuns, batchKills>>

\* ./crawl poll, whether it ends, fails or is stopped at its timeout.
Polled(id) ==
    LET new == made[id] + 1
    IN \/ UNCHANGED <<live, made>>
       \/ /\ new <= DocLimit
          /\ made' = [made EXCEPT ![id] = new]
          /\ live' \in {[live EXCEPT ![id] = @ \cup {new}], [live EXCEPT ![id] = {new}]}

PollSource ==
    /\ batch.at = "poll" /\ batch.todo # <<>>
    /\ Polled(Head(batch.todo).id)
    /\ batch' = [batch EXCEPT !.at = "index"]
    /\ UNCHANGED <<chunked, fts, batchLog, openLine, children, late, unresumed,
                   batchRuns, batchKills>>

\* ./crawl index-chunks, in full or up to its timeout.
IndexSource ==
    /\ batch.at = "index"
    /\ \E some \in SUBSET Unchunked(Head(batch.todo).id) : chunked' = chunked \cup some
    /\ batch' = [batch EXCEPT !.at = "log"]
    /\ UNCHANGED <<live, made, fts, batchLog, openLine, children, late, unresumed,
                   batchRuns, batchKills>>

LogSource ==
    /\ batch.at = "log"
    /\ Logged("source_done", Head(batch.todo).id)
    /\ LET processed == batch.processed + 1
       IN batch' = [batch EXCEPT !.processed = processed, !.todo = Tail(@),
                        !.at = IF SyncEvery > 0 /\ processed % SyncEvery = 0 THEN "sync" ELSE "poll"]
    /\ UNCHANGED <<live, made, chunked, fts, children, late, unresumed, batchRuns, batchKills>>

\* One transaction: a row for each chunk that has none.  Rows of chunks whose
\* document is superseded stay.
Synced == [c \in Documents |-> IF c \in chunked /\ fts[c] = 0 THEN 1 ELSE fts[c]]
Sync == fts' = Synced /\ late' = {}

SyncFts ==
    /\ batch.at = "sync"
    /\ Sync
    /\ batch' = [batch EXCEPT !.at = "poll"]
    /\ Logged("fts_sync", "none")
    /\ UNCHANGED <<live, made, chunked, children, unresumed, batchRuns, batchKills>>

EndRun ==
    /\ batch.at = "poll" /\ batch.todo = <<>>
    /\ IF SyncEvery = 0 THEN UNCHANGED <<fts, late>> ELSE Sync
    /\ batch' = [batch EXCEPT !.at = "ended"]
    /\ Logged("batch_done", "none")
    /\ UNCHANGED <<live, made, chunked, children, unresumed, batchRuns, batchKills>>

\* A line for the log is about to be written, after a sync or not.  Only the
\* line of a source, which quotes what the children printed, can be split.
Syncing == \/ batch.at = "sync"
           \/ batch.at = "poll" /\ batch.todo = <<>> /\ SyncEvery > 0
Pieces ==
    IF batch.at = "log"
    THEN {LogLine("source_done", Head(batch.todo).id, kind) : kind \in {"torn", "split", "whole"}}
    ELSE {LogLine(IF batch.at \in {"start", "dry"} THEN "batch_start"
                  ELSE IF batch.at = "sync" THEN "fts_sync" ELSE "batch_done",
                  "none", kind) : kind \in {"torn", "whole"}}
Polling == batch.at = "index" \/ (batch.at = "poll" /\ batch.todo # <<>>)

\* The script is killed: while a child works, which goes on; between a sync
\* and its line; or within a line, the last thing of which is its newline.
KillRun ==
    /\ batch.at \notin {"off", "ended", "raised"} /\ batchKills < BatchKills
    /\ batchKills' = batchKills + 1
    /\ batch' = NoBatch
    /\ \/ UNCHANGED <<fts, late, batchLog, openLine, children>>
       \/ /\ Polling
          /\ children' = children \cup {<<batch.at, Head(batch.todo).id>>}
          /\ UNCHANGED <<fts, late, batchLog, openLine>>
       \/ Syncing /\ Sync /\ UNCHANGED <<batchLog, openLine, children>>
       \/ /\ ~Polling
          /\ IF Syncing THEN Sync ELSE UNCHANGED <<fts, late>>
          /\ \E piece \in Pieces : batchLog' = WithLine(piece)
          /\ openLine' = TRUE
          /\ UNCHANGED children
    /\ UNCHANGED <<live, made, chunked, unresumed, batchRuns>>

\* What a child does that nobody waits for.
ChildEnds ==
    /\ \E child \in children :
        /\ children' = children \ {child}
        /\ \/ child[1] = "poll" /\ Polled(child[2]) /\ UNCHANGED <<chunked, late>>
           \/ /\ child[1] = "index"
              /\ \E some \in SUBSET Unchunked(child[2]) :
                    chunked' = chunked \cup some /\ late' = late \cup some
              /\ UNCHANGED <<live, made>>
    /\ UNCHANGED <<fts, batchLog, openLine, batch, unresumed, batchRuns, batchKills>>

RunNext ==
    \/ \E option \in BatchOptions, resume \in BOOLEAN : StartRun(option, resume)
    \/ \E resume \in BOOLEAN : DryRun(resume)
    \/ LogStart \/ PollSource \/ IndexSource \/ LogSource \/ SyncFts \/ EndRun
    \/ KillRun \/ ChildEnds

RunSpec == RunInit /\ [][RunNext]_crawlBatchVars

-----------------------------------------------------------------------------
\* The lines that say a source is done, as a resumed run reads them, and with
\* those that became unreadable when the next run wrote its first line.
Finished(id) ==
    {k \in DOMAIN batchLog : batchLog[k] = LogLine("source_done", id, "whole")}
GoneThrough(id) ==
    Finished(id) \cup {k \in DOMAIN batchLog : batchLog[k] = LogLine("source_done", id, "glued")}

BatchPoints == {"off", "start", "dry", "poll", "index", "log", "sync", "ended", "raised"}

\* What the variables hold; only live sources of the wanted tiers are polled.
RunTypeOK ==
    /\ \A id \in RegistryIds : live[id] \subseteq 1 .. made[id] /\ made[id] <= DocLimit
    /\ late \subseteq chunked /\ chunked \subseteq Documents
    /\ \A c \in Documents : fts[c] \in Nat
    /\ children \subseteq {"poll", "index"} \X RegistryIds
    /\ batch.at \in BatchPoints
    /\ \A s \in ToSet(batch.todo) : s \in Registry /\ s.tier <= TierMax
    /\ openLine => batchLog # <<>>
    /\ batchRuns \in 0 .. BatchRuns /\ batchKills \in 0 .. BatchKills

\* However the syncs fall between kills and superseded documents, no chunk is
\* found twice and no row stands for nothing (sync_fts()).
OneFtsRow == \A c \in Documents : fts[c] <= 1 /\ (fts[c] = 1 => c \in chunked)

\* When a run that syncs has ended each chunk can be found, those too that an
\* earlier run made and was killed over, but for what a child that outlived
\* its run made after the sync (sync_fts() at the end of main()).
FtsCovers == SyncEvery > 0 /\ batch.at = "ended" => \A c \in chunked \ late : fts[c] > 0

\* As long as every run but the first resumes, the log never says twice that
\* a source is done.  A source is gone through again only where its line was
\* cut, or was left whole without its newline, so that the first line of the
\* run that counted it made it unreadable for the runs after that
\* (load_done(), append_log()).
FinishedOnce ==
    ~unresumed => \A id \in RegistryIds : Cardinality(Finished(id)) <= 1

\* A run that has ended leaves no source out that was to be done: it has been
\* gone through, in this run or an earlier one (load_sources() and the loop of
\* main()).
RunIsComplete ==
    batch.at = "ended" => \A id \in batch.wanted : GoneThrough(id) # {}

\* What is true of the log and the full-text table at any time.
BatchesAreSound ==
    RunTypeOK /\ OneFtsRow /\ FtsCovers /\ FinishedOnce /\ RunIsComplete
=============================================================================
