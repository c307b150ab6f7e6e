-------------------------------- MODULE Review --------------------------------
(***************************************************************************)
(* The review of evaluation drafts: scripts/review_web.py, a threaded       *)
(* server that keeps the reviews in memory and appends each to the gold    *)
(* file, and scripts/review_eval.py, which asks for a verdict per draft on *)
(* a terminal and appends to the same file.  A second web server takes     *)
(* another port and shares the file.  A row is longer than a buffer: it    *)
(* reaches the file in two pieces.                                         *)
(***************************************************************************)
EXTENDS Naturals, FiniteSets, SequencesExt, Picking

CONSTANTS
    Drafts,         \* the drafts, a sequence of ids
    Webs,           \* web servers on the file
    Threads,        \* the requests each can be serving
    ReviewLimit,    \* reviews in the instance
    ReviewStarts,   \* starts of each process
    ReviewKills

ReviewIds == {Drafts[k] : k \in DOMAIN Drafts}
None == "none"
Cli == "cli"

\* Both programs know a draft by its id.
ASSUME ReviewAssumption ==
    /\ {ReviewLimit, ReviewStarts, ReviewKills} \subseteq Nat
    /\ Drafts \in Seq(ReviewIds)
    /\ \A j, k \in DOMAIN Drafts : Drafts[j] = Drafts[k] => j = k
    /\ Cli \notin Webs /\ None \notin Threads

Programs == Webs \cup {Cli}

VARIABLES
    chunks,         \* the gold file: pieces [review, part], part 2 ends a line
    reviews,        \* the reviews made, by number: id and program
    acked,          \* those the reviewer was told are saved
    up,             \* which programs run
    memory,         \* review_by_id of each web server: the last review of an id
    holder,         \* the thread that holds a store's lock
    thread,         \* what each thread is doing
    pending,        \* the drafts the terminal still asks about
    asking,         \* the review the terminal is writing, 0 for none
    mixed,          \* two programs were up at once, or one was killed
    reviewStarts, reviewKills

reviewVars == <<chunks, reviews, acked, up, memory, holder, thread, pending, asking, mixed,
                reviewStarts, reviewKills>>

\* The reviews on disk: both pieces, next to each other, on a line of their own.
Parses(k) ==
    /\ chunks[k].part = 2 /\ k > 1
    /\ chunks[k - 1] = [review |-> chunks[k].review, part |-> 1]
    /\ k > 2 => chunks[k - 2].part = 2
OnDisk == {chunks[k].review : k \in {j \in DOMAIN chunks : Parses(j)}}
Position(r) == CHOOSE k \in DOMAIN chunks : chunks[k] = [review |-> r, part |-> 2]
\* The file has a line that does not parse, or a piece of one at its end.
Broken == \E k \in DOMAIN chunks :
             /\ chunks[k].part = 2 => ~Parses(k)
             /\ chunks[k].part = 1 => ~(k + 1 \in DOMAIN chunks /\ Parses(k + 1))

ReviewsOf(id, some) == {r \in some : reviews[r].id = id}
LatestOf(id, some) ==
    IF ReviewsOf(id, some) = {} THEN 0
    ELSE CHOOSE r \in ReviewsOf(id, some) : \A q \in ReviewsOf(id, some) : Position(q) <= Position(r)

Piece(r, n) == chunks' = Append(chunks, [review |-> r, part |-> n])
Idle == [pc |-> "idle", review |-> 0]

ReviewInit ==
    /\ chunks = <<>> /\ reviews = <<>> /\ acked = {}
    /\ up = {}
    /\ memory = [w \in Webs |-> [id \in ReviewIds |-> 0]]
    /\ holder = [w \in Webs |-> None]
    /\ thread = [w \in Webs |-> [t \in Threads |-> Idle]]
    /\ pending = <<>> /\ asking = 0
    /\ mixed = FALSE
    /\ reviewStarts = [p \in Programs |-> 0] /\ reviewKills = 0

Starting(p) ==
    /\ p \notin up /\ reviewStarts[p] < ReviewStarts
    /\ reviewStarts' = [reviewStarts EXCEPT ![p] = @ + 1]
    /\ mixed' = (mixed \/ up # {})

\* Store.__init__: the last line of an id wins; what does not parse is left out.
StartWeb(w) ==
    /\ Starting(w)
    /\ up' = up \cup {w}
    /\ memory' = [memory EXCEPT ![w] = [id \in ReviewIds |-> LatestOf(id, OnDisk)]]
    /\ UNCHANGED <<chunks, reviews, acked, holder, thread, pending, asking, reviewKills>>

\* main() of review_eval.py; load_jsonl() of a broken file ends it.
StartCli ==
    /\ Starting(Cli)
    /\ IF Broken THEN UNCHANGED <<pending, up>>
       ELSE /\ pending' = Picked(Drafts, {k \in DOMAIN Drafts : ReviewsOf(Drafts[k], OnDisk) = {}})
            /\ up' = IF pending' = <<>> THEN up ELSE up \cup {Cli}
    /\ UNCHANGED <<chunks, reviews, acked, memory, holder, thread, asking, reviewKills>>

NewReview(id, p) ==
    /\ Len(reviews) < ReviewLimit
    /\ reviews' = Append(reviews, [id |-> id, by |-> p])

\* save_review() up to its lock; an id that is no draft's is refused.
Post(w, t, id) ==
    /\ w \in up /\ thread[w][t].pc = "idle"
    /\ NewReview(id, w)
    /\ thread' = [thread EXCEPT ![w][t] = [pc |-> "lock", review |-> Len(reviews) + 1]]
    /\ UNCHANGED <<chunks, acked, up, memory, holder, pending, asking, mixed, reviewStarts, reviewKills>>

LockAlways(w, t) ==
    /\ thread[w][t].pc = "lock"
    /\ holder' = [holder EXCEPT ![w] = t]
    /\ Piece(thread[w][t].review, 1)
    /\ thread' = [thread EXCEPT ![w][t].pc = "write"]
    /\ UNCHANGED <<reviews, acked, up, memory, pending, asking, mixed, reviewStarts, reviewKills>>
\* The lock, and the first buffer of the row.
Lock(w, t) ==
    /\ thread[w][t].pc = "lock" /\ holder[w] = None
    /\ holder' = [holder EXCEPT ![w] = t]
    /\ Piece(thread[w][t].review, 1)
    /\ thread' = [thread EXCEPT ![w][t].pc = "write"]
    /\ UNCHANGED <<reviews, acked, up, memory, pending, asking, mixed, reviewStarts, reviewKills>>

\* The rest of the row, memory, and the lock's release.
Write(w, t) ==
    LET r == thread[w][t].review
    IN /\ thread[w][t].pc = "write"
       /\ Piece(r, 2)
       /\ memory' = [memory EXCEPT ![w][reviews[r].id] = r]
       /\ holder' = [holder EXCEPT ![w] = None]
       /\ thread' = [thread EXCEPT ![w][t].pc = "answer"]
       /\ UNCHANGED <<reviews, acked, up, pending, asking, mixed, reviewStarts, reviewKills>>

AnswerReview(w, t) ==
    /\ thread[w][t].pc = "answer"
    /\ acked' = acked \cup {thread[w][t].review}
    /\ thread' = [thread EXCEPT ![w][t] = Idle]
    /\ UNCHANGED <<chunks, reviews, up, memory, holder, pending, asking, mixed, reviewStarts, reviewKills>>

\* A verdict on the terminal: a row (in two pieces), or the draft is skipped.
Verdict ==
    /\ Cli \in up /\ asking = 0
    /\ NewReview(Head(pending), Cli)
    /\ asking' = Len(reviews) + 1
    /\ Piece(asking', 1)
    /\ UNCHANGED <<acked, up, memory, holder, thread, pending, mixed, reviewStarts, reviewKills>>

NextDraft ==
    /\ pending' = Tail(pending)
    /\ up' = IF pending' = <<>> THEN up \ {Cli} ELSE up

VerdictEnds ==
    /\ Cli \in up /\ asking > 0
    /\ Piece(asking, 2)
    /\ acked' = acked \cup {asking}
    /\ asking' = 0
    /\ NextDraft
    /\ UNCHANGED <<reviews, memory, holder, thread, mixed, reviewStarts, reviewKills>>

SkipDraft ==
    /\ Cli \in up /\ asking = 0
    /\ NextDraft
    /\ UNCHANGED <<chunks, reviews, acked, memory, holder, thread, asking, mixed, reviewStarts, reviewKills>>

\* "q" on the terminal; Ctrl-C, after which the server waits for its threads.
Quit(p) ==
    /\ p \in up
    /\ IF p = Cli THEN asking = 0 ELSE \A t \in Threads : thread[p][t] = Idle
    /\ up' = up \ {p}
    /\ pending' = IF p = Cli THEN <<>> ELSE pending
    /\ UNCHANGED <<chunks, reviews, acked, memory, holder, thread, asking, mixed, reviewStarts, reviewKills>>

\* A program is killed: rows it is writing stay pieces.
KillProgram(p) ==
    /\ p \in up /\ reviewKills < ReviewKills
    /\ reviewKills' = reviewKills + 1
    /\ up' = up \ {p}
    /\ mixed' = TRUE
    /\ IF p = Cli
       THEN pending' = <<>> /\ asking' = 0 /\ UNCHANGED <<holder, thread>>
       ELSE /\ holder' = [holder EXCEPT ![p] = None]
            /\ thread' = [thread EXCEPT ![p] = [t \in Threads |-> Idle]]
            /\ UNCHANGED <<pending, asking>>
    /\ UNCHANGED <<chunks, reviews, acked, memory, reviewStarts>>

Serve(w, t) == Lock(w, t) \/ Write(w, t) \/ AnswerReview(w, t)
ReviewNext ==
    \/ \E w \in Webs : StartWeb(w)
    \/ \E w \in Webs, t \in Threads : \/ \E id \in ReviewIds : Post(w, t, id)
                                      \/ Serve(w, t)
    \/ StartCli \/ Verdict \/ VerdictEnds \/ SkipDraft
    \/ \E p \in Programs : Quit(p) \/ KillProgram(p)

\* The threads of a server run.
ReviewSpec ==
    /\ ReviewInit /\ [][ReviewNext]_reviewVars
    /\ \A w \in Webs : WF_reviewVars(\E t \in Threads : Serve(w, t))

-----------------------------------------------------------------------------

\* What the variables hold; a lock is held by the thread that is writing.
ReviewTypeOK ==
    /\ {chunks[k].review : k \in DOMAIN chunks} \subseteq DOMAIN reviews
    /\ \A r \in DOMAIN reviews : reviews[r].id \in ReviewIds /\ reviews[r].by \in Programs
    /\ acked \subseteq DOMAIN reviews
    /\ up \subseteq Programs
    /\ \A w \in Webs : \A t \in Threads : holder[w] = t <=> thread[w][t].pc = "write"
    /\ ToSet(pending) \subseteq ReviewIds
    /\ asking > 0 => pending # <<>>
    /\ \A p \in Programs : reviewStarts[p] \in 0 .. ReviewStarts

\* What the reviewer was told is saved is a line that parses, however the
\* requests overlap, as long as one program at a time uses the file and none
\* was killed while it wrote (the lock of save_review(), append_jsonl()).
AckedIsOnDisk == ~mixed => acked \subseteq OnDisk

\* What the web page shows of a draft is what the next start will read back:
\* the last line of its id (review_by_id is set under the lock).
MemoryIsFile ==
    ~mixed => \A w \in up \cap Webs : holder[w] = None =>
        \A id \in ReviewIds : memory[w][id] = LatestOf(id, OnDisk)

\* The terminal asks about no draft that has a row, from whichever program
\* ("otherwise auto-resume from output", review_eval.py).
AskedOnce ==
    ~mixed => \A r \in acked : \A q \in acked :
        reviews[r].id = reviews[q].id /\ Position(q) < Position(r) => reviews[r].by # Cli

\* What is true of the gold file and those who read it at any time.
ReviewsAreSound == ReviewTypeOK /\ AckedIsOnDisk /\ MemoryIsFile /\ AskedOnce

\* Each request is answered, or its server is gone.
RequestsEnd == \A w \in Webs, t \in Threads : []<>(thread[w][t].pc = "idle")
=============================================================================
