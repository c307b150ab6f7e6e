----------------------------- MODULE SearchIndex -----------------------------
(***************************************************************************)
(* Retriever of server/main.py: the table chunks_fts is built when the     *)
(* server starts and by /admin/reindex, in statements that each commit by  *)
(* themselves, while the crawler publishes and supersedes documents and    *)
(* while questions are searched for, with several statements each.         *)
(* Handlers run on a pool of threads: two reindexes may overlap.           *)
(***************************************************************************)
EXTENDS Search

CONSTANTS Rows,       \* the chunks of the corpus, in the order of bm25
          Later,      \* ids of the chunks that are not there at first
          Leaving,    \* ids whose documents a newer one may supersede
          Claims,     \* the interview claims, as they were loaded
          Questions,  \* messages
          TopK,       \* payload.top_k_gov
          Builders,   \* threads that may rebuild the index
          BootBuilder, MaxKills

ASSUME SearchIndexAssumption ==
  /\ Rows \in Seq(Range(Rows))
  /\ TopK \in Nat \ {0} /\ MaxKills \in Nat
  /\ BootBuilder \in Builders

Ids == {r.id : r \in Range(Rows)}

VARIABLES
  stored,   \* ids in the table chunks
  live,     \* those whose document is neither superseded nor removed
  table,    \* chunks_fts exists
  copies,   \* how often it has a chunk
  pc,       \* where each builder is in reindex() or _ensure_fts()
  server,   \* "down", "starting" or "up"
  search,   \* the search under way: its stage, message, case and the ids of its first rows
  out,      \* what the search that has just ended returned, and what the index had
  \* Ghosts: what was stored when a builder was asked, whether the table was
  \* left by a crash or by builders that overlapped, and a count.
  asked, spoilt, kills

indexVars == <<stored, live, table, copies, pc, server, search, out, asked, spoilt, kills>>

NoQuestion == [words |-> {}, asks |-> TRUE, compact |-> FALSE, locationOnly |-> FALSE,
               sum |-> FALSE, identity |-> FALSE, refers |-> FALSE, recheck |-> FALSE,
               lang |-> "english"]
NoCase == [frame |-> None, s |-> None]
Nothing == [q |-> NoQuestion, rows |-> <<>>, claims |-> <<>>,
            case |-> NoCase, authority |-> FALSE, phonePage |-> FALSE]
NoSearch == [stage |-> "idle", q |-> NoQuestion, case |-> NoCase, main |-> <<>>]

IndexInit ==
  /\ stored = Ids \ Later /\ live = Ids \ Later
  /\ table = FALSE /\ copies = [id \in Ids |-> 0]
  /\ pc = [b \in Builders |-> "idle"]
  /\ server = "down" /\ search = NoSearch /\ out = Nothing
  /\ asked = [b \in Builders |-> {}] /\ spoilt = FALSE /\ kills = 0

-----------------------------------------------------------------------------
(* The crawler.                                                            *)

CrawlerPublishes(id) ==
  /\ id \in Later \ stored
  /\ stored' = stored \cup {id} /\ live' = live \cup {id}
  /\ out' = Nothing /\ UNCHANGED <<table, copies, pc, server, search, asked, spoilt, kills>>

CrawlerSupersedes(id) ==
  /\ id \in Leaving \cap live
  /\ live' = live \ {id}
  /\ out' = Nothing /\ UNCHANGED <<stored, table, copies, pc, server, search, asked, spoilt, kills>>

-----------------------------------------------------------------------------
(* Building the index.                                                     *)

StepTo(b, place) == pc' = [pc EXCEPT ![b] = place]
OthersBusy(b) == \E o \in Builders \ {b} : pc[o] # "idle"

\* lifespan: the retriever builds its table before the server answers.
Start ==
  /\ server = "down" /\ server' = "starting"
  /\ StepTo(BootBuilder, "check") /\ asked' = [asked EXCEPT ![BootBuilder] = {}]
  /\ out' = Nothing /\ UNCHANGED <<stored, live, table, copies, search, spoilt, kills>>

\* Mutant: the old table is kept.
ReindexKeeps(b) ==
  /\ server = "up" /\ pc[b] = "idle" /\ StepTo(b, "check")
  /\ asked' = [asked EXCEPT ![b] = stored]
  /\ spoilt' = OthersBusy(b)
  /\ out' = Nothing /\ UNCHANGED <<stored, live, table, copies, server, search, kills>>

\* reindex: DROP TABLE IF EXISTS, committed.
Reindex(b) ==
  /\ server = "up" /\ pc[b] = "idle" /\ StepTo(b, "check")
  /\ table' = FALSE /\ copies' = [id \in Ids |-> 0]
  /\ asked' = [asked EXCEPT ![b] = stored]
  /\ spoilt' = OthersBusy(b)
  /\ out' = Nothing /\ UNCHANGED <<stored, live, server, search, kills>>

\* Whoever ends a boot or a reindex; a builder that fails answers 500, and a
\* server whose retriever cannot be built does not start.
Return(b, failed) ==
  /\ StepTo(b, "idle") /\ asked' = [asked EXCEPT ![b] = {}]
  /\ server' = IF server # "starting" THEN server ELSE IF failed THEN "down" ELSE "up"

\* _ensure_fts: the table is looked for and, if it is there, left as it is.
Check(b) ==
  /\ pc[b] = "check"
  /\ StepTo(b, IF table THEN "count" ELSE "create")
  /\ out' = Nothing /\ UNCHANGED <<stored, live, table, copies, server, search, asked, spoilt, kills>>

Create(b) ==
  /\ pc[b] = "create"
  /\ IF table THEN Return(b, TRUE) /\ UNCHANGED table
              ELSE table' = TRUE /\ StepTo(b, "insert") /\ UNCHANGED <<server, asked>>
  /\ out' = Nothing /\ UNCHANGED <<stored, live, copies, search, spoilt, kills>>

\* INSERT ... SELECT of all chunks, superseded ones included; it is counted
\* twice at most.
Insert(b) ==
  /\ pc[b] = "insert"
  /\ IF table
     THEN /\ copies' = [id \in Ids |-> IF id \in stored THEN Min({2, copies[id] + 1})
                                       ELSE copies[id]]
          /\ StepTo(b, "count") /\ UNCHANGED <<server, asked>>
     ELSE Return(b, TRUE) /\ UNCHANGED copies
  /\ out' = Nothing /\ UNCHANGED <<stored, live, table, search, spoilt, kills>>

\* SELECT COUNT(*), which fails without the table; a boot does not count.
Count(b) == /\ pc[b] = "count" /\ Return(b, FALSE)
            /\ out' = Nothing /\ UNCHANGED <<stored, live, table, copies, search, spoilt, kills>>

\* The process dies; the statements that were committed stay.
Crash ==
  /\ server # "down" /\ kills < MaxKills
  /\ kills' = kills + 1
  /\ server' = "down" /\ pc' = [b \in Builders |-> "idle"]
  /\ search' = NoSearch
  /\ spoilt' = (spoilt \/ \E b \in Builders : pc[b] = "insert")
  /\ asked' = [b \in Builders |-> {}]
  /\ out' = Nothing /\ UNCHANGED <<stored, live, table, copies>>

-----------------------------------------------------------------------------
(* Searching.                                                              *)

LiveRows == Picked(Rows, {i \in DOMAIN Rows : Rows[i].id \in live})

RowOf(id) == CHOOSE r \in Range(Rows) : r.id = id

\* The frame of each question, and what search reads off its query.
CaseWith(q, frame) == [frame |-> frame, s |-> Reading(RetrievalQuery(q, frame))]
Cases == [q \in Questions |-> CaseWith(q, ResolveCase(q, <<>>))]

\* What the index has of the authority of the question's topic.
AuthorityIndexed(s) ==
  /\ table
  /\ \E r \in Range(LiveRows) : /\ copies[r.id] > 0 /\ r.host \in Range(s.expected)
                                /\ r.words \cap s.terms # {}

\* A live page of the places named that says where to call.
PhonePage(q, c) == /\ WantsPhone(q.words) /\ c.host \in DetectLocalDomains(q.words)
                   /\ {"contact page", "contact no"} \subseteq c.marks

Found(q, case, rows, authority) ==
  /\ search' = NoSearch
  /\ out' = [q |-> q, case |-> case, rows |-> FilterGovResults(case.frame, rows),
             authority |-> authority,
             claims |-> FilterTacitResults(case.frame, TacitResult(case.s, Claims, TopK)),
             phonePage |-> \E r \in Range(LiveRows) : PhonePage(q, r)]

IdsOf(rows) == [i \in DOMAIN rows |-> rows[i].id]

\* A contact question that names a place does not use the index; any other
\* begins with it, or with LIKE when the table is missing.
SearchMain(q) ==
  /\ server = "up" /\ search.stage = "idle" /\ out = Nothing
  /\ \E case \in {Cases[q]} :
       IF case.s.contact /\ DirectContactRows(case.s, LiveRows, 8 * TopK) # <<>>
       THEN Found(q, case, ContactResult(case.s, LiveRows, TopK), FALSE)
       ELSE /\ search' = [stage |-> "rest", q |-> q, case |-> case,
                          main |-> IdsOf(IF table
                                         THEN FtsRows(case.s, LiveRows, copies, 64 * TopK)
                                         ELSE LikeRows(case.s, LiveRows, 64 * TopK))]
            /\ out' = Nothing
  /\ UNCHANGED <<stored, live, table, copies, pc, server, asked, spoilt, kills>>

\* The supplements, on connections of their own; the one over the index is
\* empty when the table is missing by now.
SearchRest ==
  /\ search.stage = "rest"
  /\ LET main == [i \in DOMAIN search.main |-> RowOf(search.main[i])]
         now == IF table THEN copies ELSE [id \in Ids |-> 0]
     IN  Found(search.q, search.case, SearchResult(search.case.s, main, LiveRows, now, TopK),
               AuthorityIndexed(search.case.s))
  /\ UNCHANGED <<stored, live, table, copies, pc, server, asked, spoilt, kills>>

\* The results go to the answer.
Answered == /\ out # Nothing /\ out' = Nothing
            /\ UNCHANGED <<stored, live, table, copies, pc, server, search, asked, spoilt, kills>>

IndexNext ==
  \/ \E id \in Ids : CrawlerPublishes(id) \/ CrawlerSupersedes(id)
  \/ Start
  \/ \E b \in Builders : Reindex(b) \/ Check(b) \/ Create(b) \/ Insert(b) \/ Count(b)
  \/ Crash
  \/ \E q \in Questions : SearchMain(q)
  \/ SearchRest \/ Answered

IndexSpec == IndexInit /\ [][IndexNext]_indexVars

-----------------------------------------------------------------------------
(* Properties.                                                             *)

\* Types of the index and of what searches hold.
IndexTypeOK ==
  /\ live \subseteq stored /\ stored \subseteq Ids
  /\ table \in BOOLEAN /\ copies \in [Ids -> 0 .. 2]
  /\ pc \in [Builders -> {"idle", "check", "create", "insert", "count"}]
  /\ server \in {"down", "starting", "up"}
  /\ search.stage \in {"idle", "rest"}
  /\ Len(out.rows) <= TopK
  /\ spoilt \in BOOLEAN /\ kills \in 0 .. MaxKills

\* A reindex that overlapped with no other and no crash returns with every
\* chunk that was stored when it was asked for in the index, once, whatever
\* was left of the index before (Retriever.reindex: "Drop and rebuild").
ReindexCovers ==
  \A b \in Builders :
    pc[b] = "count" /\ ~spoilt => \A id \in asked[b] : copies[id] = 1

\* Nobody gets two chunks of one page (main.py 2386: per_url).
OnePagePerUrl ==
  \A i, j \in DOMAIN out.rows : i # j => out.rows[i].url # out.rows[j].url

\* Search and gate agree: when the index has a page of the authority of the
\* question's topic, the answer is not refused for want of one, unless the
\* case's words change the topic, or a district's office, which counts as its
\* ministry, is crowded out by those of other districts.
AuthorityExpected ==
  /\ out.authority
  /\ DetectRetrievalTopic(out.q.words) = out.case.s.topic
  /\ out.case.frame.action # "contact"
  /\ out.case.s.topic = "citizenship" => out.case.frame.district = None
AuthorityPasses ==
  AuthorityExpected => RetrievalPasses(out.q.words, out.case.s.topic, <<>>, out.rows)

\* "A municipality domain is useful context, but a random local PDF must not
\* outrank DONIDCR/MoHA/etc for a service procedure unless it contains
\* topic-specific markers" (main.py 1441).
LocalPageBelowAuthority ==
  AuthorityExpected =>
    \A i \in DOMAIN out.rows :
      out.rows[i].host \in LocalHosts /\ ~StrongHit(out.case.s, out.rows[i])
      => \E j \in 1 .. i - 1 : out.rows[j].host \in Range(out.case.s.expected)

\* Who asks for a municipality's phone is shown the page with the number
\* first, whatever the state of the index.
PhonePageFirst ==
  out.phonePage => out.rows # <<>> /\ PhonePage(out.q, out.rows[1])

\* A claim of the office of the place that is named, about what is asked, is
\* not cut off or ranked below the claims of other offices, which the case
\* then drops, unless one of them shares more words with the question.
LocalClaimKept ==
  out # Nothing /\ out.case.s.topic \in LOCAL_TACIT_STRICT_TOPICS =>
    LET s == out.case.s
        eligible == {c \in Range(Claims) : TacitEligible(s, c)}
        here == {c \in eligible : c.host \in s.here}
    IN  (\E c \in here : \A d \in eligible :
           Cardinality(d.words \cap s.terms) <= Cardinality(c.words \cap s.terms))
        => /\ out.claims # <<>>
           /\ TacitMunicipalityRule(out.q.words, s.topic, out.claims) # NoAnswer

\* What is there is found, whichever thread rebuilt the index last and whatever
\* the crawler did meanwhile: the index is complete after a rebuild, a page is
\* returned once, and the authority of the topic, the page with the number and
\* the named place's claim are not crowded out.
RightPagesFound ==
  /\ IndexTypeOK /\ ReindexCovers /\ OnePagePerUrl
  /\ AuthorityPasses /\ LocalPageBelowAuthority /\ PhonePageFirst /\ LocalClaimKept
=============================================================================
