-------------------------------- MODULE Search --------------------------------
(***************************************************************************)
(* Retriever.search and TacitRetriever.search of server/main.py: which     *)
(* statements are run, how their rows are scored, which are moved to the   *)
(* front, and what is left of them.                                        *)
(*                                                                         *)
(* A chunk is [id, url, host, words, marks, strong]: the words of queries  *)
(* it has, what the code looks for in its url, title and text, and the     *)
(* topics whose TOPIC_STRONG_MARKERS it has.  Scores are in twentieths.    *)
(* The order of a table's rows in bm25 is the order of a given sequence.   *)
(***************************************************************************)
EXTENDS Answers

-----------------------------------------------------------------------------
(* What a query asks for.                                                  *)

WantsApplyProcess(text) ==
  "how to" \in text /\ ~ContainsAny(text, {"fee", "renew", "lost", "status"})

\* _expanded_retrieval_tokens; a word stands for its bilingual anchors too.
ExpandedTokens(text, topic) ==
  text \cup (CASE topic = "foreign_employment" /\ WantsComplaint(text) ->
                    {"1141", "complaint", "receipt"}
               [] topic = "passport" /\ WantsApplyProcess(text) -> {"pre-enrolment"}
               [] topic = "national_id" -> {"nid appointment", "nid form"}
               [] OTHER -> {})

\* What search reads off its query, once.
ReadAs(text, topic, here) ==
  [text |-> text, topic |-> topic, terms |-> ExpandedTokens(text, topic), here |-> here,
   expected |-> AuthorityDomainsForQuery(topic, text),
   role |-> ContactRole(text), phone |-> WantsPhone(text),
   complaint |-> topic = "foreign_employment" /\ WantsComplaint(text),
   contact |-> topic = "municipality_contact" /\ here # {}]

Reading(text) == ReadAs(text, DetectRetrievalTopic(text), DetectLocalDomains(text))

StrongHit(s, c) == s.topic \in c.strong

\* _contact_source_priority: 0 is best, 9 stands for None.
ContactPriority(s, c) ==
  LET role == s.role
      hasAny(marks) == c.marks \cap marks # {}
  IN  IF ~s.contact \/ ~HostMatches(c.host, s.here) THEN 9
      ELSE IF s.phone /\ hasAny({"contact page", "contact no"}) THEN 0
      ELSE IF s.phone /\ hasAny({"phone"}) THEN 2
      ELSE IF role # None /\ {role, "profile"} \subseteq c.marks THEN 0
      ELSE IF hasAny({"root", "contact page"}) THEN 1
      ELSE 9

-----------------------------------------------------------------------------
(* _retrieval_rank_features.                                               *)

When(condition, n) == IF condition THEN n ELSE 0

\* What of the query a chunk has, and whose page it is.
Features(s, c) ==
  LET wanted == Max({1, Min({6, Cardinality(s.terms)})})
  IN  [domain |-> HostMatches(c.host, Range(s.expected)),
       local |-> HostMatches(c.host, s.here),
       coverage |-> Min({100, (100 * Cardinality(s.terms \cap c.words)) \div wanted})]

\* A municipality's page counts in full for a local topic or with a marker of
\* the topic, and little otherwise.
LocalBoost(s, c, f) ==
  IF ~f.local THEN 0
  ELSE IF \/ s.topic \in LOCAL_TACIT_STRICT_TOPICS \cup {None, "municipality_contact"}
          \/ StrongHit(s, c) THEN 150
  ELSE 20

ContactBoost(s, c) ==
  LET role == s.role
      mark(w) == w \in c.marks
  IN  When(mark("pdf"), -80) + When(mark("contact page"), 50)
      + (IF ~s.phone THEN 0
         ELSE IF s.phone /\ mark("contact page") /\ (mark("contact no") \/ mark("phone")) THEN 140
         ELSE IF mark("contact no") THEN 100
         ELSE IF mark("phone") THEN 20
         ELSE 0)
      + When(role # None /\ mark(role), 160)
      + When(role = "mayor" /\ ~mark("mayor") /\ mark("information officer"), -60)
      + When(/\ role = None /\ s.text \cap {"who is", "officer"} # {}
             /\ mark("information officer") \/ mark("officials"), 120)
      + When(ContactPriority(s, c) # 9, 100 - 20 * ContactPriority(s, c))
      + When(mark("root"), 40)

PassportBoost(s, c) ==
  LET mark(w) == w \in c.marks
  IN  (IF "fee" \notin s.text THEN 0
       ELSE IF mark("fee table") THEN 180
       ELSE IF mark("fee") THEN 80
       ELSE 0)
      + (IF ~WantsApplyProcess(s.text) THEN 0
         ELSE IF mark("pre-enrolment") THEN 320
         ELSE IF mark("process time") THEN -100
         ELSE 0)
      + (IF s.text \cap {"embassy", "qatar"} = {} THEN 0
         ELSE When(c.host = "mofa.gov.np", 40)
              + When(c.host = "qa.nepalembassy.gov.np", 60 + When("qatar" \in s.text, 40))
              + (IF mark("passport page") THEN 280
                 ELSE IF mark("contact page") THEN 240
                 ELSE IF mark("consular") THEN 120
                 ELSE 0)
              + When(mark("gallery"), -200) + When(mark("sponsorship change"), -160))

\* The transport offices of Gandaki, for the licences of Pokhara.
LicenseBoost(s, c) ==
  IF "pokhara" \notin s.text THEN 0
  ELSE When(c.host \in {"tmolkaski.gandaki.gov.np", "dlo.gandaki.gov.np"}, 200)
       + When("pokhara" \in c.words, 80) + When(c.host \in DaoHosts, -160)

ComplaintBoost(c) ==
  LET mark(w) == w \in c.marks
  IN  When(mark("1141"), 240) + When(mark("complaint"), 160) + When(mark("fraud"), 140)
      + When(mark("receipt"), 120)
      + When(c.host = "feb.gov.np" /\ (mark("complaint") \/ mark("1141")), 100)
      + When(c.host = "dofe.gov.np" /\ mark("public important"), 80)
      + When(mark("root") /\ ~mark("1141"), -80)

CitizenshipBoost(s, c) ==
  LET mark(w) == w \in c.marks
  IN  IF "lost" \notin s.text THEN 0
      ELSE When(mark("duplicate"), 180) + When(mark("page"), 60)
           + When(mark("pdf") /\ ~mark("duplicate"), -80)

\* The boosts of one topic each; the last ones are for authority pages only.
TopicBoost(s, c, f) ==
  IF s.topic = "municipality_contact" THEN ContactBoost(s, c)
  ELSE IF s.topic = "passport" THEN PassportBoost(s, c)
  ELSE IF s.topic = "driving_license" THEN LicenseBoost(s, c)
  ELSE IF s.complaint /\ f.domain THEN ComplaintBoost(c)
  ELSE IF s.topic = "police" /\ f.domain THEN
         When("clearance" \in c.marks, 160) + When("root" \in c.marks, -100)
  ELSE IF s.topic = "citizenship" /\ f.domain THEN CitizenshipBoost(s, c)
  ELSE IF s.topic \in {"birth_registration", "vital_registration"} /\ f.domain THEN
         When("registration page" \in c.marks, 30)
         + When("national id page" \in c.marks /\ ~StrongHit(s, c), -120)
  ELSE IF s.topic \in LOCAL_TACIT_STRICT_TOPICS /\ f.local THEN
         IF StrongHit(s, c) THEN 60 ELSE -20
  ELSE 0

RankScore(s, c, f, initialRank) ==
  Max({0, 81 - initialRank}) + f.coverage
  + When(f.domain, 150)
  + When(~f.domain /\ s.expected # <<>>, -40)
  + LocalBoost(s, c, f)
  + When("noisy" \in c.marks, -30)
  + When(StrongHit(s, c), 95)
  + TopicBoost(s, c, f)

\* relevance is "high" or "medium".
Relevant(f, score) == f.domain \/ f.local \/ (f.coverage >= 50 /\ score >= 100)

Scored(c, f, initialRank, score) ==
  [id |-> c.id, url |-> c.url, host |-> c.host, words |-> c.words, marks |-> c.marks,
   strong |-> c.strong, rank |-> initialRank, score |-> score, high |-> Relevant(f, score)]

Candidate(s, c, initialRank) ==
  Scored(c, Features(s, c), initialRank, RankScore(s, c, Features(s, c), initialRank))

-----------------------------------------------------------------------------
(* The statements.  rows are the chunks of live documents in bm25 order;   *)
(* where the code orders by url it is the order of the table.              *)

Upto(n, s) == SubSeq(s, 1, Min({n, Len(s)}))

\* What has key 1 first.
SortedByKey(s, key) == Concat([k \in 1 .. 6 |-> Picked(s, {i \in DOMAIN s : key[i] = k})])

ContactMarks == {"root", "contact page", "phone", "contact no", "mayor",
                 "information officer", "email"}

\* All that may be a contact on the hosts of the question's places.
AnyContact(s, rows) ==
  Picked(rows, {i \in DOMAIN rows : /\ rows[i].host \in s.here
                                    /\ rows[i].marks \cap ContactMarks # {}})

ContactKey(c) ==
  IF {"contact page", "contact no"} \subseteq c.marks THEN 1
  ELSE IF "contact page" \in c.marks THEN 2
  ELSE IF "email" \in c.marks THEN 3
  ELSE IF "information officer" \in c.marks THEN 4
  ELSE IF "phone" \in c.marks THEN 5
  ELSE 6

DirectContactRows(s, rows, limit) ==
  LET any == AnyContact(s, rows)
  IN  Upto(limit, SortedByKey(any, [i \in DOMAIN any |-> ContactKey(any[i])]))

\* chunks_fts MATCH; a chunk indexed twice comes back twice.
FtsRows(s, rows, copies, limit) ==
  Upto(limit, Concat([i \in DOMAIN rows |->
    IF rows[i].words \cap s.terms = {} THEN <<>>
    ELSE [k \in 1 .. copies[rows[i].id] |-> rows[i]]]))

\* Without the table: chunks that have the beginning of the query verbatim.
LikeRows(s, rows, limit) ==
  Upto(limit, Picked(rows, {i \in DOMAIN rows : s.text \subseteq rows[i].words}))

AuthorityRows(s, rows, copies, limit) ==
  LET found == FtsRows(s, rows, copies, 9 * Len(rows))
  IN  Upto(limit, Picked(found, {i \in DOMAIN found :
                                   HostMatches(found[i].host, Range(s.expected))}))

LocalRootRows(s, rows) ==
  Picked(rows, {i \in DOMAIN rows : rows[i].host \in s.here /\ "root" \in rows[i].marks})

\* The order of what names a contact, when there is no contact page.
FallbackKey(c) ==
  IF "mayor" \in c.marks \/ {"contact page", "contact no"} \subseteq c.marks THEN 1
  ELSE IF c.marks \cap {"contact page", "information officer"} # {} THEN 2
  ELSE IF "contact no" \in c.marks THEN 3
  ELSE 4

\* The contact pages by url, those with a number first; without one, whatever
\* names a contact.
ContactRows(s, rows) ==
  LET direct == Picked(rows, {i \in DOMAIN rows :
                               rows[i].host \in s.here /\ "contact page" \in rows[i].marks})
      any == AnyContact(s, rows)
  IN  IF direct # <<>>
      THEN Upto(8, SortedByKey(direct, [i \in DOMAIN direct |->
                                          IF "contact no" \in direct[i].marks THEN 1 ELSE 2]))
      ELSE Upto(24, SortedByKey(any, [i \in DOMAIN any |-> FallbackKey(any[i])]))

ComplaintKey(c) ==
  IF "1141" \in c.marks THEN 1
  ELSE IF "complaint" \in c.marks THEN 2
  ELSE IF "fraud" \in c.marks THEN 4
  ELSE IF "receipt" \in c.marks THEN 5
  ELSE 6

ComplaintRows(rows, limit) ==
  LET any == Picked(rows, {i \in DOMAIN rows :
        /\ rows[i].host \in {"dofe.gov.np", "feb.gov.np", "moless.gov.np"}
        /\ rows[i].marks \cap {"1141", "complaint", "fraud", "receipt", "public important"} # {}})
  IN  Upto(limit, SortedByKey(any, [i \in DOMAIN any |-> ComplaintKey(any[i])]))

-----------------------------------------------------------------------------
(* The pool, its order and the head start.                                 *)

\* Rows of a further statement join the pool unless their chunk is there; some
\* statements number them after the pool, the others after the first rows.
AddRows(s, pool, rows, offset) ==
  LET new == {i \in DOMAIN rows :
                /\ \A c \in Range(pool) : c.id # rows[i].id
                /\ \A j \in 1 .. i - 1 : rows[j].id # rows[i].id}
  IN  pool \o Picked([i \in DOMAIN rows |-> Candidate(s, rows[i], offset + i)], new)

Pool(s, main, supplements) ==
  LET after[n \in 0 .. Len(supplements)] ==
        IF n = 0 THEN [i \in DOMAIN main |-> Candidate(s, main[i], i)]
        ELSE LET pool == after[n - 1]
                 offset == Len(main) + IF supplements[n].afterPool THEN Len(pool) ELSE 0
             IN  AddRows(s, pool, supplements[n].rows, offset)
  IN  after[Len(supplements)]

\* A row goes behind those that are as good.
Inserted(row, sorted) ==
  LET n == Cardinality({i \in DOMAIN sorted :
             \/ sorted[i].score > row.score
             \/ sorted[i].score = row.score /\ sorted[i].rank <= row.rank})
  IN  SubSeq(sorted, 1, n) \o <<row>> \o SubSeq(sorted, n + 1, Len(sorted))

InOrder(pool) ==
  LET to[n \in 0 .. Len(pool)] == IF n = 0 THEN <<>> ELSE Inserted(pool[n], to[n - 1])
  IN  to[Len(pool)]

FirstWhere(pool, P(_)) == LET i == SelectInSeq(pool, P)
                          IN  IF i = 0 THEN <<>> ELSE <<pool[i]>>

ComplaintTrio(pool) ==
  FirstWhere(pool, LAMBDA c : c.host = "feb.gov.np" /\ {"fraud", "complaint"} \subseteq c.marks)
  \o FirstWhere(pool, LAMBDA c : /\ c.host = "feb.gov.np" /\ {"1141", "complaint"} \subseteq c.marks
                                 /\ "pdf" \notin c.marks)
  \o FirstWhere(pool, LAMBDA c : c.host \in {"dofe.gov.np", "feb.gov.np"} /\ "receipt" \in c.marks)

TwoContacts(s, pool) ==
  Upto(2, Concat([k \in 1 .. 3 |-> Picked(pool, {i \in DOMAIN pool :
    ContactPriority(s, pool[i]) = k - 1 /\ "pdf" \notin pool[i].marks})]))

\* A content page of the place about the topic.
BestSpecificLocal(s, pool) ==
  FirstWhere(pool, LAMBDA c : /\ Features(s, c).local
                              /\ StrongHit(s, c)
                              /\ "content" \in c.marks /\ "services list" \notin c.marks
                              /\ Features(s, c).coverage >= 50)

BestLocal(s, pool) ==
  FirstWhere(pool, LAMBDA c : Features(s, c).local /\ Features(s, c).coverage >= 50)

\* The best page of each domain of the topic's authority.
BestExpected(s, pool) ==
  Concat([i \in DOMAIN s.expected |->
    FirstWhere(pool, LAMBDA c : HostMatches(c.host, {s.expected[i]}))])

Priority(s, pool) ==
  (IF s.complaint THEN ComplaintTrio(pool) ELSE <<>>)
  \o (IF s.contact THEN TwoContacts(s, pool) ELSE <<>>)
  \o (IF s.here # {} THEN BestSpecificLocal(s, pool) ELSE <<>>)
  \o (IF s.here # {} /\ s.topic \in LOCAL_TACIT_STRICT_TOPICS \cup {None, "municipality_contact"}
      THEN BestLocal(s, pool) ELSE <<>>)
  \o BestExpected(s, pool)

\* One chunk per url, the first topK of them.
Select(list, topK) ==
  Upto(topK, Picked(list, {i \in DOMAIN list : \A j \in 1 .. i - 1 : list[j].url # list[i].url}))

Chosen(s, pool, topK) == Select(Priority(s, pool) \o pool, topK)

\* What follows the first statement of a search.
SearchResult(s, main, rows, copies, topK) ==
  LET extra(condition, list, afterPool) ==
        [rows |-> IF condition THEN list ELSE <<>>, afterPool |-> afterPool]
  IN  Chosen(s, InOrder(Pool(s, main,
        <<extra(TRUE, AuthorityRows(s, rows, copies, 8 * topK), FALSE),
          extra(s.here # {}, LocalRootRows(s, rows), TRUE),
          extra(s.contact, ContactRows(s, rows), FALSE),
          extra(s.complaint, ComplaintRows(rows, 12 * topK), TRUE)>>)), topK)

\* The direct way of a contact question that names a place.
ContactResult(s, rows, topK) ==
  Select(InOrder(Pool(s, DirectContactRows(s, rows, 8 * topK), <<>>)), topK)

-----------------------------------------------------------------------------
(* TacitRetriever.search.  A claim is a chunk with the topics its service  *)
(* is compatible with (services) and a confidence bump.                    *)

LOCALITY_QUERY_TERMS == {"jiri", "dharmadevi", "municipality"}

TacitScore(s, c) ==
  20 * Cardinality(s.terms \cap c.words)
  + 15 * Cardinality((s.terms \ LOCALITY_QUERY_TERMS) \cap c.words)
  + When(HostMatches(c.host, s.here), 50)
  + When(StrongHit(s, c), 25) + c.bump

TacitEligible(s, c) ==
  LET nonlocal == s.terms \ LOCALITY_QUERY_TERMS
  IN  /\ s.expected # <<>> /\ s.here = {} => c.host \notin LocalHosts
      /\ s.topic # None => s.topic \in c.services
      /\ s.topic \in LOCAL_TACIT_STRICT_TOPICS /\ s.here # {} => StrongHit(s, c)
      /\ s.terms \cap c.words # {}
      /\ nonlocal # {} => nonlocal \cap c.words # {}

\* Best score first, then the order in which the claims were loaded.
TacitResult(s, claims, topK) ==
  LET eligible == SelectSeq(claims, LAMBDA c : TacitEligible(s, c))
      order == SortSeq([i \in DOMAIN eligible |->
                          [at |-> i, c |-> eligible[i], score |-> TacitScore(s, eligible[i])]],
                       LAMBDA a, b : \/ a.score > b.score
                                     \/ a.score = b.score /\ a.at < b.at)
      result(list) == [i \in DOMAIN list |->
        [id |-> list[i].c.id, url |-> list[i].c.host, host |-> list[i].c.host,
         marks |-> list[i].c.strong, rank |-> i]]
  IN  Upto(topK, result(order))
=============================================================================
