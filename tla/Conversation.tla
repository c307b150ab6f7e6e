----------------------------- MODULE Conversation -----------------------------
(***************************************************************************)
(* A citizen talks to the helpdesk: /query and /query/stream of            *)
(* server/main.py with the client that sends the last turns along.  A turn *)
(* is one step: resolve the case, retrieve, filter, and go down the        *)
(* answers in order.  Both endpoints are computed from the same turn, for  *)
(* they are two texts of one procedure.  What the search finds and what    *)
(* the model writes is any member of a set.                                *)
(*                                                                         *)
(* The citizen is free (says anything) or cooperative: has a need, and     *)
(* answers what the last reply asked, all of it or one thing at a time.    *)
(***************************************************************************)
EXTENDS Answers

CONSTANTS Messages,    \* what a free citizen may begin with
          FollowUps,   \* and go on with
          Needs,       \* what a cooperative one wants: words for the slots
          Window,      \* the user turns of the six entries resolve_case reads
          Retrievals,  \* [claims, rows, up]: results of both searches
          Completions  \* what the model writes

\* The words that name a service; a need has one at most.
ServiceWords == {"nagarikta", "passport", "birth", "malpot"}

ASSUME WindowAssumption == Window \in Nat \ {0}
ASSUME NeedsAssumption ==
  \A need \in Needs : \A v, w \in need \cap ServiceWords : v = w

\* Both searches return lists; the one for claims numbers them, the one for
\* pages gives none twice, and each page has a url (main.py 1997, 2386).
ASSUME RetrievalsAssumption ==
  \A r \in Retrievals :
    /\ r.claims \in Seq(Range(r.claims)) /\ r.rows \in Seq(Range(r.rows))
    /\ \A i \in DOMAIN r.claims : r.claims[i].rank = i /\ r.claims[i].id # None
    /\ \A i, j \in DOMAIN r.claims : r.claims[i].id = r.claims[j].id => i = j
    /\ \A a \in Range(r.rows) : a.id # None /\ a.url # None
    /\ \A a, b \in Range(r.rows) : a.id = b.id \/ a.url = b.url => a = b
    /\ \A a \in Range(r.rows), c \in Range(r.claims) : a.id # c.id

ASSUME CompletionsAssumption ==
  \A d \in Completions : d = [script |-> d.script, cites |-> d.cites, second |-> d.second,
                         fails |-> d.fails]

VARIABLES
  citizen,   \* [style, need]; style "free", "all" or "one"
  past,      \* the user turns before the last one, at most Window
  unreplied, \* the last of them got no reply that the client could store
  last,      \* the last message
  found,     \* what was retrieved for it
  reply,     \* the answer of /query
  streamed   \* the last event of /query/stream

convVars == <<citizen, past, unreplied, last, found, reply, streamed>>

Silence == [words |-> {}, asks |-> FALSE, compact |-> TRUE, locationOnly |-> FALSE,
            sum |-> FALSE, identity |-> FALSE, refers |-> FALSE, recheck |-> FALSE,
            lang |-> "english"]

NoReply == [kind |-> "silence", asked |-> {}, sources |-> <<>>, citations |-> {},
            foreign |-> FALSE, planner |-> None]
Pending == [NoReply EXCEPT !.kind = "pending"]

-----------------------------------------------------------------------------
(* The question that topics, rules, gate and prompt read.                  *)

\* _history_without_current_turn: the last user turn is dropped if it is the
\* question and no reply of the assistant stands after it.
HistoryWithoutCurrentTurn(history, bare, msg) ==
  IF bare /\ history # <<>> /\ Last(history) = msg THEN Front(history) ELSE history

LastUserQuestion(history) == IF history = <<>> THEN {} ELSE Last(history).words

NeedsHistoryForRetrieval(msg) ==
  /\ DetectRetrievalTopic(msg.words) = None
  /\ DetectLocalDomains(msg.words) = {}
  /\ msg.recheck \/ msg.refers

PromptQuestion(msg, history, frame) ==
  LET previous == LastUserQuestion(history)
  IN  IF previous = {} THEN msg.words
      ELSE IF msg.recheck THEN previous
      ELSE IF frame.contextual \/ NeedsHistoryForRetrieval(msg) THEN previous \cup msg.words
      ELSE msg.words

-----------------------------------------------------------------------------
(* The model's answer and the guard of its script.                         *)

\* Citations by source number, [S1], not by url.
CitesBySourceId(draft) == \E cite \in draft.cites : cite.url = None

\* _repair_answer_language_with_composer: a second generation, for English
\* drafts that cite a source number, if it comes out in the right script.
Repaired(draft, lang) ==
  IF lang = "english" /\ CitesBySourceId(draft) /\ draft.second = "latin"
  THEN [draft EXCEPT !.script = "latin"] ELSE draft

Mismatch(draft, lang) == lang # "devanagari" /\ draft.script = "devanagari"

\* _guard_answer_language: romanize what cites a source number, or say that
\* there is a source.
Guard(draft, lang, claims, rows) ==
  IF ~Mismatch(draft, lang) THEN draft
  ELSE IF lang = "roman_nepali" /\ CitesBySourceId(draft) THEN [draft EXCEPT !.script = "latin"]
  ELSE [draft EXCEPT !.script = "latin", !.cites =
                   LET s == Sources(claims, rows)
                   IN  IF s = <<>> THEN {} ELSE {CiteRank(1, [id |-> s[1].id])}]

Generated(draft, lang, claims, rows) ==
  IF draft.fails THEN [kind |-> "error", cites |-> {}, foreign |-> FALSE]
  ELSE LET d == Guard(Repaired(draft, lang), lang, claims, rows)
       IN  [kind |-> "generated", cites |-> d.cites, foreign |-> Mismatch(d, lang)]

-----------------------------------------------------------------------------
(* The two endpoints.                                                      *)

\* The first rule of the chain that answers, in /query and in /query/stream.
FirstAnswer(answers) == LET i == SelectInSeq(answers, LAMBDA a : a # NoAnswer)
                        IN  IF i = 0 THEN NoAnswer ELSE answers[i]

QueryRules(q, t, claims, rows, lang) ==
  FirstAnswer(<<
    ForeignEmploymentComplaintRule(q, t, rows, lang), ServiceRule(q, t, rows),
    PassportFeeRule(q, t, rows), PassportRenewalRule(q, t, rows),
    PassportApplyRule(q, t, rows), PanRegistrationRule(q, t, rows),
    DrivingLicenseRule(q, t, rows), CompanyRegistrationRule(q, t, rows),
    NationalIdRule(q, t, rows), PoliceClearanceRule(q, t, rows),
    CitizenshipDuplicateRule(q, t, rows), CitizenshipPracticalRule(q, t, claims, rows),
    CitizenshipCertificateRule(q, t, rows), LocalEventServiceRule(q, t, rows),
    MunicipalityContactRule(q, t, rows), GenericContactRule(q, t, rows),
    TacitMunicipalityRule(q, t, claims)>>)

StreamRules(q, t, claims, rows, lang) ==
  FirstAnswer(<<
    ForeignEmploymentComplaintRule(q, t, rows, lang), ServiceRule(q, t, rows),
    PassportFeeRule(q, t, rows), PassportRenewalRule(q, t, rows),
    PassportApplyRule(q, t, rows), PanRegistrationRule(q, t, rows),
    DrivingLicenseRule(q, t, rows), CompanyRegistrationRule(q, t, rows),
    NationalIdRule(q, t, rows), PoliceClearanceRule(q, t, rows),
    CitizenshipDuplicateRule(q, t, rows), CitizenshipPracticalRule(q, t, claims, rows),
    CitizenshipCertificateRule(q, t, rows), LocalEventServiceRule(q, t, rows),
    MunicipalityContactRule(q, t, rows), GenericContactRule(q, t, rows),
    TacitMunicipalityRule(q, t, claims)>>)

Plain(kind, asked) == [NoReply EXCEPT !.kind = kind, !.asked = asked]
Unplanned(r) == [kind |-> r.kind, asked |-> r.asked, sources |-> r.sources,
                 citations |-> r.citations, foreign |-> FALSE, planner |-> None]
With(answer, claims, rows) == Unplanned(Response(answer, claims, rows))
Asking(frame, claims, rows) ==
  [With([kind |-> "followup", cites |-> {}], claims, rows)
     EXCEPT !.asked = FollowupAnswer(frame).asked]

\* The case of a message, and what both endpoints know once the searches are
\* back and filtered.
Understood(msg, frame, q) ==
  [frame |-> frame, q |-> q, topic |-> DetectRetrievalTopic(q), lang |-> msg.lang,
   planner |-> PlannerContract(frame), followup |-> FollowupAnswer(frame)]

InFrame(msg, h, frame) == Understood(msg, frame, PromptQuestion(msg, h, frame))

CaseAfter(msg, h) == InFrame(msg, h, ResolveCase(msg, h))

Case(msg, history, bare) == CaseAfter(msg, HistoryWithoutCurrentTurn(history, bare, msg))

FactsOver(c, r, rows) ==
  [frame |-> c.frame, q |-> c.q, topic |-> c.topic, lang |-> c.lang,
   planner |-> c.planner, followup |-> c.followup,
   claims |-> FilterTacitResults(c.frame, r.claims), rows |-> rows, up |-> r.up,
   noPlace |-> ShouldForceNoSourceForLocation(c.frame, rows)]

Facts(c, r) == FactsOver(c, r, FilterGovResults(c.frame, r.rows))

\* query: what is settled before the model is called, given the interview's
\* answer and that of the rules.
NoPlace == [kind |-> "no_place", cites |-> {}]
NoSource == [kind |-> "no_source", cites |-> {}]

QueryOrder(msg, f, claims, rows, practical, rule) ==
  LET early == f.frame.memoryOnly \/ "service" \in f.planner.missing
  IN  IF msg.identity THEN Plain("identity", {})
      ELSE IF f.frame.offDomain THEN Plain("off_domain", {})
      ELSE IF f.followup.kind # None /\ early THEN Plain(f.followup.kind, f.followup.asked)
      ELSE IF ~f.up /\ claims = <<>> /\ rows = <<>> THEN Plain("unavailable", {})
      ELSE IF f.noPlace THEN With(NoPlace, claims, <<>>)
      ELSE IF f.followup.kind # None THEN Asking(f.frame, claims, rows)
      ELSE IF practical # NoAnswer THEN With(practical, claims, rows)
      ELSE IF ~RetrievalPasses(f.q, f.topic, claims, rows) THEN With(NoSource, claims, rows)
      ELSE IF rule # NoAnswer THEN With(rule, claims, rows)
      ELSE Plain("generate", {})

Query(msg, f) ==
  QueryOrder(msg, f, f.claims, f.rows, CitizenshipPracticalRule(f.q, f.topic, f.claims, f.rows),
             QueryRules(f.q, f.topic, f.claims, f.rows, f.lang))

\* query_stream, before its retrieval.
StreamEarly(msg, f) ==
  LET early == IF f.frame.memoryOnly \/ "service" \in f.planner.missing
               THEN f.followup.kind ELSE None
  IN  CASE msg.identity -> Plain("identity", {})
        [] ~msg.identity /\ f.frame.offDomain -> Plain("off_domain", {})
        [] ~msg.identity /\ ~f.frame.offDomain /\ early # None ->
             Plain(f.followup.kind, f.followup.asked)
        [] OTHER -> Plain(None, {})

\* It computes every answer it could give, and its events pick one.
StreamOrder(msg, f, claims, rows, early, practical, rule) ==
  IF early.kind # None THEN early
  ELSE IF ~f.up /\ claims = <<>> /\ rows = <<>> THEN Plain("unavailable", {})
  ELSE IF f.noPlace THEN With(NoPlace, claims, <<>>)
  ELSE IF ~f.noPlace /\ f.followup.kind # None THEN Asking(f.frame, claims, rows)
  ELSE IF practical # NoAnswer THEN With(practical, claims, rows)
  ELSE IF ~RetrievalPasses(f.q, f.topic, claims, rows) THEN With(NoSource, claims, rows)
  ELSE IF rule # NoAnswer THEN With(rule, claims, rows)
  ELSE Plain("generate", {})

Stream(msg, f) ==
  StreamOrder(msg, f, f.claims, f.rows, StreamEarly(msg, f),
              CitizenshipPracticalRule(f.q, f.topic, f.claims, f.rows),
              StreamRules(f.q, f.topic, f.claims, f.rows, f.lang))

\* The model is called, or not, and the response gets the planner's decision;
\* who asks for the assistant's identity is not planned for.
Finish(decided, f, draft) ==
  LET g == Generated(draft, f.lang, f.claims, f.rows)
  IN  CASE decided.kind \in {"identity", "unavailable"} -> decided
        [] decided.kind = "generate" /\ g.kind = "error" -> Plain("error", {})
        [] decided.kind = "generate" /\ g.kind # "error" ->
             [With(g, f.claims, f.rows) EXCEPT !.foreign = g.foreign,
                                               !.planner = f.planner.decision]
        [] OTHER -> [decided EXCEPT !.planner = f.planner.decision]

\* The stream guards the whole draft before the first token of it is sent; a
\* failure is an event, not a status.
StreamFinish(decided, f, draft) ==
  LET fixed == Guard(Repaired(draft, f.lang), f.lang, f.claims, f.rows)
      answer == With([kind |-> "generated", cites |-> fixed.cites], f.claims, f.rows)
  IN  IF decided.kind = "generate"
      THEN IF draft.fails THEN Plain("error", {})
           ELSE [answer EXCEPT !.foreign = Mismatch(fixed, f.lang),
                               !.planner = f.planner.decision]
      ELSE IF decided.kind \in {"identity", "unavailable"} THEN decided
           ELSE [decided EXCEPT !.planner = f.planner.decision]

-----------------------------------------------------------------------------
(* Turns.                                                                  *)

NothingFound == [claims |-> <<>>, rows |-> <<>>, up |-> TRUE]

ConversationInit ==
  /\ citizen \in [style : {"free"}, need : {Silence.words}]
                 \cup [style : {"all", "one"}, need : Needs]
  /\ past = <<>> /\ unreplied = FALSE /\ last = Silence
  /\ found = NothingFound
  /\ reply = NoReply /\ streamed = NoReply

\* The client's list: the last Window user turns.
Remember(history, msg) ==
  IF msg = Silence THEN history
  ELSE LET all == Append(history, msg)
       IN  SubSeq(all, Max({1, Len(all) - Window + 1}), Len(all))

\* The client posts a message with the turns before it.  A failed request
\* leaves a user turn without a reply in its list (Chat.tsx 341-353).
Post(msg) ==
  /\ past' = Remember(past, last)
  /\ unreplied' = (reply.kind \in {"error", "unavailable"})
  /\ last' = msg
  /\ found' = NothingFound /\ reply' = Pending /\ streamed' = Pending
  /\ UNCHANGED citizen

\* A free citizen says anything, as long as the window is not full.
Say(msg) == /\ citizen.style = "free" /\ reply # Pending
            /\ last = Silence \/ msg \in FollowUps
            /\ Len(Remember(past, last)) < Window
            /\ Post(msg)

\* The server answers, by either endpoint.
Serve ==
  /\ reply = Pending
  /\ \E c \in {Case(last, past, unreplied)}, r \in Retrievals : \E f \in {Facts(c, r)} :
       \E atOnce \in {Query(last, f)}, inEvents \in {Stream(last, f)}, d \in Completions :
         /\ found' = r
         /\ reply' = Finish(atOnce, f, d)
         /\ streamed' = StreamFinish(inEvents, f, d)
  /\ UNCHANGED <<citizen, past, unreplied, last>>

\* The words of the need that answer a slot.
SlotWords(slot) ==
  CASE slot = "service" -> ServiceWords
    [] slot = "municipality_or_district" -> {"jiri", "tanahu"}
    [] slot = "municipality_or_ward" -> {"jiri", "ward 5"}
    [] slot = "citizenship_case_type" -> {"naya", "child"}
    [] OTHER -> {"child"}

\* A cooperative citizen opens with the service and answers what is asked.
Opening == [Silence EXCEPT !.words = citizen.need \cap SlotWords("service"),
                           !.asks = TRUE]

AnswerTo(slots) ==
  [Silence EXCEPT !.words = citizen.need \cap UNION {SlotWords(s) : s \in slots}]

Cooperate ==
  /\ citizen.style # "free"
  /\ \/ last = Silence /\ Post(Opening)
     \/ /\ reply.kind = "followup" /\ reply.asked # {}
        /\ \E slots \in IF citizen.style = "all" THEN {reply.asked}
                        ELSE {{s} : s \in reply.asked} : Post(AnswerTo(slots))

ConversationNext ==
  (\E msg \in Messages \cup FollowUps : Say(msg)) \/ Serve \/ Cooperate

\* A cooperative citizen answers every question, and requests are served:
\* Serve is enabled as long as one is pending, so []<> of the others is its
\* weak fairness.
ConversationSpec == /\ ConversationInit /\ [][ConversationNext]_convVars
                    /\ []<>(reply # Pending) /\ WF_convVars(Cooperate)

-----------------------------------------------------------------------------
(* Properties.                                                             *)

\* Types of the conversation's state.
ConversationTypeOK ==
  /\ citizen.style \in {"free", "all", "one"}
  /\ Len(past) <= Window /\ unreplied \in BOOLEAN
  /\ reply.asked \subseteq Slots /\ streamed.asked \subseteq Slots
  /\ \A c \in reply.citations : c.rank \in 0 .. Len(reply.sources)

\* The two copies of the procedure (main.py 6302 and 6486) give the same
\* answer, questions, sources and citations to every turn.
EndpointsAgree == reply = streamed

\* What was filtered out of the claims, and urls that a claim shares with a
\* page (an interview's url is the root page of its office).
ClaimDropped ==
  \E c \in Range(found.claims) : c.id \notin Range(reply.sources)
SharedUrl(id) ==
  \E r \in Range(found.rows), c \in Range(found.claims) : r.id = id /\ r.url = c.url

\* Every citation a rule makes is listed and leads to the page or claim the
\* sentence quotes.  Two exceptions of the code: claims keep the number of
\* the search when an earlier one is filtered out (main.py 5607), and a url
\* that a claim shares is given to the claim.
CitationsNameTheirSource ==
  \A c \in reply.citations :
    reply.kind \notin {"generated", "tacit_municipality"} =>
      c.source = c.quotes \/ SharedUrl(c.quotes)

TacitCitationsNameTheirSource ==
  reply.kind = "tacit_municipality" /\ ~ClaimDropped =>
    reply.citations # {} /\ \A c \in reply.citations : c.source = c.quotes

\* The hosts of the places that a text names; the text of the turns that count.
HostsOf(text) ==
  LET munis == {m \in Range(Municipalities) : m \in text}
      districts == {d \in Range(Districts) : d \in text}
                   \cup {MunicipalityDistrict[m] : m \in munis}
  IN  {MunicipalityDomain[m] : m \in munis} \cup {DaoDomain[d] : d \in districts}

Spoken == HistoryText(past) \cup last.words
PlaceHosts == HostsOf(Spoken)

\* The office that a source is of.
HostIn(search, id) ==
  (CHOOSE r \in Range(search.rows) \cup Range(search.claims) : r.id = id).host

\* Once the citizen has named a place, no page or claim of the office of
\* another place is shown or cited (filter_gov_results_for_frame: "This
\* prevents a Tanahu DAO page from answering a Sankhuwasabha case").
OnlyNamedPlaces ==
  PlaceHosts # {} =>
    \A id \in Range(reply.sources) :
      IsLocalHost(HostIn(found, id)) => HostIn(found, id) \in PlaceHosts

\* The decision that the response reports (planner_decision) is what was done:
\* questions exactly if it says so, unless the search or the place failed; no
\* page is looked up for a sum or for a place alone.
AnswerFollowsPlan ==
  /\ reply.kind = "followup" => reply.planner = "partial_answer_plus_followup"
  /\ reply.planner = "partial_answer_plus_followup" => reply.kind \in {"followup", "no_place"}
  /\ reply.planner \in {"off_domain_light_answer", "ack_memory"} => reply.sources = <<>>

\* What the last message said is not asked for (planner_missing_slots),
\* except the age of a passport applicant: see SERVICE_EXTRA_SLOT_RULES.
Says(words, s) ==
  CASE s = "service" -> DetectService(words) \notin {None, "municipality_service"}
    [] s = "municipality_or_district" ->
         {DistrictFromText(words), MunicipalityFromText(words)} # {None}
    [] s = "municipality_or_ward" ->
         {MunicipalityFromText(words), WardFromText(words)} # {None}
    [] s = "citizenship_case_type" -> DetectCaseType("citizenship", words) # None
    [] OTHER -> FALSE

SaidIsNotAsked == \A s \in reply.asked : ~Says(last.words, s)

\* The topic's authority is among the first three pages of the search.
AuthorityFound ==
  \E i \in DOMAIN found.rows :
    i <= 3 /\ found.rows[i].host = IF "birth" \in citizen.need THEN "donidcr.gov.np"
                                   ELSE "moha.gov.np"

\* The prompt question is made of the last two messages (main.py 4208).
ServiceInSight ==
  citizen.need \cap ServiceWords \subseteq last.words \cup LastUserQuestion(past)

\* Who answers what is asked, and whose topic's authority was found, is
\* refused only when the service is out of sight of topic and gate, two
\* answers later; if all was answered at once, only when what was found is
\* moreover not all of high authority (main.py: _retrieval_passes).
RefusedOutOfSight ==
  /\ citizen.style # "free" /\ AuthorityFound /\ citizen.need \cap {"nagarikta", "birth"} # {}
  /\ reply.kind = "no_source"
  => /\ ~ServiceInSight
     /\ citizen.style = "all" => \E r \in Range(found.rows) : ~r.high

\* What the prompt says: a follow-up "fills missing case details. Answer the
\* original service case using the updated details".
SlotBySlotIsAnswered ==
  citizen.style # "free" /\ AuthorityFound /\ citizen.need \cap {"nagarikta", "birth"} # {}
    => reply.kind # "no_source"

\* An answer the model wrote is not in Devanagari when the citizen wrote in
\* Latin script (_answer_script_mismatch, _guard_answer_language).
ScriptIsKept == ~reply.foreign

\* An answer stands on what is shown with it, on both endpoints and in the
\* citizen's script: citations lead to what they quote, and nothing of another
\* place is shown.
AnswersAreGrounded ==
  /\ ConversationTypeOK /\ EndpointsAgree
  /\ CitationsNameTheirSource /\ TacitCitationsNameTheirSource
  /\ OnlyNamedPlaces /\ ScriptIsKept

\* The case is followed through its turns: the answer is what the plan says,
\* what was said is not asked again, and a case whose page is found is refused
\* only when its service is out of sight.
CaseIsFollowed == AnswerFollowsPlan /\ SaidIsNotAsked /\ RefusedOutOfSight

\* Whoever answers what is asked, at once or one thing at a time, is some day
\* asked no more, and by then the service that was asked for first is still
\* among the turns that resolve_case reads (navigator.py 692: the last six).
QuestionsEnd ==
  citizen.style # "free" =>
    <>[](/\ reply.kind \notin {"silence", "pending", "followup"}
         /\ citizen.need \cap SlotWords("service") \subseteq Spoken)
=============================================================================
