------------------------------- MODULE Answers -------------------------------
(***************************************************************************)
(* server/main.py: what is said to a question once pages and interview     *)
(* claims have been retrieved.  Seventeen rules each quote a retrieved     *)
(* page or claim when the question and the page have the words they look   *)
(* for; a gate refuses when the pages are not the topic's; only then the   *)
(* model writes.  An answer is its kind and the citations in it: a url, or *)
(* the number of a source.                                                 *)
(*                                                                         *)
(* A page is [id, url, host, marks, high]: marks are the markers its url,  *)
(* title and text have.  A claim is [id, url, host, marks, rank]; rank is  *)
(* what TacitRetriever.search numbered it.                                 *)
(***************************************************************************)
EXTENDS Navigator

-----------------------------------------------------------------------------
(* Topics.  The tables of main.py are not those of navigator.py.           *)

Topics == <<"passport", "citizenship", "pan_tax", "driving_license",
            "birth_registration", "national_id", "vital_registration",
            "company_registration", "foreign_employment", "consular", "land", "voter",
            "police", "banking", "municipality_contact", "municipality_hours",
            "municipality_location", "municipality_services">>

TOPIC_RULES ==
  {<<"passport", "passport", 2>>, <<"citizenship", "nagarikta", 2>>,
   <<"pan_tax", "pan", 1>>, <<"driving_license", "license", 4>>,
   <<"birth_registration", "birth", 2>>, <<"national_id", "national id", 6>>,
   <<"vital_registration", "marriage", 2>>, <<"vital_registration", "event registration", 4>>,
   <<"company_registration", "company", 2>>,
   <<"foreign_employment", "manpower", 2>>, <<"foreign_employment", "ujuri", 2>>,
   <<"consular", "embassy", 2>>, <<"land", "malpot", 2>>, <<"voter", "voter", 2>>,
   <<"police", "police", 4>>, <<"banking", "bank", 1>>,
   <<"municipality_contact", "phone", 2>>, <<"municipality_contact", "mayor", 2>>,
   <<"municipality_contact", "officer", 2>>,
   <<"municipality_contact", "information officer", 6>>,
   <<"municipality_hours", "office hours", 4>>,
   <<"municipality_location", "municipality office", 4>>,
   <<"municipality_services", "what services", 4>>}

LOCAL_TACIT_STRICT_TOPICS ==
  {"municipality_hours", "municipality_location", "municipality_services"}

DetectRetrievalTopic(text) == BestOf(Topics, TOPIC_RULES, text)

\* LOCALITY_DOMAIN_RULES knows two of the municipalities navigator.py knows;
\* a host in the text counts as well.
DetectLocalDomains(text) ==
  {MunicipalityDomain[m] : m \in text \cap {"jiri", "dharmadevi"}}
    \cup (text \cap (LocalHosts \cup DaoHosts \cup AuthorityHosts))

WantsComplaint(text) == "ujuri" \in text

\* A word stands for the others of its list: "embassy" for abroad, "welfare"
\* for death or insurance, "permit" for a labour permit.
AuthorityDomainsForQuery(topic, text) ==
  CASE topic = "passport" ->
         IF "qatar" \in text
         THEN <<"qa.nepalembassy.gov.np", "mofa.gov.np", "nepalpassport.gov.np">>
         ELSE IF "embassy" \in text THEN <<"mofa.gov.np", "nepalpassport.gov.np">>
         ELSE <<"nepalpassport.gov.np">>
    [] topic = "foreign_employment" ->
         IF WantsComplaint(text) THEN <<"dofe.gov.np", "feb.gov.np", "moless.gov.np">>
         ELSE IF "welfare" \in text THEN <<"feb.gov.np", "dofe.gov.np">>
         ELSE IF "permit" \in text THEN <<"dofe.gov.np", "feims.dofe.gov.np">>
         ELSE <<"dofe.gov.np", "feb.gov.np">>
    [] topic = "citizenship" -> <<"moha.gov.np">>
    [] topic = "pan_tax" -> <<"ird.gov.np">>
    [] topic = "driving_license" ->
         IF "pokhara" \in text
         THEN <<"tmolkaski.gandaki.gov.np", "dlo.gandaki.gov.np", "dotm.gov.np",
                "transportmanagement.gov.np">>
         ELSE <<"dotm.gov.np", "transportmanagement.gov.np">>
    [] topic \in {"birth_registration", "national_id", "vital_registration"} ->
         <<"donidcr.gov.np">>
    [] topic = "company_registration" -> <<"ocr.gov.np">>
    [] topic = "consular" -> <<"mofa.gov.np", "nepalconsular.gov.np">>
    [] topic = "land" -> <<"dolma.gov.np", "molcpa.gov.np">>
    [] topic = "voter" -> <<"election.gov.np">>
    [] topic = "police" -> <<"nepalpolice.gov.np">>
    [] topic = "banking" -> <<"nrb.org.np">>
    [] OTHER -> <<>>

\* _contact_query_role and _contact_query_wants_phone.
ContactRole(text) == First(<<"mayor", "information officer">>, LAMBDA w : w \in text)
WantsPhone(text) == "phone" \in text

\* EVENT_SUBTOPIC_MARKERS, _event_subtopic and _birth_registration_intent.
EventSubtopic(text) == First(<<"birth", "marriage">>, LAMBDA w : w \in text)
BirthRegistrationIntent(text) == EventSubtopic(text) = "birth"

-----------------------------------------------------------------------------
(* Answers and the pages they quote.                                       *)

NoRow == [id |-> None, url |-> None, host |-> None, marks |-> {}, high |-> FALSE]

NoAnswer == [kind |-> None, cites |-> {}]

\* A citation by url or by number, and the id of what the sentence quotes.
CiteUrl(row) == [url |-> row.url, rank |-> 0, quotes |-> row.id]
CiteRank(rank, row) == [url |-> None, rank |-> rank, quotes |-> row.id]

\* next((g for g in rows if its host is below a domain and it has a marker)).
FirstRow(rows, domains, marks) ==
  LET i == SelectInSeq(rows, LAMBDA r : /\ HostMatches(r.host, domains)
                                        /\ r.marks \cap marks # {})
  IN  IF i = 0 THEN NoRow ELSE rows[i]

FirstRowOf(rows, domains) ==
  LET i == SelectInSeq(rows, LAMBDA r : HostMatches(r.host, domains))
  IN  IF i = 0 THEN NoRow ELSE rows[i]

OrRow(r, s) == IF r # NoRow THEN r ELSE s

\* The cited pages, a set; a row that was not found cites nothing.
Answer(kind, rows) == [kind |-> kind, cites |-> {CiteUrl(r) : r \in rows \ {NoRow}}]

AnswerIf(condition, kind, rows) == IF condition THEN Answer(kind, rows) ELSE NoAnswer

-----------------------------------------------------------------------------
(* The rules, each over the prompt's question q and its topic.             *)

ServiceAnswer(q, topic, here, national, local) ==
  AnswerIf(/\ topic \in {"birth_registration", "vital_registration"}
           /\ here # {} /\ BirthRegistrationIntent(q) /\ national # NoRow,
           "service",
           {national, IF "ward services" \in local.marks THEN local ELSE NoRow})

ServiceRule(q, topic, rows) ==
  LET here == DetectLocalDomains(q)
  IN  ServiceAnswer(q, topic, here, FirstRow(rows, {"donidcr.gov.np"}, {"birth procedure"}),
        OrRow(FirstRow(rows, here, {"ward services"}), FirstRowOf(rows, here)))

PoliceClearanceRule(q, topic, rows) ==
  LET source == FirstRow(rows, {"nepalpolice.gov.np"}, {"clearance"})
  IN  AnswerIf(topic = "police" /\ "police" \in q /\ source # NoRow,
               "police", {source})

PassportFeeRule(q, topic, rows) ==
  LET source == FirstRow(rows, {"nepalpassport.gov.np"}, {"fee"})
  IN  AnswerIf(topic = "passport" /\ "fee" \in q /\ source # NoRow,
               "passport_fee", {source})

PassportRenewalRule(q, topic, rows) ==
  LET online == FirstRow(rows, {"nepalpassport.gov.np"}, {"pre-enrolment"})
      normal == FirstRow(rows, {"nepalpassport.gov.np"}, {"district office"})
  IN  AnswerIf(/\ topic = "passport" /\ "renew" \in q /\ "fee" \notin q
               /\ {online, normal} # {NoRow},
               "passport_renewal", {OrRow(online, normal), OrRow(normal, online)})

PassportApplyRule(q, topic, rows) ==
  LET source == FirstRow(rows, {"nepalpassport.gov.np"}, {"pre-enrolment"})
  IN  AnswerIf(/\ topic = "passport" /\ "how to" \in q
               /\ ~ContainsAny(q, {"fee", "renew", "lost", "status"})
               /\ source # NoRow,
               "passport_apply", {source})

PanRegistrationRule(q, topic, rows) ==
  LET source == FirstRow(rows, {"ird.gov.np"}, {"pan papers"})
  IN  AnswerIf(topic = "pan_tax" /\ "pan" \in q /\ source # NoRow, "pan", {source})

DrivingLicenseRule(q, topic, rows) ==
  LET dotm == {"dotm.gov.np"}
      source == FirstRow(rows, dotm, {"license system", "age"})
  IN  AnswerIf(topic = "driving_license" /\ "license" \in q /\ source # NoRow,
               "driving_license",
               {source, OrRow(FirstRow(rows, dotm, {"age"}), source),
                OrRow(FirstRow(rows, dotm, {"retrial"}), source),
                OrRow(FirstRow(rows, dotm, {"original papers"}), source)})

CompanyRegistrationRule(q, topic, rows) ==
  LET source == FirstRow(rows, {"ocr.gov.np"}, {"e-services"})
  IN  AnswerIf(topic = "company_registration" /\ "company" \in q /\ source # NoRow,
               "company", {source})

NationalIdRule(q, topic, rows) ==
  LET pre == FirstRow(rows, {"donidcr.gov.np"}, {"nid appointment"})
      method == FirstRow(rows, {"donidcr.gov.np"}, {"nid form"})
      check == FirstRow(rows, {"donidcr.gov.np"}, {"nid number"})
  IN  AnswerIf(/\ topic = "national_id" /\ "national id" \in q
               /\ {pre, method} # {NoRow},
               "national_id", {OrRow(pre, method), OrRow(method, pre), check})

CitizenshipDuplicateRule(q, topic, rows) ==
  LET source == FirstRow(rows, {"moha.gov.np"}, {"duplicate"})
  IN  AnswerIf(topic = "citizenship" /\ "lost" \in q /\ source # NoRow,
               "citizenship_duplicate", {source})

\* The interview note, while no official page describes the duplicate.  The
\* best claim by what it speaks of, the earlier one in a tie, by its place
\* in the list it was given in.
PracticalPriority(claim) ==
  LET p == SelectInSeq(<<"nagarikta sifarish", "ward counter", "sifarish", "citizenship">>,
                       LAMBDA w : w \in claim.marks)
  IN  IF p = 0 THEN 5 ELSE p - 1

CitizenshipPracticalRule(q, topic, claims, rows) ==
  LET about == {i \in DOMAIN claims :
                  claims[i].marks \cap {"citizenship", "sifarish", "nagarikta sifarish"} # {}}
      best == {i \in about : \A j \in about :
                 \/ PracticalPriority(claims[i]) < PracticalPriority(claims[j])
                 \/ /\ PracticalPriority(claims[i]) = PracticalPriority(claims[j])
                    /\ i <= j}
  IN  IF /\ topic = "citizenship" /\ "lost" \in q /\ about # {}
         /\ CitizenshipDuplicateRule(q, topic, rows) = NoAnswer
      THEN LET i == CHOOSE i \in best : TRUE
           IN  [kind |-> "citizenship_practical", cites |-> {CiteRank(i, claims[i])}]
      ELSE NoAnswer

CitizenshipCertificateRule(q, topic, rows) ==
  LET national == FirstRowOf(rows, {"moha.gov.np"})
  IN  AnswerIf(/\ topic = "citizenship" /\ "nagarikta" \in q /\ "lost" \notin q
               /\ national # NoRow,
               "citizenship_certificate", {national})

\* The local page of the event, if fields of the service can be read off it.
LocalEventServiceRule(q, topic, rows) ==
  LET here == DetectLocalDomains(q)
      local == FirstRow(rows, here, {EventSubtopic(q)})
  IN  AnswerIf(/\ topic = "vital_registration" /\ here # {}
               /\ EventSubtopic(q) # None
               /\ "fields" \in local.marks,
               "local_event", {local})

ForeignEmploymentComplaintRule(q, topic, rows, lang) ==
  LET all == {r.host : r \in Range(rows)}
      complaint == FirstRow(rows, all, {"complaint office"})
      helplines == {i \in DOMAIN rows : "1141" \in rows[i].marks}
      firstTwo == {i \in helplines : Cardinality({j \in helplines : j < i}) < 2}
      dao == FirstRow(rows, all, {"district complaint"})
  IN  AnswerIf(/\ lang = "english" /\ topic = "foreign_employment" /\ WantsComplaint(q)
               /\ \/ {complaint, dao} # {NoRow}
                  \/ helplines # {},
               "foreign_employment",
               {complaint, dao} \cup {rows[i] : i \in firstTwo})

\* An officials page of the municipality (with the role asked for, if any,
\* then the one that names the information officer, and more roles before
\* fewer) and its phone page.
Roles(r) == r.marks \cap {"mayor", "information officer"}

OfficialsBefore(r, s, role) ==
  \/ role \in Roles(r) /\ role \notin Roles(s)
  \/ /\ role \in Roles(r) <=> role \in Roles(s)
     /\ Cardinality(Roles(r)) > Cardinality(Roles(s))

BestOfficials(rows, here, role) ==
  LET listing == {i \in DOMAIN rows : HostMatches(rows[i].host, here) /\ Roles(rows[i]) # {}}
      best == {i \in listing : \A j \in listing :
                 \/ OfficialsBefore(rows[i], rows[j], role)
                 \/ ~OfficialsBefore(rows[j], rows[i], role) /\ i <= j}
  IN  IF best = {} THEN NoRow ELSE rows[CHOOSE i \in best : TRUE]

ContactAnswer(phone, role, official, contact) ==
  IF role # None /\ official # NoRow /\ role \notin Roles(official) THEN NoAnswer
  ELSE IF phone /\ contact # NoRow THEN Answer("municipality_contact", {contact})
  ELSE IF official = NoRow THEN NoAnswer
  ELSE IF role # None THEN Answer("municipality_contact", {official})
  ELSE Answer("municipality_contact", {official, contact})

MunicipalityContactRule(q, topic, rows) ==
  LET here == DetectLocalDomains(q)
      role == ContactRole(q)
  IN  IF topic # "municipality_contact" \/ here = {} THEN NoAnswer
      ELSE ContactAnswer(WantsPhone(q), role,
             BestOfficials(rows, here, IF role # None THEN role ELSE "information officer"),
             FirstRow(rows, here, {"contact no"}))

GenericContactAt(q, topic, rows, here) ==
  AnswerIf(/\ topic = "municipality_contact" /\ ContactRole(q) = None
           /\ \E r \in Range(rows) : HostMatches(r.host, here),
           "generic_contact",
           {OrRow(FirstRow(rows, here, {"contact no", "email"}), FirstRowOf(rows, here))})

GenericContactRule(q, topic, rows) ==
  GenericContactAt(q, topic, rows,
    IF DetectLocalDomains(q) # {} THEN DetectLocalDomains(q)
    ELSE {r.host : r \in {s \in Range(rows) : IsLocalHost(s.host)}})

\* Claims of the municipality's office, cited by the number the search gave
\* them: two for the opening hours, one for the other topics.
TacitMunicipalityRule(q, topic, claims) ==
  LET selected == {i \in DOMAIN claims : topic \in claims[i].marks}
      choice == {i \in selected : "first choice" \in claims[i].marks}
      before(i) == {j \in selected : IF i \in choice THEN j \in choice /\ j < i
                                     ELSE j \in choice \/ j < i}
      room == IF topic = "municipality_hours" THEN 2 ELSE 1
  IN  IF /\ topic \in LOCAL_TACIT_STRICT_TOPICS /\ DetectLocalDomains(q) # {}
         /\ selected # {}
      THEN [kind |-> "tacit_municipality",
            cites |-> {CiteRank(claims[i].rank, claims[i]) :
                         i \in {k \in selected : Cardinality(before(k)) < room}}]
      ELSE NoAnswer

-----------------------------------------------------------------------------
(* _assess_retrieval_quality.                                              *)

RetrievalPasses(q, topic, claims, rows) ==
  LET expected == Range(AuthorityDomainsForQuery(topic, q))
  IN  IF rows = <<>> THEN claims # <<>>
      ELSE IF topic = None /\ DetectLocalDomains(q) # {} THEN FALSE
      ELSE IF /\ claims # <<>> /\ topic \in LOCAL_TACIT_STRICT_TOPICS
              /\ DetectLocalDomains(q) # {} THEN TRUE
      ELSE IF expected # {} THEN \E i \in DOMAIN rows : i <= 3 /\ HostMatches(rows[i].host, expected)
      ELSE rows[1].high

-----------------------------------------------------------------------------
(* The sources of a response and what its citations resolve to.            *)

\* _build_source_out: the claims first, numbered from 1.
Sources(claims, rows) ==
  [i \in DOMAIN claims |-> [id |-> claims[i].id, url |-> claims[i].url, host |-> claims[i].host]]
  \o [i \in DOMAIN rows |-> [id |-> rows[i].id, url |-> rows[i].url, host |-> rows[i].host]]

\* Mutant: a known root page counts as a bare host.
RepairUrlAlways(url, known) ==
  LET same == SelectInSeq(known, LAMBDA k : k.host = url /\ k.url # None)
  IN  IF same = 0 THEN url ELSE known[same].url

\* _repair_citation_urls: a bare host becomes the first page known on it.
RepairUrl(url, known) ==
  LET same == SelectInSeq(known, LAMBDA k : k.host = url /\ k.url # None)
  IN  IF (\E k \in Range(known) : k.url = url) \/ same = 0 THEN url ELSE known[same].url

\* _replace_known_url_citations_with_source_refs: the first source that has
\* the url; 0 for a url that no source has.
RankOfUrl(url, sources) == SelectInSeq(sources, LAMBDA s : s.url = url)

\* A citation the response lists: the source it resolves to (None for a url
\* of the model's own), and what the sentence quoted.
Resolved(cite, rank, sources) ==
  [rank |-> rank, quotes |-> cite.quotes,
   source |-> IF rank \in DOMAIN sources THEN sources[rank].id ELSE None]

Resolve(cite, known, sources) ==
  Resolved(cite, IF cite.url = None THEN cite.rank
                 ELSE RankOfUrl(RepairUrl(cite.url, known), sources), sources)

\* Numbers that no source has, and bare hosts nobody knows, are not listed; c
\* is what the citation resolves to.
Listed(cite, c) ==
  c.source # None \/ (cite.url # None /\ cite.url \notin DaoHosts \cup LocalHosts)

ResponseOver(answer, known, sources) ==
  [kind |-> answer.kind, asked |-> {},
   sources |-> [i \in DOMAIN sources |-> sources[i].id],
   citations |-> UNION {{c \in {Resolve(d, known, sources)} : Listed(d, c)} :
                          d \in answer.cites}]

\* _build_query_response.
Response(answer, claims, rows) ==
  ResponseOver(answer, rows \o claims, Sources(claims, rows))
=============================================================================
