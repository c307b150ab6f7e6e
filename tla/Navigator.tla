------------------------------ MODULE Navigator ------------------------------
(***************************************************************************)
(* server/navigator.py: the case a question and its conversation amount    *)
(* to.  A text is the SET of the words in it that some table of the code   *)
(* looks for; a word stands for all the spellings a table treats alike, in *)
(* the three languages.  Joining texts is union, and "the first entry of   *)
(* the table that the text has" is First over the table's order.           *)
(* A message is its words and what the regular expressions ask of its      *)
(* shape: a question mark, at most eight tokens, "I am from ...", a sum.   *)
(***************************************************************************)
EXTENDS Integers, Sequences, FiniteSets, FiniteSetsExt, SequencesExt, Picking

None == "none"

First(order, P(_)) == LET i == SelectInSeq(order, P)
                      IN  IF i = 0 THEN None ELSE order[i]

-----------------------------------------------------------------------------
(* The tables.  An entry <<x, w, n>> gives x the score n for the word w.   *)

Services == <<"citizenship", "passport", "national_id", "vital_registration",
              "pan_tax", "driving_license", "police_clearance",
              "foreign_employment", "land", "municipality_service">>

SERVICE_ALIASES ==
  {<<"citizenship", "nagarikta", 2>>, <<"passport", "passport", 2>>,
   <<"national_id", "national id", 4>>, <<"vital_registration", "birth", 4>>,
   <<"vital_registration", "marriage", 4>>, <<"pan_tax", "pan", 1>>,
   <<"driving_license", "license", 6>>, <<"police_clearance", "police", 4>>,
   <<"foreign_employment", "manpower", 2>>, <<"land", "malpot", 2>>,
   <<"municipality_service", "municipality", 2>>,
   <<"municipality_service", "municipality office", 2>>,
   <<"municipality_service", "ward 5", 1>>}

Actions == <<"complaint", "contact", "apply", "replace", "correct", "fee", "status">>

ACTION_ALIASES ==
  [complaint |-> {"ujuri"}, contact |-> {"phone", "mayor", "information officer"},
   apply |-> {"how to"}, replace |-> {"lost"}, correct |-> {"correct"},
   fee |-> {"fee"}, status |-> {"status"}]

CaseTypes == <<"first_time", "duplicate_lost", "correction", "minor">>

CITIZENSHIP_CASE_ALIASES ==
  [first_time |-> {"naya"}, duplicate_lost |-> ACTION_ALIASES.replace,
   correction |-> ACTION_ALIASES.correct, minor |-> {"child"}]

GOV_DOMAIN_HINTS ==
  {"nagarikta", "passport", "national id", "birth", "marriage", "pan", "license",
   "police", "malpot", "municipality", "municipality office", "ward 5", "cdo", "company",
   "phone", "mayor", "information officer", "documents", "office hours",
   "government office", "which office"}

GenericIntakeGov == {"government office"}
GenericIntakeUncertain == {"which office"}

SERVICE_AUTHORITY_DOMAINS ==
  [citizenship |-> {"moha.gov.np"}, passport |-> {"nepalpassport.gov.np"},
   national_id |-> {"donidcr.gov.np"}, vital_registration |-> {"donidcr.gov.np"},
   pan_tax |-> {"ird.gov.np"}, driving_license |-> {"dotm.gov.np"},
   police_clearance |-> {"nepalpolice.gov.np"},
   foreign_employment |-> {"dofe.gov.np", "feb.gov.np", "moless.gov.np"},
   land |-> {"dolma.gov.np"}, municipality_service |-> {}, none |-> {}]

Districts == <<"dolakha", "sankhuwasabha", "tanahu">>
Municipalities == <<"jiri", "khandbari", "dharmadevi">>
MunicipalityDomain == [jiri |-> "jirimun.gov.np", khandbari |-> "khandbarimun.gov.np",
                       dharmadevi |-> "dharmadevimun.gov.np", none |-> None]
MunicipalityDistrict == [jiri |-> "dolakha", khandbari |-> "sankhuwasabha",
                         dharmadevi |-> "sankhuwasabha", none |-> None]

\* dao_domain_for_district.
DaoDomain == [dolakha |-> "daodolakha.moha.gov.np",
              sankhuwasabha |-> "daosankhuwasabha.moha.gov.np",
              tanahu |-> "daotanahu.moha.gov.np", none |-> None]

DaoHosts == {DaoDomain[d] : d \in Range(Districts)}
AuthorityHosts == UNION {SERVICE_AUTHORITY_DOMAINS[s] : s \in DOMAIN SERVICE_AUTHORITY_DOMAINS}
LocalHosts == {MunicipalityDomain[m] : m \in Range(Municipalities)}

\* host_matches: the host is a domain of the list or below one, which among
\* the hosts of pages and claims only those of the DAOs are.
HostMatches(host, domains) ==
  host \in domains \/ (host \in DaoHosts /\ "moha.gov.np" \in domains)

-----------------------------------------------------------------------------
(* The detectors.                                                          *)

Score(table, x, text) ==
  MapThenSumSet(LAMBDA e : e[3], {e \in table : e[1] = x /\ e[2] \in text})

\* The best score; the earlier entry of the table wins a tie.
BestOf(order, table, text) ==
  LET sc == [i \in DOMAIN order |-> Score(table, order[i], text)]
      top == {i \in DOMAIN order : sc[i] > 0 /\ \A j \in DOMAIN order : sc[j] <= sc[i]}
  IN  IF top = {} THEN None ELSE order[Min(top)]

ContainsAny(text, words) == text \cap words # {}

\* A municipality is often the place and not the service, so a concrete
\* service with a score of 3 goes first; a mere hint of government is the
\* municipality's.
Concrete(text) ==
  {e \in SERVICE_ALIASES : /\ e[1] # "municipality_service"
                           /\ Score(SERVICE_ALIASES, e[1], text) >= 3}

ServiceOf(best, specific, text) ==
  IF best = "municipality_service" /\ specific # {} THEN BestOf(Services, specific, text)
  ELSE IF best # None THEN best
  ELSE IF ContainsAny(text, GOV_DOMAIN_HINTS) THEN "municipality_service"
  ELSE None

DetectService(text) ==
  ServiceOf(BestOf(Services, SERVICE_ALIASES, text), Concrete(text), text)

DetectAction(text) == First(Actions, LAMBDA a : ContainsAny(text, ACTION_ALIASES[a]))

DetectCaseType(service, text) ==
  IF service # "citizenship" THEN None
  ELSE First(CaseTypes, LAMBDA c : ContainsAny(text, CITIZENSHIP_CASE_ALIASES[c]))

DetectOffice(text) == IF "cdo" \in text THEN "dao" ELSE None

IsGenericIntakeRequest(text) == /\ ContainsAny(text, GenericIntakeGov)
                                /\ ContainsAny(text, GenericIntakeUncertain)

DistrictFromText(text) == First(Districts, LAMBDA d : d \in text)

MunicipalityFromText(text) == First(Municipalities, LAMBDA m : m \in text)

WardFromText(text) == IF "ward 5" \in text THEN "5" ELSE None

\* The first answer that is one, as Python's `or`.
Or(x, y) == IF x # None THEN x ELSE y

\* A compact answer that fills a location slot.
IsLocationAnswer(msg, district, muni, ward) ==
  /\ ~msg.asks
  /\ {district, muni, ward} # {None}
  /\ ~ContainsAny(msg.words, {"phone", "mayor", "information officer", "how to",
                              "fee", "documents", "what services"})
  /\ \/ msg.locationOnly
     \/ /\ msg.compact
        /\ muni # None => /\ DetectService(msg.words) \in {None, "municipality_service"}
                          /\ DetectAction(msg.words) = None

\* _history_text: the user's turns among the last entries the client sent.
HistoryText(history) == UNION {t.words : t \in Range(history)}

-----------------------------------------------------------------------------
(* resolve_case.                                                           *)

DaoServices == {"citizenship", "passport", "national_id"}

\* Mutant: the ward that was given does not count.
MissingSlotsWardless(f, generic, question) ==
  {s \in {"service", "municipality_or_district", "citizenship_case_type",
          "municipality_or_ward"} :
     CASE s = "service" -> f.service = None /\ ~f.offDomain /\ ~f.memoryOnly /\ generic
       [] s = "municipality_or_district" ->
            /\ f.service \in {"citizenship", "vital_registration"}
            /\ f.action \in {None, "apply"}
            /\ f.district = None /\ f.municipality = None
       [] s = "citizenship_case_type" ->
            f.service = "citizenship" /\ f.action \in {None, "apply"} /\ f.caseType = None
       [] s = "municipality_or_ward" ->
            /\ f.service = "citizenship" /\ f.action \in {None, "apply"}
            /\ f.district # None /\ f.municipality = None}

MissingSlots(f, generic, question) ==
  {s \in {"service", "municipality_or_district", "citizenship_case_type",
          "municipality_or_ward"} :
     CASE s = "service" ->
            /\ f.service = None /\ ~f.offDomain /\ ~f.memoryOnly
            /\ generic \/ ContainsAny(question.words, GOV_DOMAIN_HINTS)
       [] s = "municipality_or_district" ->
            /\ f.service \in {"citizenship", "vital_registration"}
            /\ f.action \in {None, "apply"}
            /\ f.district = None /\ f.municipality = None
       [] s = "citizenship_case_type" ->
            /\ f.service = "citizenship" /\ f.action \in {None, "apply"}
            /\ f.caseType = None
       [] s = "municipality_or_ward" ->
            /\ f.service = "citizenship" /\ f.action \in {None, "apply"}
            /\ f.district # None /\ f.municipality = None /\ f.ward = None}

ExpectedDomains(service, office, district, muni) ==
  (SERVICE_AUTHORITY_DOMAINS[service] \cup {MunicipalityDomain[muni]}
     \cup IF office = "dao" \/ service \in DaoServices THEN {DaoDomain[district]} ELSE {})
  \ {None}

\* What is read off the question first and then off all turns (both).
Detected(q, past, both) ==
  LET muni == Or(MunicipalityFromText(q), MunicipalityFromText(both))
  IN  [asked |-> DetectService(q), asksFor |-> DetectAction(q), before |-> DetectService(past),
       service |-> Or(DetectService(q), DetectService(both)),
       action |-> Or(DetectAction(q),
                     IF DetectService(q) # None THEN None ELSE DetectAction(both)),
       office |-> Or(DetectOffice(q), DetectOffice(both)),
       municipality |-> muni,
       district |-> Or(Or(DistrictFromText(q), DistrictFromText(both)),
                       MunicipalityDistrict[muni]),
       ward |-> Or(WardFromText(q), WardFromText(both))]

\* The message only names the place of the case that is being talked about.
Contextual(question, d) ==
  /\ d.before \notin {None, "municipality_service"}
  /\ d.asked \in {None, "municipality_service"} /\ d.asksFor = None
  /\ IsLocationAnswer(question, d.district, d.municipality, d.ward)

\* Who asks for a contact and names an office or a place asks the municipality.
ServiceAsked(service, action, d, office) ==
  IF /\ service = None /\ action = "contact"
     /\ {d.district, d.municipality, office} # {None}
  THEN "municipality_service" ELSE service

FrameOf(question, both, d, service, action, caseType, office, contextual) ==
  \* A sum is answered unless the question has a word of government in it.
  LET offDomain == question.sum /\ ~ContainsAny(question.words, GOV_DOMAIN_HINTS)
  IN  [service |-> service, action |-> action, caseType |-> caseType, office |-> office,
       district |-> d.district, municipality |-> d.municipality, ward |-> d.ward,
       resolved |-> both,
       expected |-> ExpectedDomains(service, office, d.district, d.municipality),
       offDomain |-> offDomain, contextual |-> contextual,
       memoryOnly |-> /\ service = None /\ ~offDomain
                      /\ {d.district, d.municipality, d.ward} # {None}
                      /\ question.locationOnly]

CaseTypeOf(service, first, both) ==
  Or(DetectCaseType(service, first), DetectCaseType(service, both))

\* A place told in answer: the service, the action and the office are those of
\* the turns before.
ContextualFrame(question, past, both, d) ==
  LET action == Or(DetectAction(past), DetectAction(both))
      office == Or(DetectOffice(past), d.office)
  IN  FrameOf(question, both, d, ServiceAsked(d.before, action, d, office), action,
              CaseTypeOf(d.before, past, both), office, TRUE)

\* Any other question; one that asks for the way in has no service yet.
DirectFrame(question, both, d, generic) ==
  LET intake == generic /\ d.service \in {None, "municipality_service"}
      service == IF intake THEN None ELSE d.service
      action == IF intake THEN None ELSE d.action
  IN  FrameOf(question, both, d, ServiceAsked(service, action, d, d.office), action,
              CaseTypeOf(service, question.words, both), d.office, FALSE)

WithMissing(frame, question) ==
  [f \in DOMAIN frame \cup {"missing"} |->
     IF f = "missing" THEN MissingSlots(frame, IsGenericIntakeRequest(question.words), question)
     ELSE frame[f]]

CaseOf(question, past, both, d) ==
  WithMissing(IF Contextual(question, d) THEN ContextualFrame(question, past, both, d)
              ELSE DirectFrame(question, both, d, IsGenericIntakeRequest(question.words)),
              question)

ResolveCase(question, history) ==
  LET past == HistoryText(history)
      both == past \cup question.words
  IN  CaseOf(question, past, both, Detected(question.words, past, both))

\* resolve_case's retrieval_query: the question with the words of its case.
SERVICE_QUERY_TERMS ==
  [citizenship |-> {"nagarikta"}, passport |-> {"passport"},
   national_id |-> {"national id", "nid appointment"},
   vital_registration |-> {"birth", "marriage", "event registration"},
   pan_tax |-> {"pan"}, driving_license |-> {"license"}, police_clearance |-> {"police"},
   foreign_employment |-> {"manpower"}, land |-> {"malpot"},
   municipality_service |-> {"municipality office"}, none |-> {}]

ACTION_QUERY_TERMS ==
  [contact |-> {"phone", "information officer"}, complaint |-> {"ujuri"},
   fee |-> {"fee"}, status |-> {"status"}]

\* _contact_role_query_terms.
ContactRoleQueryTerms(text) ==
  {First(<<"information officer", "mayor">>, LAMBDA w : w \in text)} \ {None}

RetrievalQuery(question, frame) ==
  question.words \cup SERVICE_QUERY_TERMS[frame.service]
    \cup (IF frame.action \in DOMAIN ACTION_QUERY_TERMS
          THEN ACTION_QUERY_TERMS[frame.action] ELSE {})
    \cup (IF frame.service = "municipality_service" /\ frame.action = "contact"
          THEN ContactRoleQueryTerms(frame.resolved) ELSE {})
    \cup (IF frame.office = "dao" THEN {"cdo"} ELSE {})
    \cup ({frame.district, frame.municipality, MunicipalityDomain[frame.municipality]}
          \cup (IF frame.office = "dao" \/ frame.service \in DaoServices
                THEN {DaoDomain[frame.district]} ELSE {}))
    \cup (IF frame.ward = None THEN {} ELSE {"ward 5"})

LocalDomains(frame) == {MunicipalityDomain[frame.municipality]} \ {None}

-----------------------------------------------------------------------------
(* The planner's contract and the answers it gives by itself.              *)

HasLocation(frame) == {frame.district, frame.municipality, frame.ward} # {None}

\* SERVICE_EXTRA_SLOT_RULES over the question and its history.
ExtraMissingSlots(frame) ==
  LET has(words) == ContainsAny(frame.resolved, words)
  IN  (IF frame.service = "passport" /\ has({"child"})
       THEN {"applicant_age_or_minor_context"} ELSE {})
      \cup
      (IF /\ ~HasLocation(frame)
          /\ \/ frame.service = "land" /\ has({"malpot"})
             \/ /\ frame.service = "municipality_service" /\ frame.action = "contact"
                /\ has({"phone", "mayor", "information officer"})
       THEN {"municipality_or_district"} ELSE {})

PlannerMissingSlots(frame) == frame.missing \cup ExtraMissingSlots(frame)

\* Mutant: the slots of SERVICE_EXTRA_SLOT_RULES are not looked at.
PlannerDecisionCoreSlots(frame) ==
  IF frame.offDomain THEN "off_domain_light_answer"
  ELSE IF frame.memoryOnly THEN "ack_memory"
  ELSE IF frame.missing # {} THEN "partial_answer_plus_followup"
  ELSE "retrieve_then_answer"

PlannerDecision(frame) ==
  IF frame.offDomain THEN "off_domain_light_answer"
  ELSE IF frame.memoryOnly THEN "ack_memory"
  ELSE IF PlannerMissingSlots(frame) # {} THEN "partial_answer_plus_followup"
  ELSE IF frame.action = "complaint" THEN "complaint_handoff_or_retrieve"
  ELSE IF frame.action = "contact" THEN "contact_handoff_or_retrieve"
  ELSE "retrieve_then_answer"

Slots == {"service", "municipality_or_district", "municipality_or_ward",
          "citizenship_case_type", "applicant_age_or_minor_context"}

\* planner_contract, as far as the answers depend on it.
PlannerContract(frame) == [decision |-> PlannerDecision(frame),
                           missing |-> PlannerMissingSlots(frame)]

\* followup_answer: None, a note of the place, or questions for the slots.
FollowupAnswer(frame) ==
  IF frame.memoryOnly THEN [kind |-> "memory", asked |-> {}]
  ELSE IF PlannerMissingSlots(frame) # {} THEN
         [kind |-> "followup", asked |-> PlannerMissingSlots(frame) \cap Slots]
  ELSE [kind |-> None, asked |-> {}]

-----------------------------------------------------------------------------
(* The filters of a frame.  A row is a retrieved page, a claim a record of *)
(* an interview; both have a host, None for a claim without an office.     *)

AllowedLocal(frame) == (LocalDomains(frame) \cup {DaoDomain[frame.district]}) \ {None}

IsLocalHost(host) == host \in DaoHosts \cup LocalHosts

FilterGovResults(frame, rows) ==
  IF AllowedLocal(frame) = {} THEN rows
  ELSE Picked(rows, {i \in DOMAIN rows :
         \/ HostMatches(rows[i].host, AllowedLocal(frame))
         \/ frame.action # "contact" /\ ~IsLocalHost(rows[i].host)})

FilterTacitResults(frame, claims) ==
  IF AllowedLocal(frame) = {} THEN claims
  ELSE Picked(claims, {i \in DOMAIN claims :
         IsLocalHost(claims[i].host) => HostMatches(claims[i].host, AllowedLocal(frame))})

IsContactIntent(frame) == frame.action = "contact" \/ frame.office = "dao"

ShouldForceNoSourceForLocation(frame, rows) ==
  LET expected == frame.expected \ SERVICE_AUTHORITY_DOMAINS[frame.service]
  IN  /\ AllowedLocal(frame) # {}
      /\ IsContactIntent(frame)
      /\ expected # {}
      /\ \A r \in Range(rows) : ~HostMatches(r.host, expected)
=============================================================================
