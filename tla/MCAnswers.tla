------------------------------- MODULE MCAnswers -------------------------------
(***************************************************************************)
(* The two halves of an answer, side by side: conversations over whatever  *)
(* a search may return (questions for every rule, follow-ups of every      *)
(* kind, pages of the right and of the wrong place, interview claims), and *)
(* the search over a corpus of national and local pages, with two threads  *)
(* that reindex, one crash, a page that comes later and one that leaves.   *)
(***************************************************************************)
EXTENDS Conversation, SearchIndex

-----------------------------------------------------------------------------
(* Conversations. *)

Ask(words) == [Silence EXCEPT !.words = words, !.asks = TRUE]
Tell(words) == [Silence EXCEPT !.words = words]

MCMessages ==
  {Ask({"nagarikta"}), Ask({"nagarikta", "how to", "naya", "jiri"}),
   Ask({"nagarikta", "lost", "dolakha"}), Ask({"passport", "fee"}),
   Ask({"passport", "renew"}), Ask({"passport", "how to"}), Ask({"pan", "how to"}),
   Ask({"license"}), Ask({"company"}), Ask({"national id", "how to"}),
   Ask({"police"}), Ask({"birth", "jiri"}), Ask({"marriage", "jiri"}),
   Ask({"manpower", "ujuri"}), Ask({"phone", "jiri"}), Ask({"mayor", "jiri"}),
   Ask({"phone", "tanahu", "cdo"}), Ask({"office hours", "jiri"}),
   Ask({"government office", "which office"}),
   [Tell({}) EXCEPT !.sum = TRUE], [Ask({}) EXCEPT !.identity = TRUE]}

MCFollowUps ==
  {[Tell({"jiri"}) EXCEPT !.locationOnly = TRUE], Tell({"tanahu"}),
   [Ask({"fee"}) EXCEPT !.refers = TRUE, !.lang = "roman_nepali"],
   [Tell({}) EXCEPT !.recheck = TRUE], Ask({"child"})}

MCNeeds == {{"nagarikta", "jiri", "naya"}, {"nagarikta", "tanahu", "ward 5", "child"},
            {"birth", "jiri"}, {"malpot", "tanahu"}}

Page(id, host, marks) ==
  [id |-> id, url |-> id, host |-> host, marks |-> marks, high |-> TRUE]

MoHA == Page("moha/rules", "moha.gov.np", {"duplicate"})
Dolakha == Page("dolakha/duplicate", "daodolakha.moha.gov.np", {"duplicate"})
Tanahu == Page("tanahu/contact", "daotanahu.moha.gov.np", {"email"})
Jiri == Page("jirimun.gov.np", "jirimun.gov.np", {"ward services", "mayor", "contact no"})
JiriEvents == Page("jiri/events", "jirimun.gov.np", {"marriage", "fields", "information officer"})
Dharmadevi == Page("dharmadevi/contact", "dharmadevimun.gov.np", {"contact no", "mayor"})
Passport == Page("passport/apply", "nepalpassport.gov.np", {"pre-enrolment"})
PassportFee == Page("passport/fee", "nepalpassport.gov.np", {"fee", "district office"})
Donidcr == Page("donidcr/birth", "donidcr.gov.np", {"birth procedure", "nid form", "nid number"})
National ==
  {<<Passport, PassportFee>>, <<Donidcr, Jiri>>, <<Donidcr, JiriEvents, Jiri>>,
   <<Page("ird", "ird.gov.np", {"pan papers"})>>,
   <<Page("dotm/a", "dotm.gov.np", {"age"}), Page("dotm/b", "dotm.gov.np", {"retrial"})>>,
   <<Page("ocr", "ocr.gov.np", {"e-services"})>>,
   <<Page("police", "nepalpolice.gov.np", {"clearance"})>>,
   <<Page("feb/a", "feb.gov.np", {"1141"}), Page("dofe/a", "dofe.gov.np", {"complaint office"})>>}
News == [Page("news", "mofa.gov.np", {}) EXCEPT !.high = FALSE]
Local ==
  {<<>>, <<MoHA, Jiri>>, <<Dolakha, Tanahu>>, <<Tanahu>>, <<Dharmadevi, JiriEvents, Jiri>>,
   <<News>>, <<News, MoHA>>}

Claim(id, host, marks, rank) ==
  [id |-> id, url |-> host, host |-> host, marks |-> marks, rank |-> rank]

ClaimLists ==
  {<<>>, <<Claim("c1", "jirimun.gov.np", {"municipality_hours", "sifarish"}, 1)>>,
   <<Claim("c2", "dharmadevimun.gov.np", {"municipality_hours", "citizenship"}, 1),
     Claim("c3", "jirimun.gov.np", {"municipality_hours", "first choice", "ward counter",
                                    "sifarish"}, 2)>>,
   <<Claim("c4", None, {"citizenship"}, 1),
     Claim("c5", "jirimun.gov.np", {"municipality_hours", "first choice"}, 2)>>}

MCRetrievals ==
  [claims : ClaimLists, rows : Local, up : {TRUE}]
  \cup [claims : {<<>>}, rows : National, up : {TRUE}]
  \cup {[claims |-> <<>>, rows |-> <<>>, up |-> FALSE]}

Draft(script, cites, second, fails) ==
  [script |-> script, cites |-> cites, second |-> second, fails |-> fails]
ByRank(n) == [url |-> None, rank |-> n, quotes |-> "model"]
ByUrl(u) == [url |-> u, rank |-> 0, quotes |-> "model"]

MCCompletions ==
  {Draft("latin", {ByRank(1), ByRank(9), ByUrl("jirimun.gov.np")}, "latin", FALSE),
   Draft("devanagari", {ByRank(1)}, "devanagari", FALSE),
   Draft("devanagari", {ByUrl("made/up")}, "latin", FALSE),
   Draft("latin", {}, "latin", TRUE)}
-----------------------------------------------------------------------------
(* The index. *)

Asked(words) == [NoQuestion EXCEPT !.words = words]

MCQuestions ==
  {Asked({"nagarikta", "lost"}), Asked({"nagarikta", "lost", "jiri"}), Asked({"passport", "fee"}),
   Asked({"passport", "how to"}), Asked({"passport", "embassy"}), Asked({"birth", "jiri"}),
   Asked({"manpower", "ujuri"}), Asked({"phone", "jiri"}), Asked({"mayor", "jiri"}),
   Asked({"national id"}), Asked({"police"}), Asked({"office hours", "jiri"}),
   Asked({"marriage", "jiri"}), Asked({"license", "pokhara"}), Asked({"passport", "qatar"}),
   Asked({"officer", "jiri"})}

Chunk(id, url, host, words, marks, strong) ==
  [id |-> id, url |-> url, host |-> host, words |-> words, marks |-> marks, strong |-> strong]

MCRows ==
  <<Chunk("jiri pdf", "jiri/a.pdf", "jirimun.gov.np",
          {"nagarikta", "lost", "birth", "marriage", "passport", "municipality office",
           "jiri", "fee"},
          {"pdf", "content"}, {}),
    Chunk("jiri citizenship", "jiri/citizenship", "jirimun.gov.np",
          {"nagarikta", "lost", "jiri"}, {"content"}, {"citizenship"}),
    Chunk("moha 1", "moha/duplicate", "moha.gov.np", {"nagarikta", "lost"},
          {"duplicate", "page"}, {"citizenship"}),
    Chunk("moha 2", "moha/duplicate", "moha.gov.np", {"nagarikta"}, {"page"}, {"citizenship"}),
    Chunk("jiri root", "jiri", "jirimun.gov.np",
          {"jiri", "phone", "mayor", "municipality office"},
          {"root", "mayor", "information officer", "phone"}, {"municipality_location"}),
    Chunk("jiri contact", "jiri/contact", "jirimun.gov.np", {"phone", "jiri"},
          {"contact page", "contact no", "email"}, {"municipality_contact"}),
    Chunk("jiri officer", "jiri/officer", "jirimun.gov.np",
          {"information officer", "jiri"}, {"information officer", "profile"},
          {"municipality_contact"}),
    Chunk("donidcr", "donidcr/birth", "donidcr.gov.np",
          {"birth", "event registration"}, {"registration page"}, {}),
    Chunk("jiri events", "jiri/events", "jirimun.gov.np", {"marriage", "birth", "jiri"},
          {"content"}, {"vital_registration"}),
    Chunk("jiri marriage", "jiri/marriage", "jirimun.gov.np", {"marriage", "jiri"},
          {"content"}, {"vital_registration"}),
    Chunk("jiri divorce", "jiri/divorce", "jirimun.gov.np", {"marriage", "jiri"},
          {"content"}, {"vital_registration"}),
    Chunk("nid", "donidcr/nid", "donidcr.gov.np", {"national id", "nid appointment"},
          {"national id page"}, {"national_id"}),
    Chunk("passport fee", "passport/fee", "nepalpassport.gov.np", {"passport", "fee"},
          {"fee", "fee table"}, {"passport"}),
    Chunk("mofa", "mofa/passport", "mofa.gov.np", {"passport", "embassy"},
          {"passport page", "gallery"}, {"passport"}),
    Chunk("qatar", "qatar/passport", "qa.nepalembassy.gov.np", {"passport", "qatar"},
          {"passport page"}, {"passport"}),
    Chunk("dotm", "dotm/license", "dotm.gov.np", {"license"}, {}, {"driving_license"}),
    Chunk("kaski", "kaski/license", "tmolkaski.gandaki.gov.np", {"license", "pokhara"}, {}, {}),
    Chunk("dao tanahu", "daotanahu/license", "daotanahu.moha.gov.np", {"license", "pokhara"},
          {}, {"driving_license"}),
    Chunk("feb fraud", "feb/fraud", "feb.gov.np", {"ujuri", "manpower", "complaint"},
          {"complaint", "fraud"}, {"foreign_employment"}),
    Chunk("feb 1141", "feb/1141", "feb.gov.np", {"1141", "complaint"},
          {"complaint", "1141"}, {"foreign_employment"}),
    Chunk("dofe", "dofe/receipt", "dofe.gov.np", {"receipt", "manpower"},
          {"receipt", "public important"}, {"foreign_employment"}),
    Chunk("police", "police/clearance", "nepalpolice.gov.np", {"police"},
          {"clearance"}, {"police"})>>

Interview(id, host, words, strong, services, bump) ==
  [id |-> id, host |-> host, words |-> words, strong |-> strong, services |-> services,
   bump |-> bump]

MCClaims ==
  <<Interview("dh 1", "dharmadevimun.gov.np", {"office hours", "municipality office"},
          {"municipality_hours"}, {"municipality_hours"}, 10),
    Interview("dh 2", "dharmadevimun.gov.np", {"office hours", "municipality office"},
          {"municipality_hours"}, {"municipality_hours", "municipality_location"}, 10),
    Interview("dh 3", "dharmadevimun.gov.np", {"office hours", "municipality office"},
          {"municipality_hours"}, {"municipality_hours"}, 0),
    Interview("jiri 1", "jirimun.gov.np", {"office hours", "nagarikta", "jiri"},
          {"municipality_hours"}, {"municipality_hours", "citizenship"}, -10),
    Interview("jiri 2", "jirimun.gov.np", {"office hours", "jiri"},
          {"municipality_hours"}, {"municipality_hours"}, -10)>>

-----------------------------------------------------------------------------
CONSTANT Parts      \* which halves the run checks

MCBoth == {"conversation", "index"}
MCConversationOnly == {"conversation"}

VARIABLE part       \* a behaviour belongs to one half

answersVars == <<part, convVars, indexVars>>

AnswersInit ==
  /\ part \in Parts
  /\ ConversationInit /\ (part # "conversation" => citizen.style = "free")
  /\ IndexInit

AnswersNext ==
  \/ part = "conversation" /\ ConversationNext /\ UNCHANGED <<part, indexVars>>
  \/ part = "index" /\ IndexNext /\ UNCHANGED <<part, convVars>>

\* The fairness of ConversationSpec; nobody has to search or to reindex.
AnswersSpec ==
  /\ AnswersInit /\ [][AnswersNext]_answersVars
  /\ []<>(reply # Pending)
  /\ WF_answersVars(part = "conversation" /\ Cooperate /\ UNCHANGED <<part, indexVars>>)
=============================================================================
