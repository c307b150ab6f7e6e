------------------------------- MODULE MCServer -------------------------------
(***************************************************************************)
(* The parts of the server that share no state, side by side: the model    *)
(* and its lock, the interviews with their administrator, and the outreach *)
(* to offices.  A behaviour belongs to one part; the others rest.          *)
(***************************************************************************)
EXTENDS Generation, Submissions, Outreach

CONSTANTS s1, s2, v1, q1, a1, a2, t1, t2

\* A query and two streams, and for whoever asks alone many drafts of up to
\* three sentences and two longer ones.
MCAlike == {<<"fact", "same fact">>, <<"same fact", "other fact">>}
MCSentences == {"fact", "same fact", "other fact", "refusal", "nepali"}
MCDrafts == {<<"refusal", "refusal", "nepali">>, <<"nepali">>}
MCAllDrafts ==
  MCDrafts \cup {<<"nepali", "refusal", "refusal", "fact">>,
                   <<"fact", "fact", "other fact", "fact", "refusal">>}
  \cup SeqOf(MCSentences, 2) \cup SeqOf({"fact", "same fact", "other fact", "refusal"}, 3)

\* Two uploads of one address, and two administrators, of whom one reloads.
MCSids == {s1, s2}
MCIpOf == [s \in MCSids |-> "ip"]

\* Drafts about a case that names a place, one that does not, and one about
\* a service of the district.
Question(words) == [words |-> words, sum |-> FALSE, asks |-> TRUE, locationOnly |-> FALSE, compact |-> FALSE]

MCAsked ==
  [lost |-> [question |-> Question({"nagarikta", "lost", "jiri"}), history |-> <<>>],
   fee |-> [question |-> Question({"passport", "fee"}), history |-> <<>>],
   dao |-> [question |-> Question({"nagarikta", "cdo"}),
            history |-> <<Question({"sankhuwasabha"})>>]]

Page(id, host, words, marks, phones) ==
  [id |-> id, url |-> id, host |-> host, words |-> words, marks |-> marks, strong |-> {},
   phones |-> phones]

Phone(number, role, named) == [number |-> number, role |-> role, named |-> named]

MCPages ==
  <<Page("passport staff", "nepalpassport.gov.np", {"passport", "phone"},
         {"contact page", "phone"},
         <<Phone(9, None, TRUE), Phone(8, "grievance", FALSE), Phone(7, "helpdesk", FALSE)>>),
    Page("jiri root", "jirimun.gov.np", {"jiri", "phone"}, {"root", "phone"},
         <<Phone(3, "mayor", TRUE), Phone(10, "information officer", TRUE)>>),
    Page("jiri contact", "jirimun.gov.np", {"jiri", "phone"}, {"contact page", "contact no"},
         <<Phone(4, "office contact", FALSE), Phone(3, "information officer", TRUE),
           Phone(2, "information officer", FALSE)>>),
    Page("moha", "moha.gov.np", {"nagarikta", "phone", "information officer"},
         {"contact page", "phone"}, <<Phone(1, "information officer", TRUE)>>),
    Page("dao", "daosankhuwasabha.moha.gov.np", {"cdo"}, {"contact page", "contact no"},
         <<Phone(6, "office contact", FALSE)>>)>>

VARIABLE part

serverVars == <<part, genVars, subVars, outreachVars>>

NobodyAsks == at = [r \in Requests |-> "absent"]

ServerInit ==
  /\ part \in {"generation", "interviews", "outreach"}
  /\ GenInit /\ (NobodyAsks <=> part # "generation")
  /\ SubInit /\ OutreachInit

\* What a step of one part leaves alone.
ButGeneration == <<part, subVars, outreachVars>>
ButInterviews == <<part, genVars, outreachVars>>
ButOutreach   == <<part, genVars, subVars>>

ServerNext ==
  \/ part = "generation" /\ GenNext /\ UNCHANGED ButGeneration
  \/ part = "interviews" /\ SubNext /\ UNCHANGED ButInterviews
  \/ part = "outreach" /\ OutreachNext /\ UNCHANGED ButOutreach

\* The fairness of GenSpec and SubSpec.
Handles(r)  == part = "generation" /\ Handle(r) /\ UNCHANGED ButGeneration
Works(r)    == part = "generation" /\ Work(r) /\ UNCHANGED ButGeneration
Receives(s) == part = "interviews" /\ Upload(s) /\ UNCHANGED ButInterviews
Answers(v)  == part = "interviews" /\ VoiceEnds(v) /\ UNCHANGED ButInterviews

\* The two are of different parts, so they can share a WF, and a query has no
\* worker.
Talks == (\E r \in Queries : Handles(r)) \/ \E v \in Voices : Answers(v)

ServerSpec ==
  /\ ServerInit /\ [][ServerNext]_serverVars
  /\ \A r \in Streams : WF_serverVars(Handles(r)) /\ WF_serverVars(Works(r))
  /\ WF_serverVars(Talks)
  /\ \A s \in Sids : SF_serverVars(Receives(s))
-----------------------------------------------------------------------------
(* main.py: every request to the model and every upload of an interview    *)
(* ends (AllAnswered, UploadsEnd), although the model serves one at a time *)
(* and a transcription holds the event loop, and nothing that was decided  *)
(* is decided again (DecisionIsFinal).                                     *)
RequestsComeToAnEnd == AllAnswered /\ UploadsEnd /\ DecisionIsFinal
=============================================================================
