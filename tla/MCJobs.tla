-------------------------------- MODULE MCJobs --------------------------------
(***************************************************************************)
(* The long-running scripts that share no state, side by side: the jobs    *)
(* that append a row per item, the generators that fill buckets, and the   *)
(* review of drafts.  A behaviour belongs to one part; the others stay as  *)
(* they begin.                                                             *)
(***************************************************************************)
EXTENDS BatchJobs, QuotaJobs, Review

CONSTANT Sides      \* the parts of this instance

\* One of the three jobs that resume when asked stands for all of them: they
\* differ in their calls, whose results are the same (SeedJobsAreAlike).
MCJobs == AllJobs \ {AntiTemplate, RefusalQueries}
SeedJobsAreAlike ==
    \A j \in {AntiTemplate, RefusalQueries} : Results(j, 1) = Results(DistillGrounded, 1)

ASSUME SeedAssumption == SeedJobsAreAlike

\* The job whose comment promises a resumable state.
MCClassify == {ClassifyQuestions}

Pair(q, script, nepali, complete, cites, refuses) ==
    [question |-> q, script |-> script, nepali |-> nepali, complete |-> complete,
     cites |-> cites, refuses |-> refuses]
In(name, langs) == [job |-> name, langs |-> langs]

\* Two or three buckets each.
MCGenerators == {In("refusals", <<"english">>), In("anti_template", <<"roman_nepali", "english">>),
                 In("brief_qa", <<"devanagari", "roman_nepali", "english">>),
                 In("brief_qa", <<"roman_nepali">>),
                 In("mc", <<"roman_nepali", "english">>), In("terse", <<"roman_nepali">>)}
MCTopicPairs == <<"citizenship">>
MCAsked == {2, 3, 5}
\* Roman Nepali that passes as English too, an answer without a source, and a
\* pair in Devanagari.
MCPairs == {Pair("q1", "latin", TRUE, TRUE, TRUE, TRUE), Pair("q2", "latin", TRUE, TRUE, TRUE, TRUE),
            Pair("q3", "latin", FALSE, TRUE, FALSE, FALSE),
            Pair("q4", "devanagari", FALSE, TRUE, TRUE, FALSE)}

MCDrafts == <<"u_grnd_001", "u_ref_001">>

VARIABLE part

jobsVars == <<part, batchVars, quotaVars, reviewVars>>

JobsInit ==
    /\ part \in Sides
    /\ BatchInit /\ (part # "rows" => job = ClassifyQuestions)
    /\ QuotaInit /\ (part # "buckets" => gen.job = "refusals" /\ gen.n = 2)
    /\ ReviewInit

\* What a step of one part leaves alone.
ButRows    == <<part, quotaVars, reviewVars>>
ButBuckets == <<part, batchVars, reviewVars>>
ButReview  == <<part, batchVars, quotaVars>>

JobsNext ==
    \/ part = "rows" /\ BatchNext /\ UNCHANGED ButRows
    \/ part = "buckets" /\ QuotaNext /\ UNCHANGED ButBuckets
    \/ part = "review" /\ ReviewNext /\ UNCHANGED ButReview

\* The fairness of BatchSpec, QuotaSpec and ReviewSpec: actions of different
\* parts are never enabled in the same behaviour, nor is CallReturns when
\* WriteAll is, so they can share a WF.
Goes == \/ part = "rows" /\ Work /\ UNCHANGED ButRows
        \/ /\ part = "buckets"
           /\ (\E b \in Bs : CallReturns(b)) \/ WriteAll
           /\ UNCHANGED ButBuckets
Answers(w) == part = "review" /\ (\E t \in Threads : Serve(w, t)) /\ UNCHANGED ButReview

JobsSpec ==
    /\ JobsInit /\ [][JobsNext]_jobsVars
    /\ WF_jobsVars(Goes)
    /\ \A w \in Webs : WF_jobsVars(Answers(w))
-----------------------------------------------------------------------------
\* What is started ends, with the service's failures, in the face of workers
\* that raise, and with threads that wait for a lock (JobsEnd, QuotaEnds,
\* RequestsEnd); and a row that is on disk stays there (RowsStay).
ScriptsEnd == JobsEnd /\ (part = "buckets" => QuotaEnds) /\ RequestsEnd /\ RowsStay
=============================================================================
