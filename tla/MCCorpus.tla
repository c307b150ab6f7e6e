------------------------------- MODULE MCCorpus -------------------------------
(***************************************************************************)
(* The scripts that make the corpus and the training sets, side by side:   *)
(* the two crawl scripts, and the distilling, building and composing of    *)
(* rows.  They share files only; a behaviour belongs to one part, and the  *)
(* others stay as they begin.                                              *)
(***************************************************************************)
EXTENDS CorpusCrawls, Teaching, Datasets, Composition

-----------------------------------------------------------------------------
(* The crawls.                                                             *)

Src(id, order, tier, host) == [id |-> id, order |-> order, tier |-> tier, host |-> host]
\* The first two of the file are crawled, the one of tier 1 first; the
\* second has no homepage.
MCSources == <<Src("ird", 3, 2, TRUE), Src("moha", 1, 1, FALSE), Src("dao", 2, 1, TRUE)>>
MCTiers == {1, 2}

\* home -> a, b, c, form.pdf; a -> home; b -> d, law.doc; c -> b, d, home, off;
\* d -> deep, law.doc; form.pdf, where it answers with a page, -> deep,
\* law.doc.
MCUrls == {"home", "a", "b", "c", "d", "deep", "off", "form", "law"}
MCNamed == [u \in MCUrls |-> IF u \in {"form", "law"} THEN "document" ELSE "page"]
MCSameSite == MCUrls \ {"off"}
MCLinks == [u \in MCUrls |->
    CASE u = "home" -> <<"a", "b", "c", "form">>
      [] u = "a" -> <<"home">>
      [] u = "b" -> <<"d", "law">>
      [] u = "c" -> <<"b", "d", "home", "off">>
      [] u = "d" -> <<"deep", "law">>
      [] u = "form" -> <<"deep", "law">>
      [] OTHER -> <<>>]
MCServes == [u \in MCUrls |->
    CASE u = "form" -> {"pdf", "html", "error"}
      [] u = "law" -> {"other", "pdf"}
      [] u = "b" -> {"html", "error"}
      [] u = "c" -> {"html", "pdf"}
      [] OTHER -> {"html"}]

MCRegistry == {[id |-> "dao", tier |-> 1, order |-> 1], [id |-> "ird", tier |-> 1, order |-> 2],
               [id |-> "blog", tier |-> 9, order |-> 3]}
-----------------------------------------------------------------------------
(* Contracts and rows.                                                     *)

Source(rank, url, h) == [rank |-> rank, url |-> url, host |-> h]
Says(marks) == [says |-> "fact", marks |-> marks]
Refusal(says) == [says |-> says, marks |-> {}]
Fact(ids) == [ids |-> ids, value |-> TRUE]

\* URL 4 contains URL 1; URL 9 is on no source.
MCNear == {{1, 4}}
SourceLists == {<<>>, <<Source(1, 1, "moha")>>,
                <<Source(1, 1, "moha"), Source(2, 2, "dotm")>>,
                <<Source(2, 2, "dotm"), Source(1, 1, "moha")>>,
                <<Source(1, 1, "moha"), Source(2, 1, "moha")>>,
                <<Source(0, 1, "moha"), Source(2, 2, "dotm")>>}
Texts == {<<>>, <<Says({})>>, <<Says({<<"sid", 1>>})>>, <<Says({<<"sid", 2>>})>>,
          <<Says({<<"sid", 1>>, <<"sid", 2>>}), Says({})>>,
          <<Says({<<"sid", 1>>}), Refusal("refusal_ne"), Refusal("official_ne")>>,
          <<Says({<<"sid", 1>>}), Refusal("refusal_en"), Refusal("refusal_en")>>,
          <<Says({<<"sid", 3>>})>>,
          <<Says({<<"num", 1>>}), Says({<<"sid", 1>>})>>, <<Says({<<"num", 3>>})>>,
          <<Says({<<"sid", 1>>}), Says({<<"num", 2>>})>>,
          <<Says({<<"url", 4>>})>>, <<Says({<<"url", 9>>})>>}
\* Facts and contacts; the language and the domains of the seed.
Listed == {<<<<>>, <<>>>>, <<<<Fact({2})>>, <<>>>>, <<<<Fact({1}), Fact({})>>, <<>>>>,
           <<<<Fact({1, 2})>>, <<Fact({1})>>>>, <<<<>>, <<Fact({3})>>>>}
Asking == {<<"english", {}>>, <<"roman_nepali", {"moha"}>>, <<"devanagari", {"moha"}>>}
MCTeachings ==
    {[id |-> 1, q |-> "q1", lang |-> asking[1], sources |-> srcs, ability |-> ability, asks |-> asks,
      questions |-> asks, relevant |-> {}, facts |-> listed[1], contacts |-> listed[2], text |-> text,
      missing |-> missing, domains |-> asking[2]] :
        srcs \in SourceLists, ability \in Abilities, asks \in BOOLEAN, listed \in Listed,
        text \in Texts, missing \in BOOLEAN, asking \in Asking}

Page(url, h) == [rank |-> url, url |-> url, host |-> h]
Pages == <<Page(1, "moha"), Page(2, "dotm")>>
Taught(id, q, ability, text) ==
    Judged([id |-> id, q |-> q, lang |-> "english", sources |-> Pages, ability |-> ability,
            asks |-> FALSE, questions |-> FALSE, relevant |-> {}, facts |-> <<>>, contacts |-> <<>>,
            text |-> text, missing |-> FALSE, domains |-> {}], "gold")

MCFirst == {Taught(1, "q1", "answer", <<Says({<<"sid", 2>>}), Says({}), Refusal("refusal_ne")>>),
            Taught(2, "q3", "refuse", <<Refusal("refusal_en")>>)}
\* The third says what the first said.
MCCurriculum == MCFirst \cup {[rec EXCEPT !.id = 3] : rec \in {r \in MCFirst : r.id = 1}}
Item(q, type, failed) ==
    [q |-> q, type |-> type, failed |-> failed, sources |-> Pages, draft |-> <<Says({<<"url", 2>>})>>]
MCGold == {Item("q1", "grounded", TRUE), Item("q5", "grounded", TRUE), Item("q3", "refusal", FALSE)}
Seed(file, q, decision) == [file |-> file, q |-> q, decision |-> decision]
\* One question stands in two seed files.
MCSeeds == <<Seed("dialogue", "s1", "ask"), Seed("dialogue", "s2", "off"),
             Seed("pipeline", "s1", "ask"), Seed("service", "s3", "answer")>>
MCMinBucket == [v6 |-> 2, v62 |-> 3, v63 |-> 2, v64 |-> 3]
-----------------------------------------------------------------------------
(* Compositions.                                                           *)

Raw(id, q, refuses) == [id |-> id, q |-> q, refuses |-> refuses, skip |-> FALSE,
                          chunks |-> IF id % 2 = 1 THEN {"page"} ELSE {}]
MCRawFiles ==
    [grounded |-> {Raw(1, "a", FALSE), Raw(2, "b", FALSE), Raw(3, "c", TRUE), Raw(4, "d", TRUE),
                   Raw(5, "e", TRUE), [Raw(6, "f", FALSE) EXCEPT !.skip = TRUE], Raw(7, "h", TRUE)},
     terse |-> {Raw(11, "t", FALSE), Raw(12, "u", FALSE), Raw(13, "v", FALSE)},
     fallback |-> {Raw(21, "a", FALSE), Raw(22, "c", FALSE), Raw(23, "g", TRUE)},
     tulu1 |-> {Raw(31, "x", FALSE), Raw(32, "y", FALSE)},
     tulu2 |-> {Raw(41, "x", FALSE), Raw(42, "z", FALSE)}]
MCSliceTargets == [grounded |-> 5, terse |-> 1, english |-> 0]
\* 0.6 of two answered records: three refusals, or two by the float.
MCRefusalCap == <<3, 5>>
MCRagRows == {[id |-> id, q |-> <<"r1", "r2", "r3", "r4">>[id], issues |-> id = 4] : id \in 1..4}
\* The first question is asked by two records.
MCDialogueRecords == {[id |-> 1, q |-> "s1", issues |-> FALSE, answered |-> TRUE],
                      [id |-> 2, q |-> "s1", issues |-> FALSE, answered |-> FALSE],
                      [id |-> 3, q |-> "s2", issues |-> FALSE, answered |-> FALSE]}
MCReplayRows == {[source |-> "replay", q |-> q, skip |-> q = "m3"] : q \in {"m1", "m2", "m3"}}
GuardItem(id, cat) == [id |-> id, cat |-> cat]
\* More categories than the guard has places for in its second phase.
MCGuardItems == {GuardItem(1, "land"), GuardItem(2, "land"), GuardItem(3, "tax"),
                 GuardItem(4, "passport"), GuardItem(5, "passport"), GuardItem(6, "police"),
                 GuardItem(7, "health"), GuardItem(8, "water")}
MCLowCoverage == {"land", "tax", "education"}
-----------------------------------------------------------------------------
VARIABLE part

corpusVars == <<part, siteVars, crawlBatchVars, records, datasetVars, compositionVars>>

CorpusInit ==
    /\ part \in {"site", "batch", "teaching", "datasets", "composition"}
    /\ SiteInit /\ RunInit /\ TeachingInit /\ DatasetsInit
    /\ CompositionInit /\ (part # "composition" => making = "guard")

\* What a step of one part leaves alone.
ButSite        == <<part, crawlBatchVars, records, datasetVars, compositionVars>>
ButBatch       == <<part, siteVars, records, datasetVars, compositionVars>>
ButTeaching    == <<part, siteVars, crawlBatchVars, datasetVars, compositionVars>>
ButDatasets    == <<part, siteVars, crawlBatchVars, records, compositionVars>>
ButComposition == <<part, siteVars, crawlBatchVars, records, datasetVars>>

CorpusNext ==
    \/ part = "site" /\ SiteNext /\ UNCHANGED ButSite
    \/ part = "batch" /\ RunNext /\ UNCHANGED ButBatch
    \/ part = "teaching" /\ TeachingNext /\ UNCHANGED ButTeaching
    \/ part = "datasets" /\ DatasetsNext /\ UNCHANGED ButDatasets
    \/ part = "composition" /\ CompositionNext /\ UNCHANGED ButComposition

CorpusSpec == CorpusInit /\ [][CorpusNext]_corpusVars
=============================================================================
