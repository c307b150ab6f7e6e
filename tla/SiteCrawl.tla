------------------------------ MODULE SiteCrawl ------------------------------
(***************************************************************************)
(* scripts/crawl_sources.py, the first crawler of the corpus.  main() takes *)
(* one source after the other; crawl_source() walks its site breadth first *)
(* with two queues, one of pages and one of documents, which goes first    *)
(* and has no page budget, and appends a line per fetch to the source's    *)
(* manifest.  A later run reads the manifest back and visits none of its   *)
(* urls again.  A run can be killed at any moment; a kill within a write   *)
(* leaves a piece of a line.                                               *)
(***************************************************************************)
EXTENDS Naturals, Sequences, FiniteSets, SequencesExt, Picking

CONSTANTS
    Sources,        \* records [id, tier, order, host]: host FALSE for a bad homepage
    Wanted,         \* --sources, {} for all of Tiers
    Tiers,          \* --tiers
    MaxSources,     \* --max-sources, 0 for no limit
    Urls,           \* the urls of a site
    Homepage,
    Named,          \* by its extension a url is a "page" or a "document"
    SameSite,       \* the urls whose host ends like the homepage's
    Links,          \* the fetchable links of a url's page, sorted
    Serves,         \* what the server of a url may answer with
    MaxDepth, MaxPdfDepth, MaxPages, MaxSourceFetches,
    CrawlRuns,      \* how often the script is run
    CrawlKills      \* how often it is killed

Answered == {"html", "pdf", "other", "error"}

ASSUME SiteAssumption ==
    /\ Homepage \in Urls /\ SameSite \subseteq Urls
    /\ Named \in [Urls -> {"page", "document"}]
    /\ Links \in [Urls -> Seq(Urls)]
    /\ Serves \in [Urls -> SUBSET Answered]
    /\ {MaxSources, MaxDepth, MaxPdfDepth, MaxPages, MaxSourceFetches,
        CrawlRuns, CrawlKills} \subseteq Nat

\* corpora/sources_tiered.jsonl has each source_id once.
ASSUME SourcesAssumption ==
    /\ Sources \in Seq(ToSet(Sources))
    /\ \A j, k \in DOMAIN Sources : Sources[j].id = Sources[k].id => j = k

-----------------------------------------------------------------------------
(* main(): which sources, in which order.  The limit cuts the file's order *)
(* before the sources are sorted.                                          *)

Filtered(sources) ==
    Picked(sources, {k \in DOMAIN sources : IF Wanted # {} THEN sources[k].id \in Wanted
                                            ELSE sources[k].tier \in Tiers})
Limited(sources) ==
    IF MaxSources > 0 /\ MaxSources < Len(sources) THEN SubSeq(sources, 1, MaxSources)
    ELSE sources
Precedes(s, t) == s.tier < t.tier \/ (s.tier = t.tier /\ s.order < t.order)
Sorted(sources) ==
    {y \in [DOMAIN sources -> ToSet(sources)] :
        /\ \A j, k \in DOMAIN sources : y[j] = y[k] => j = k
        /\ \A j, k \in DOMAIN sources : j < k => ~Precedes(y[k], y[j])}
Chosen == Sorted(Limited(Filtered(Sources)))

-----------------------------------------------------------------------------
(* The manifest: its whole lines.  A line after a piece of a line runs     *)
(* into it, and neither can be read.                                       *)

Entry(url, depth, kind) == [url |-> url, depth |-> depth, kind |-> kind]
LoadManifest(manifest) == {manifest[k].url : k \in DOMAIN manifest}
AppendManifest(manifest, isRagged, e) == IF isRagged THEN manifest ELSE Append(manifest, e)

-----------------------------------------------------------------------------
VARIABLES
    left,           \* the sources to crawl, the one at work first
    manifests,      \* the manifest of each source
    ragged,         \* sources whose manifest ends in a piece of a line
    site,           \* the crawl of one source, or NoSite
    crawls,         \* the summaries of this run, by source
    misnamed,       \* a document's url answered with a page
    runsDone, killsDone

siteVars == <<left, manifests, ragged, site, crawls, misnamed, runsDone, killsDone>>

SourceIds == {s.id : s \in ToSet(Sources)}
NoSite == [visited |-> {}, pages |-> <<>>, documents |-> <<>>,
           html |-> 0, pdf |-> 0, errors |-> 0, resumed |-> FALSE, on |-> FALSE]
NoSummary == [status |-> "none", stop |-> "none", html |-> 0, resumed |-> FALSE]

SiteInit ==
    /\ left = <<>>
    /\ manifests = [s \in SourceIds |-> <<>>]
    /\ ragged = {}
    /\ site = NoSite
    /\ crawls = [s \in SourceIds |-> NoSummary]
    /\ misnamed = FALSE
    /\ runsDone = 0 /\ killsDone = 0

StartCrawl ==
    /\ left = <<>> /\ runsDone < CrawlRuns
    /\ runsDone' = runsDone + 1
    /\ left' \in Chosen
    /\ crawls' = [s \in SourceIds |-> NoSummary]
    /\ UNCHANGED <<manifests, ragged, site, misnamed, killsDone>>

Summed(status, stop) ==
    /\ crawls' = [crawls EXCEPT ![Head(left).id] =
                    [status |-> status, stop |-> stop, html |-> site.html,
                     resumed |-> site.resumed]]
    /\ left' = Tail(left)
    /\ site' = NoSite

\* crawl_source() up to its loop.
StartSite ==
    /\ left # <<>> /\ ~site.on /\ Head(left).host
    /\ LET id == Head(left).id
       IN site' = [NoSite EXCEPT !.on = TRUE, !.visited = LoadManifest(manifests[id]),
                                 !.pages = <<<<Homepage, 0>>>>,
                                 !.resumed = (manifests[id] # <<>> \/ id \in ragged)]
    /\ UNCHANGED <<left, manifests, ragged, crawls, misnamed, runsDone, killsDone>>
BadHomepage ==
    /\ left # <<>> /\ ~site.on /\ ~Head(left).host
    /\ Summed("bad_homepage", "none")
    /\ UNCHANGED <<manifests, ragged, misnamed, runsDone, killsDone>>

\* _budget_ok(): neither documents other than PDFs nor skipped urls count.
Capped == site.html + site.pdf + site.errors >= MaxSourceFetches

\* _pop_next(): documents first, then pages while there are any left to spend.
PageNext == site.documents = <<>> /\ site.pages # <<>> /\ site.html < MaxPages
ItemNext == PageNext \/ site.documents # <<>>
Popped(last) ==
    IF site.documents # <<>> THEN [item |-> Head(site.documents), pages |-> site.pages,
                                   documents |-> Tail(site.documents)]
    ELSE IF last THEN [item |-> Last(site.pages), pages |-> Front(site.pages), documents |-> <<>>]
    ELSE [item |-> Head(site.pages), pages |-> Tail(site.pages), documents |-> <<>>]
PopDeepest == Popped(TRUE)
Pop == Popped(FALSE)

StopSite ==
    /\ site.on
    /\ \/ Summed("ok", "source_elapsed_cap")
       \/ Capped /\ Summed("ok", "source_fetch_cap")
       \/ ~Capped /\ ~ItemNext /\ Summed("ok", "queue_drained")
    /\ UNCHANGED <<manifests, ragged, misnamed, runsDone, killsDone>>

\* A url met before costs nothing.
SkipUrl ==
    /\ site.on /\ ~Capped /\ ItemNext
    /\ Pop.item[1] \in site.visited
    /\ site' = [site EXCEPT !.pages = Pop.pages, !.documents = Pop.documents]
    /\ UNCHANGED <<left, manifests, ragged, crawls, misnamed, runsDone, killsDone>>

DepthLimit(named) == IF named = "document" THEN MaxPdfDepth ELSE MaxDepth
\* The links of a page that are queued.
NewLinks(url, depth, visited, named) ==
    LET found == Picked(Links[url], {k \in DOMAIN Links[url] :
                            /\ Links[url][k] \in SameSite \ visited
                            /\ Named[Links[url][k]] = named})
    IN IF depth + 1 <= DepthLimit(named) THEN [k \in DOMAIN found |-> <<found[k], depth + 1>>]
       ELSE <<>>

\* One turn of the loop: fetch, write the body, queue the links of a page,
\* append to the manifest.
Fetch(kind) ==
    LET url == Pop.item[1]
        depth == Pop.item[2]
        id == Head(left).id
        visited == site.visited \cup {url}
        more(named) == IF kind = "html" THEN NewLinks(url, depth, visited, named) ELSE <<>>
    IN /\ site.on /\ ~Capped /\ ItemNext
       /\ url \notin site.visited /\ kind \in Serves[url]
       /\ site' = [site EXCEPT
            !.visited = visited,
            !.pages = Pop.pages \o more("page"),
            !.documents = Pop.documents \o more("document"),
            !.html = @ + (IF kind = "html" THEN 1 ELSE 0),
            !.pdf = @ + (IF kind = "pdf" THEN 1 ELSE 0),
            !.errors = @ + (IF kind = "error" THEN 1 ELSE 0)]
       /\ manifests' = [manifests EXCEPT ![id] =
                            AppendManifest(@, id \in ragged, Entry(url, depth, kind))]
       /\ ragged' = ragged \ {id}
       /\ misnamed' = (misnamed \/ (kind = "html" /\ Named[url] = "document"))
       /\ UNCHANGED <<left, crawls, runsDone, killsDone>>

\* The line of the fetch under way is not written, or a piece of it is.
LineLost ==
    \/ UNCHANGED ragged
    \/ /\ site.on /\ ~Capped /\ ItemNext /\ Pop.item[1] \notin site.visited
       /\ ragged' = ragged \cup {Head(left).id}

\* A file of the source cannot be written: the next source is crawled.
AbortSite ==
    /\ site.on
    /\ Summed("aborted", "none")
    /\ LineLost
    /\ UNCHANGED <<manifests, misnamed, runsDone, killsDone>>

\* The run ends here.
KillCrawl ==
    /\ left # <<>> /\ killsDone < CrawlKills
    /\ killsDone' = killsDone + 1
    /\ left' = <<>> /\ site' = NoSite
    /\ crawls' = [s \in SourceIds |-> NoSummary]
    /\ LineLost
    /\ UNCHANGED <<manifests, misnamed, runsDone>>

SiteNext ==
    \/ StartCrawl \/ StartSite \/ BadHomepage \/ StopSite \/ SkipUrl
    \/ \E kind \in Answered : Fetch(kind)
    \/ AbortSite \/ KillCrawl

SiteSpec == SiteInit /\ [][SiteNext]_siteVars

-----------------------------------------------------------------------------
Recorded(id) == ToSet(manifests[id])
Fetched(id, kinds) == {e \in Recorded(id) : e.kind \in kinds}

\* What the variables hold.
SiteTypeOK ==
    /\ ToSet(left) \subseteq ToSet(Sources)
    /\ ragged \subseteq SourceIds
    /\ site.visited \subseteq Urls
    /\ {p[1] : p \in ToSet(site.pages) \cup ToSet(site.documents)} \subseteq SameSite \cup {Homepage}
    /\ site.on => left # <<>>
    /\ runsDone \in 0 .. CrawlRuns /\ killsDone \in 0 .. CrawlKills

\* However often the script runs and is killed, no url is recorded twice
\* (visited and _load_manifest() of crawl_source()).
RecordedOnce ==
    \A id \in SourceIds : \A j, k \in DOMAIN manifests[id] :
        manifests[id][j].url = manifests[id][k].url => j = k

\* A manifest that does not begin with the homepage has lost its line.  A
\* later run goes through the homepage again and around the urls it finds
\* recorded, by ways that can be longer.
BeginsAtHome(id) == manifests[id] # <<>> /\ manifests[id][1].url = Homepage

\* A url is recorded at no more than one step beyond each page that links to
\* it, so that its own links are not cut off early; a document's url that
\* answers with a page breaks this, for documents go first (the two queues of
\* crawl_source()).
ShortestDepth ==
    \A id \in SourceIds : BeginsAtHome(id) =>
        \A p \in Fetched(id, {"html"}), e \in Recorded(id) :
            e.url \in ToSet(Links[p.url]) /\ e.url \in SameSite
                => misnamed \/ e.depth <= p.depth + 1

\* The page budget is exceeded by document urls that answer with a page only,
\* and the fetches that count stay below the source's cap (_pop_next() and
\* _budget_ok()).
CapsHold ==
    /\ misnamed \/ site.html <= MaxPages
    /\ site.html + site.pdf + site.errors <= MaxSourceFetches

Linked(id, named) ==
    {v \in SameSite : Named[v] = named /\ \E p \in Fetched(id, {"html"}) :
                          v \in ToSet(Links[p.url]) /\ p.depth + 1 <= DepthLimit(named)}
Missing(id, named) == Linked(id, named) \ {e.url : e \in Recorded(id)}
Drained(id) == crawls[id].stop = "queue_drained"

\* "Two queues so PDFs always drain first (and outside the HTML page budget)":
\* a first run that stops because nothing is left has fetched each document a
\* page of the site links to, whether or not the pages' budget was enough.
DocumentsComplete ==
    \A id \in SourceIds : Drained(id) /\ ~crawls[id].resumed => Missing(id, "document") = {}

\* Nor is a page left out that is not too deep, as long as the budget lasts.
PagesComplete ==
    \A id \in SourceIds :
        Drained(id) /\ ~crawls[id].resumed /\ crawls[id].html < MaxPages
            => Missing(id, "page") = {}

\* What is true of manifests and summaries at any time.
ManifestsAreSound ==
    /\ SiteTypeOK /\ RecordedOnce /\ ShortestDepth /\ CapsHold
    /\ DocumentsComplete /\ PagesComplete
=============================================================================
