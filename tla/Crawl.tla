------------------------------- MODULE Crawl -------------------------------
(***************************************************************************)
(* crawler_v2/worker.rs, the loop of Worker::poll for one source and one   *)
(* cycle, with crawler_v2/frontier.rs and url.rs score: budget gates, pop, *)
(* fetch, parse, upsert, enqueue the page's links.  The site answers as it *)
(* likes.  Links are the links of a page that pass within_site and the     *)
(* recipe's path filters; a url is seen once, at the depth it was first    *)
(* seen at, so the frontier is a set of urls and depth a function of them. *)
(***************************************************************************)
EXTENDS Integers, FiniteSets

CONSTANTS Urls,         \* canonical urls of the site
          Entry,        \* recipe.entry_points
          Links,        \* Links[u]: what the page at u links to
          Boost,        \* Boost[u]: by classify(u)
          Documents,    \* urls classified as Document: max_pdf_depth applies
          MaxDepth, MaxPdfDepth, MaxHtml, MaxTotal,   \* the recipe's budgets
          MaxFailures   \* 20 in the code

ASSUME SiteAssumption == /\ Entry \subseteq Urls /\ Documents \subseteq Urls
                         /\ Links \in [Urls -> SUBSET Urls]
                         /\ Boost \in [Urls -> Int]
ASSUME BudgetAssumption ==
  {MaxDepth, MaxPdfDepth, MaxHtml, MaxTotal, MaxFailures} \subseteq Nat \ {0}

VARIABLES
  frontier,     \* urls in the heap
  seen,         \* the seen set
  depth,        \* depth[u]: of u's frontier item, once seen
  visited,      \* urls fetched
  current,      \* the popped url whose fetch is out, as {} or a singleton
  consecutive_failures,
  html_fetched, binaries_fetched, other_fetched, errors,
  docs_inserted, docs_superseded, docs_unchanged,
  any_change,
  stop_reason,  \* "" while running, the StopReason, or "store_error"
  pages         \* history: urls that answered with an HTML page

heap     == <<frontier, seen, depth>>
fetches  == <<html_fetched, binaries_fetched, other_fetched, errors>>
outcomes == <<docs_inserted, docs_superseded, docs_unchanged, any_change>>
crawlVars == <<heap, visited, current, consecutive_failures, fetches, outcomes,
               stop_reason, pages>>

Total    == html_fetched + binaries_fetched + other_fetched + errors
Score(u) == 100 + Boost[u] - 2 * depth[u]
Running  == stop_reason = ""

\* FrontierItem::cmp: score, then the shallower one (then the url, left open).
PopsBefore(u, v) ==
  Score(u) > Score(v) \/ (Score(u) = Score(v) /\ depth[u] <= depth[v])

CrawlInit ==
  /\ frontier = Entry /\ seen = Entry /\ depth = [u \in Urls |-> 0]
  /\ visited = {} /\ current = {}
  /\ consecutive_failures = 0 /\ pages = {}
  /\ html_fetched = 0 /\ binaries_fetched = 0 /\ other_fetched = 0 /\ errors = 0
  /\ docs_inserted = 0 /\ docs_superseded = 0 /\ docs_unchanged = 0
  /\ any_change = FALSE
  /\ stop_reason = ""

(* The gates, in the order of the code.                                    *)
AtHtmlCap  == html_fetched >= MaxHtml
\* Mutant: fetches that failed do not count.
AtTotalCapOfPages == ~AtHtmlCap /\ Total - errors >= MaxTotal

AtTotalCap == ~AtHtmlCap /\ Total >= MaxTotal
AtCap      == AtHtmlCap \/ AtTotalCap

AtFailures == consecutive_failures >= MaxFailures

StopWith(reason) == /\ Running /\ current = {}
                    /\ stop_reason' = reason
                    /\ UNCHANGED <<heap, visited, current, consecutive_failures, fetches,
                                   outcomes, pages>>

HtmlCap             == AtHtmlCap /\ StopWith("html_cap")
TotalCap            == AtTotalCap /\ StopWith("total_cap")
ElapsedCap          == ~AtCap /\ StopWith("elapsed_cap")    \* at any time
ConsecutiveFailures == ~AtCap /\ AtFailures /\ StopWith("consecutive_failures")
\* Mutant: an empty frontier is waited on.
FrontierAwaited     == /\ Running /\ current = {} /\ ~AtCap /\ ~AtFailures
                       /\ frontier = {} /\ UNCHANGED crawlVars

FrontierDrained     == ~AtCap /\ ~AtFailures /\ frontier = {}
                       /\ StopWith("frontier_drained")

\* A url on the heap is http or https (url.rs canonicalize), so it has a host:
\* the `continue` for one without is never taken.
Pop(u) ==
  /\ Running /\ current = {} /\ ~AtCap /\ ~AtFailures
  /\ u \in frontier /\ \A v \in frontier : PopsBefore(u, v)
  /\ frontier' = frontier \ {u}
  /\ current' = {u}
  /\ UNCHANGED <<seen, depth, visited, consecutive_failures, fetches, outcomes, stop_reason, pages>>

\* The fetch of the popped url returned and is recorded.
Fetched(u) == Running /\ current = {u} /\ current' = {} /\ visited' = visited \cup {u}

\* Timeout, network, TLS or body error.
FetchErr(u) ==
  /\ Fetched(u)
  /\ consecutive_failures' = consecutive_failures + 1
  /\ errors' = errors + 1
  /\ UNCHANGED <<heap, html_fetched, binaries_fetched, other_fetched, outcomes, stop_reason, pages>>

\* A response with status >= 400.
HttpError(u) ==
  /\ Fetched(u)
  /\ consecutive_failures' = 0
  /\ errors' = errors + 1
  /\ UNCHANGED <<heap, html_fetched, binaries_fetched, other_fetched, outcomes, stop_reason, pages>>

FetchOk(u) == Fetched(u) /\ consecutive_failures' = 0

\* A JavaScript shell at an entry point: mark_source_status, stop.
Shell(u) ==
  /\ FetchOk(u) /\ depth[u] = 0
  /\ stop_reason' = "shell_detected"
  /\ UNCHANGED <<heap, fetches, outcomes, pages>>

\* upsert_document: Inserted, Superseded or Unchanged.
Upsert ==
  \/ /\ docs_inserted' = docs_inserted + 1 /\ any_change' = TRUE
     /\ UNCHANGED <<docs_superseded, docs_unchanged>>
  \/ /\ docs_superseded' = docs_superseded + 1 /\ any_change' = TRUE
     /\ UNCHANGED <<docs_inserted, docs_unchanged>>
  \/ /\ docs_unchanged' = docs_unchanged + 1
     /\ UNCHANGED <<docs_inserted, docs_superseded, any_change>>

DepthCap(v) == IF v \in Documents THEN MaxPdfDepth ELSE MaxDepth

\* Mutant: push asks whether the url was fetched, not whether it was seen.
EnqueueUnvisited(u) ==
  LET new == {v \in Links[u] \ visited : depth[u] + 1 <= DepthCap(v)}
  IN /\ frontier' = frontier \cup new
     /\ seen' = seen \cup new
     /\ depth' = [v \in Urls |-> IF v \in new THEN depth[u] + 1 ELSE depth[v]]

\* Mutant: links of low value are marked as seen and not queued.
EnqueueForgets(u) ==
  LET new == {v \in Links[u] \ seen : depth[u] + 1 <= DepthCap(v)}
  IN /\ frontier' = frontier \cup {v \in new : Boost[v] >= 0}
     /\ seen' = seen \cup new
     /\ depth' = [v \in Urls |-> IF v \in new THEN depth[u] + 1 ELSE depth[v]]

\* enqueue_discovered_links: Frontier::push of every link not too deep.
Enqueue(u) ==
  LET new == {v \in Links[u] \ seen : depth[u] + 1 <= DepthCap(v)}
  IN /\ frontier' = frontier \cup new
     /\ seen' = seen \cup new
     /\ depth' = [v \in Urls |-> IF v \in new THEN depth[u] + 1 ELSE depth[v]]

Html(u) ==
  /\ FetchOk(u)
  /\ Upsert
  /\ html_fetched' = html_fetched + 1
  /\ Enqueue(u)
  /\ pages' = pages \cup {u}
  /\ UNCHANGED <<binaries_fetched, other_fetched, errors, stop_reason>>

Binary(u) ==
  /\ FetchOk(u)
  /\ Upsert
  /\ binaries_fetched' = binaries_fetched + 1
  /\ UNCHANGED <<heap, html_fetched, other_fetched, errors, stop_reason, pages>>

Unsupported(u) ==
  /\ FetchOk(u)
  /\ other_fetched' = other_fetched + 1
  /\ UNCHANGED <<heap, html_fetched, binaries_fetched, errors, outcomes, stop_reason, pages>>

\* record_fetch_*, a blob write or upsert_document fails: `?` leaves poll.
StoreError(u) ==
  /\ Fetched(u)
  /\ stop_reason' = "store_error"
  /\ UNCHANGED <<heap, consecutive_failures, fetches, outcomes, pages>>

Gate == HtmlCap \/ TotalCap \/ ConsecutiveFailures \/ FrontierDrained

Response(u) == \/ FetchErr(u) \/ HttpError(u) \/ Shell(u) \/ Html(u)
               \/ Binary(u) \/ Unsupported(u) \/ StoreError(u)

Iterate == Gate \/ \E u \in Urls : Pop(u) \/ Response(u)

CrawlNext == Iterate \/ ElapsedCap

CrawlSpec == CrawlInit /\ [][CrawlNext]_crawlVars

\* The worker runs and every fetch returns; the time cap is not needed.
FairCrawlSpec == CrawlSpec /\ WF_crawlVars(Iterate)
-----------------------------------------------------------------------------
StopReasons == {"", "html_cap", "total_cap", "elapsed_cap", "consecutive_failures",
                "frontier_drained", "shell_detected", "store_error"}

(* Type invariant.                                                         *)
CrawlTypeOK ==
  /\ frontier \subseteq Urls /\ seen \subseteq Urls /\ visited \subseteq Urls
  /\ depth \in [Urls -> Nat]
  /\ current = {} \/ \E u \in Urls : current = {u}
  /\ consecutive_failures \in 0 .. MaxFailures /\ pages \subseteq visited
  /\ {html_fetched, binaries_fetched, other_fetched, errors} \subseteq Nat
  /\ {docs_inserted, docs_superseded, docs_unchanged} \subseteq Nat
  /\ any_change \in BOOLEAN
  /\ stop_reason \in StopReasons

(* No url is fetched twice in a cycle, although it may be linked from many *)
(* pages before and after it is fetched, and no url is lost: what was seen *)
(* is waiting, out, or done.                                               *)
EachUrlOnce ==
  /\ seen = frontier \cup current \cup visited
  /\ visited \cap (frontier \cup current) = {} /\ frontier \cap current = {}

(* The poll_cycles row adds up: every completed fetch is in one counter,   *)
(* every stored document in one outcome, and last_changed_at is written    *)
(* exactly when a document changed.  Health reads all of them.             *)
CountersAgree ==
  stop_reason # "store_error" =>
    /\ Cardinality(visited) = Total + IF stop_reason = "shell_detected" THEN 1 ELSE 0
    /\ html_fetched + binaries_fetched = docs_inserted + docs_superseded + docs_unchanged
    /\ any_change <=> docs_inserted + docs_superseded > 0

(* A cycle never asks a government site for more than the recipe allows.   *)
WithinBudget == html_fetched <= MaxHtml /\ Cardinality(visited) <= MaxTotal

(* Every cycle ends, whatever the site answers and however its pages link  *)
(* to each other.                                                          *)
CycleEnds == <>~Running

(* A url's depth, which the limits and the score go by, is the length of a *)
(* path to it, over pages that were fetched, and within the limit (not     *)
(* always the shortest path: the heap prefers high scores to low depths).  *)
DepthsAreLinks ==
  \A v \in seen :
    \/ v \in Entry /\ depth[v] = 0
    \/ /\ depth[v] <= DepthCap(v)
       /\ \E u \in pages : v \in Links[u] /\ depth[v] = depth[u] + 1

(* worker.rs:49: "Frontier drained naturally - the full reachable set was  *)
(* crawled".  Every entry point has been fetched, and every link of every  *)
(* page that was fetched, but for those below the depth limit of where the *)
(* page was first found.                                                   *)
DrainIsComplete ==
  stop_reason = "frontier_drained" =>
    /\ Entry \subseteq visited
    /\ \A u \in pages : \A v \in Links[u] : depth[u] < DepthCap(v) => v \in visited

(* What a cycle reports is true: its row of poll_cycles counts every fetch *)
(* and every document once, depths are depths, and a drained frontier      *)
(* means that everything within them was fetched.                          *)
ReportIsTrue == CountersAgree /\ DepthsAreLinks /\ DrainIsComplete
=============================================================================
