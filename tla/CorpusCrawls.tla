----------------------------- MODULE CorpusCrawls -----------------------------
(***************************************************************************)
(* The two crawlers of the corpus side by side: crawl_sources.py with its  *)
(* manifests, and run_crawl_batch.py, which polls the worker and keeps a   *)
(* log and the full-text table.  They share no state.                      *)
(***************************************************************************)
EXTENDS SiteCrawl, CrawlBatch

\* The two crawl scripts: manifests of crawl_sources.py, and the log and the
\* full-text table of run_crawl_batch.py.
CrawlsAreSound == ManifestsAreSound /\ BatchesAreSound
=============================================================================
