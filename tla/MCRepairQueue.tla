--------------------------- MODULE MCRepairQueue ---------------------------
(* RepairQueue with one source above and one below the review tier, the    *)
(* daemon, and `crawl repair --drain` next to it.                          *)
EXTENDS RepairQueue

CONSTANTS palika, ministry, daemon, cli

MCSources == {palika, ministry}
MCReview  == {ministry}
MCWithCli == {daemon, cli}
=============================================================================
